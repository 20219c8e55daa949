-------------------------- MODULE NumaResizeProofs --------------------------
(***************************************************************************)
(* Theorems about NumaResize, for any number of processes, threads, lanes, *)
(* keys, epoch slots and versions and for every bound.                     *)
(*                                                                         *)
(* The registry and its regions follow from IInv.  Then come what client   *)
(* threads see of a resize (no thread works on a region ahead of the       *)
(* registry, from ViewInv) and the indices that alloc_remote_data_slot     *)
(* gives out (none twice, and none outside the current array, from         *)
(* IndexInv).                                                              *)
(*                                                                         *)
(* The lanes count in steps of mem_threads from consecutive values, so     *)
(* each stays in a residue class of its own, and do_copy restarts them at  *)
(* the capacity that bounds every index given out (LaneInv).  The bound is *)
(* read through a reference taken before the lane is advanced; it is not   *)
(* above the current capacity as long as the slot referred to has not been *)
(* filled for a later version (ReferenceInv), which needs every version so *)
(* far to have a slot of its own (EpochsUnwrapped).                        *)
(***************************************************************************)
EXTENDS NumaResize, FiniteSetTheorems, TLAPS

\* Most leaves are first-order, so Zenon is tried before the SMT solver.
USE ZenonT(10), SMTT(30)

(***************************************************************************)
(* Arithmetic of the epoch slots.                                          *)
(***************************************************************************)

\* A remainder is determined by any quotient that leaves it.
LEMMA RemainderUnique ==
  ASSUME NEW v \in Nat, NEW q \in Int, NEW r \in 0 .. kMaxEpochSlots - 1,
         v = q * kMaxEpochSlots + r
  PROVE  v % kMaxEpochSlots = r
BY RegistryAssumption, Z3

\* Every version has a slot in epoch[].
LEMMA SlotInRange ==
  ASSUME NEW v \in Nat
  PROVE  Slot(v) \in EpochSlots
BY RegistryAssumption DEF Slot, EpochSlots

\* Counting up by one moves to the next slot, cyclically.
LEMMA SlotSuccessor ==
  ASSUME NEW v \in Nat
  PROVE  Slot(v + 1) = IF Slot(v) = kMaxEpochSlots - 1 THEN 0 ELSE Slot(v) + 1
<1> DEFINE q == v \div kMaxEpochSlots
           r == v % kMaxEpochSlots
<1>1. q \in Int /\ r \in 0 .. kMaxEpochSlots - 1 /\ v = q * kMaxEpochSlots + r
  BY RegistryAssumption, Z3
<1> HIDE DEF q, r
<1>2. CASE r = kMaxEpochSlots - 1
  <2>1. v + 1 = (q + 1) * kMaxEpochSlots + 0
    BY <1>1, <1>2, RegistryAssumption, Z3
  <2>2. (v + 1) % kMaxEpochSlots = 0
    BY <2>1, <1>1, RegistryAssumption, RemainderUnique
  <2> QED BY <2>2, <1>2 DEF Slot, r
<1>3. CASE r # kMaxEpochSlots - 1
  <2>1. r + 1 \in 0 .. kMaxEpochSlots - 1
    BY <1>1, <1>3, RegistryAssumption
  <2>2. v + 1 = q * kMaxEpochSlots + (r + 1)
    BY <1>1, <2>1, RegistryAssumption, Z3
  <2>3. (v + 1) % kMaxEpochSlots = r + 1
    BY <2>1, <2>2, <1>1, RemainderUnique
  <2> QED BY <2>3, <1>3 DEF Slot, r
<1> QED BY <1>2, <1>3

\* A version and its successor never share an epoch slot, although the
\* successor may skip a number: do_copy writes no slot that is in use.
LEMMA NextVersionSlot ==
  ASSUME NEW v \in Nat
  PROVE  /\ NextVersion(v) \in Nat
         /\ NextVersion(v) > v
         /\ Slot(NextVersion(v)) # Slot(v)
<1>1. Slot(v) \in EpochSlots /\ Slot(v + 1) \in EpochSlots
  BY SlotInRange
<1>2. Slot(v + 1) = IF Slot(v) = kMaxEpochSlots - 1 THEN 0 ELSE Slot(v) + 1
  BY SlotSuccessor
<1>3. Slot((v + 1) + 1) =
        IF Slot(v + 1) = kMaxEpochSlots - 1 THEN 0 ELSE Slot(v + 1) + 1
  BY SlotSuccessor
<1>4. (v + 1) + 1 = v + 2
  OBVIOUS
<1>5. NextVersion(v) = IF Slot(v + 1) = 0 THEN v + 2 ELSE v + 1
  BY DEF NextVersion, Slot
<1> QED BY <1>1, <1>2, <1>3, <1>4, <1>5, RegistryAssumption DEF EpochSlots

(***************************************************************************)
(* The inductive invariant.                                                *)
(***************************************************************************)

\* registered_clients counts the active slots of the client table.
RegisteredCount ==
    registered_clients = Cardinality({i \in ClientSlots : clients[i] # "free"})

\* A thread's client slot is one of the active ones.
SlotHeld ==
    \A t \in Threads : client_slot[t] # 0 => clients[client_slot[t]] # "free"

\* There is no predecessor: the server works on the current region.
Single ==
    /\ previous_version = 0
    /\ pending_old_ver = 0 /\ pending_old_base = 0
    /\ srv_region = current_version

\* There is one: it is linked, mapped and described by its own epoch slot.
Double ==
    /\ previous_version # 0
    /\ current_version = NextVersion(previous_version)
    /\ shm = {previous_version, current_version}
    /\ srv_maps = {previous_version, current_version}
    /\ epoch[Slot(previous_version)].version = previous_version

Building == {"fill", "lanes", "publish", "switch"}

\* Which of the two holds at each point of the monitor, and what do_copy has
\* established so far.
PhaseInv ==
    /\ mpc = "poll" => new_ver = 0 /\ resize_state # "COPYING"
    /\ current_version > 0
    /\ mpc = "gc_done" => new_ver = 0 /\ resize_state = "GC_PENDING"
    /\ \/ mpc = "poll" /\ resize_state \in {"NORMAL", "PRE_RESIZE"}
       \/ mpc \in {"gc_done", "create"}
       => Single /\ srv_maps = {current_version}
          /\ shm \subseteq {current_version, NextVersion(current_version)}
    /\ mpc \in Building \union {"create"} =>
         resize_state = "COPYING" /\ new_ver = NextVersion(current_version)
    /\ mpc \in Building =>
         Single /\ srv_maps = {current_version, new_ver}
         /\ shm = {current_version, new_ver}
    /\ mpc \in Building \ {"fill"} => epoch[Slot(new_ver)].version = new_ver
    /\ mpc = "switch" => epoch[Slot(new_ver)].published = 1
    /\ mpc \in {"bump", "ready", "handover"} =>
         Double /\ new_ver = current_version
         /\ pending_old_ver = 0 /\ pending_old_base = 0
         /\ srv_region = previous_version
    /\ mpc \in {"bump", "ready"} => resize_state = "COPYING"
    /\ mpc = "handover" => resize_state = "READY_TO_SWITCH"
    /\ mpc = "poll" /\ resize_state \in {"READY_TO_SWITCH", "DRAIN_OLD", "GC_PENDING"}
       => Double /\ pending_old_ver = previous_version
          /\ pending_old_base = previous_version /\ srv_region = current_version
    /\ mpc = "poll" /\ resize_state = "GC_PENDING" =>
         epoch[Slot(previous_version)].cleanup_allowed = 1

IInv == TypeOK /\ RegisteredCount /\ SlotHeld /\ CurrentUsable /\ PhaseInv

\* The counters of the registry stay in their types.
LEMMA CounterTypes ==
  /\ \A v \in Nat : Slot(v) \in EpochSlots
  /\ \A v \in Nat : NextVersion(v) \in Nat
  /\ \A n \in 0 .. U64Max : FetchSub1(n) \in 0 .. U64Max
  /\ \A n \in 0 .. kMaxClients : n \in 0 .. U64Max
  /\ 0 \in 0 .. U64Max
<1>1. \A v \in Nat : Slot(v) \in EpochSlots
  BY SlotInRange
<1>2. \A v \in Nat : NextVersion(v) \in Nat
  BY NextVersionSlot
<1>3. \A n \in 0 .. U64Max : FetchSub1(n) \in 0 .. U64Max
  BY RegistryAssumption DEF FetchSub1
<1>4. \A n \in 0 .. kMaxClients : n \in 0 .. U64Max
  BY RegistryAssumption
<1> QED BY <1>1, <1>2, <1>3, <1>4, RegistryAssumption

\* Storing into the counters of one epoch keeps the table's type.
LEMMA EpochStore ==
  ASSUME epoch \in [EpochSlots -> ResizeEpoch], NEW s \in EpochSlots
  PROVE  /\ \A n \in 0 .. U64Max :
              [epoch EXCEPT ![s].clients_pending_ack = n] \in [EpochSlots -> ResizeEpoch]
         /\ [epoch EXCEPT ![s].published = 1] \in [EpochSlots -> ResizeEpoch]
         /\ [epoch EXCEPT ![s].cleanup_allowed = 1] \in [EpochSlots -> ResizeEpoch]
BY DEF ResizeEpoch

\* The initial state has the type.
LEMMA InitType == Init => TypeOK
<1> SUFFICES ASSUME Init PROVE TypeOK
  OBVIOUS
<1>1. EmptyEpoch \in ResizeEpoch
  BY CounterTypes DEF EmptyEpoch, ResizeEpoch
<1>2. packed_entries \in Nat
  BY RegistryAssumption DEF packed_entries
<1>3. [EmptyEpoch EXCEPT !.version = 1, !.num_data_entries = packed_entries,
                         !.published = 1] \in ResizeEpoch
  BY <1>1, <1>2 DEF ResizeEpoch
<1>4. epoch \in [EpochSlots -> ResizeEpoch]
  BY <1>1, <1>3 DEF Init, RegistryInit
<1>5. lane_next_free_index \in [Lanes -> Nat]
  BY RegistryAssumption DEF Lanes, Init, RegistryInit
<1>6. RegistryType
  BY <1>4, <1>5, RegistryAssumption DEF RegistryType, ResizeState, Init, RegistryInit
<1>7. MonitorType
  BY DEF MonitorType, MonitorPoints, Init, MonitorInit
<1>8. ClientType
  BY RegistryAssumption DEF ClientType, ClientPoints, ConnectPoints, Init, ClientInit
<1> QED BY <1>6, <1>7, <1>8 DEF TypeOK

\* The monitor's steps keep the type.
LEMMA MonitorStepType == TypeOK /\ MonitorNext /\ UNCHANGED cliVars => TypeOK'
<1> SUFFICES ASSUME TypeOK, MonitorNext, UNCHANGED cliVars PROVE TypeOK'
  OBVIOUS
<1> USE CounterTypes DEF RegistryType, MonitorType, monVars, srvVars, regVars, set_state,
        ResizeState, MonitorPoints
<1>0. RegistryType /\ MonitorType /\ ClientType
  BY DEF TypeOK
<1>c. ClientType'
  BY <1>0 DEF ClientType, cliVars
<1>1. ASSUME maybe_trigger_pre_resize PROVE RegistryType' /\ MonitorType'
  BY <1>1, <1>0 DEF maybe_trigger_pre_resize
<1>2. ASSUME maybe_start_copying PROVE RegistryType' /\ MonitorType'
  BY <1>2, <1>0 DEF maybe_start_copying
<1>3. ASSUME CopyCreateFails PROVE RegistryType' /\ MonitorType'
  BY <1>3, <1>0 DEF CopyCreateFails
<1>4. ASSUME CopyCreate PROVE RegistryType' /\ MonitorType'
  BY <1>4, <1>0 DEF CopyCreate
<1>n. current_epoch.num_data_entries \in Nat
  <2>1. current_epoch \in ResizeEpoch
    BY <1>0, Slot(current_version) \in EpochSlots DEF current_epoch
  <2> QED BY <2>1 DEF ResizeEpoch
<1>5. ASSUME CopyFillEpoch PROVE RegistryType' /\ MonitorType'
  <2> DEFINE e == [version |-> new_ver,
                   num_data_entries |-> 2 * current_epoch.num_data_entries,
                   clients_pending_ack |-> registered_clients,
                   active_readers |-> 0, active_writers |-> 0,
                   published |-> epoch[Slot(new_ver)].published,
                   cleanup_allowed |-> 0]
  <2>1. epoch[Slot(new_ver)] \in ResizeEpoch
    BY <1>0, Slot(new_ver) \in EpochSlots
  <2>2. epoch[Slot(new_ver)].published \in {0, 1}
    BY <2>1 DEF ResizeEpoch
  <2>a. /\ new_ver \in Nat
        /\ 2 * current_epoch.num_data_entries \in Nat
        /\ registered_clients \in 0 .. U64Max
    BY <1>0, <1>n
  <2>3. e \in ResizeEpoch
    BY <2>a, <2>2, Zenon DEF ResizeEpoch
  <2>4. epoch' = [epoch EXCEPT ![Slot(new_ver)] = e]
    BY <1>5 DEF CopyFillEpoch
  <2> HIDE DEF e
  <2>5. epoch' \in [EpochSlots -> ResizeEpoch]
    BY <1>0, <2>3, <2>4
  <2> QED BY <1>5, <1>0, <2>5 DEF CopyFillEpoch
<1>6. ASSUME CopyResetLanes PROVE RegistryType' /\ MonitorType'
  <2>1. \A l \in Lanes : LaneRestart(l) \in Nat
    BY <1>n DEF LaneRestart, Lanes
  <2>2. lane_next_free_index' \in [Lanes -> Nat]
    BY <1>6, <2>1 DEF CopyResetLanes
  <2> QED BY <1>6, <1>0, <2>2 DEF CopyResetLanes
<1>7. ASSUME CopyPublish PROVE RegistryType' /\ MonitorType'
  <2>1. epoch' \in [EpochSlots -> ResizeEpoch]
    BY <1>7, <1>0, EpochStore DEF CopyPublish
  <2> QED BY <1>7, <1>0, <2>1 DEF CopyPublish
<1>8. ASSUME CopySwitch PROVE RegistryType' /\ MonitorType'
  BY <1>8, <1>0 DEF CopySwitch
<1>9. ASSUME CopyBumpGeneration PROVE RegistryType' /\ MonitorType'
  BY <1>9, <1>0 DEF CopyBumpGeneration
<1>10. ASSUME CopySetReady PROVE RegistryType' /\ MonitorType'
  BY <1>10, <1>0 DEF CopySetReady
<1>11. ASSUME CopyHandover PROVE RegistryType' /\ MonitorType'
  BY <1>11, <1>0 DEF CopyHandover, RegionToDrain, BaseToUnmap
<1>12. ASSUME WaitAllAcked PROVE RegistryType' /\ MonitorType'
  BY <1>12, <1>0 DEF WaitAllAcked
<1>13. ASSUME WaitOnlyZombies PROVE RegistryType' /\ MonitorType'
  <2>1. epoch' \in [EpochSlots -> ResizeEpoch]
    BY <1>13, <1>0, EpochStore DEF WaitOnlyZombies
  <2> QED BY <1>13, <1>0, <2>1 DEF WaitOnlyZombies
<1>14. ASSUME WaitStartTimer PROVE RegistryType' /\ MonitorType'
  BY <1>14, <1>0 DEF WaitStartTimer
<1>15. ASSUME WaitForce PROVE RegistryType' /\ MonitorType'
  <2>1. epoch' \in [EpochSlots -> ResizeEpoch]
    BY <1>15, <1>0, EpochStore DEF WaitForce
  <2> QED BY <1>15, <1>0, <2>1 DEF WaitForce
<1>16. ASSUME drain_old PROVE RegistryType' /\ MonitorType'
  <2>1. epoch' \in [EpochSlots -> ResizeEpoch]
    BY <1>16, <1>0, EpochStore DEF drain_old
  <2> QED BY <1>16, <1>0, <2>1 DEF drain_old
<1>17. ASSUME maybe_gc PROVE RegistryType' /\ MonitorType'
  BY <1>17, <1>0 DEF maybe_gc, Reclaimed
<1>18. ASSUME GcSetNormal PROVE RegistryType' /\ MonitorType'
  BY <1>18, <1>0 DEF GcSetNormal
<1>19. ASSUME AckGracePasses PROVE RegistryType' /\ MonitorType'
  BY <1>19, <1>0 DEF AckGracePasses
<1>20. ASSUME GcGracePasses PROVE RegistryType' /\ MonitorType'
  BY <1>20, <1>0 DEF GcGracePasses
<1>21. ASSUME \E c \in ClientSlots : HeartbeatAges(c) PROVE RegistryType' /\ MonitorType'
  BY <1>21, <1>0 DEF HeartbeatAges
<1> QED
  BY <1>1, <1>2, <1>3, <1>4, <1>5, <1>6, <1>7, <1>8, <1>9, <1>10, <1>11, <1>12, <1>13, <1>14, <1>15, <1>16, <1>17, <1>18, <1>19, <1>20, <1>21, <1>c
  DEF MonitorNext, CopyStep, WaitStep, ReclaimStep, ClockStep, TypeOK

\* Making an inactive slot active adds one to the number of active slots, and
\* there are never more of them than slots.
LEMMA ActivateSlot ==
  ASSUME clients \in [ClientSlots -> {"free", "fresh", "stale"}],
         NEW i \in ClientSlots, clients[i] = "free"
  PROVE  LET Active(c) == {j \in ClientSlots : c[j] # "free"}
             new == [clients EXCEPT ![i] = "stale"]
         IN  /\ Cardinality(Active(new)) = Cardinality(Active(clients)) + 1
             /\ Cardinality(Active(new)) \in 0 .. kMaxClients
<1> DEFINE old == {j \in ClientSlots : clients[j] # "free"}
           now == {j \in ClientSlots : [clients EXCEPT ![i] = "stale"][j] # "free"}
<1>1. IsFiniteSet(ClientSlots) /\ Cardinality(ClientSlots) = kMaxClients
  <2>1. 1 \in Int /\ kMaxClients \in Int
    BY RegistryAssumption, SMTT(30)
  <2>2. /\ IsFiniteSet(1 .. kMaxClients)
        /\ Cardinality(1 .. kMaxClients) = IF 1 > kMaxClients THEN 0 ELSE kMaxClients - 1 + 1
    BY <2>1, FS_Interval
  <2>3. (IF 1 > kMaxClients THEN 0 ELSE kMaxClients - 1 + 1) = kMaxClients
    BY RegistryAssumption, SMTT(30)
  <2> QED BY <2>2, <2>3 DEF ClientSlots
<1>2. now = old \union {i} /\ i \notin old
  OBVIOUS
<1>3. IsFiniteSet(old) /\ IsFiniteSet(now) /\ Cardinality(now) <= Cardinality(ClientSlots)
  BY <1>1, FS_Subset, old \subseteq ClientSlots, now \subseteq ClientSlots
<1>4. Cardinality(now) = Cardinality(old) + 1
  BY <1>2, <1>3, FS_AddElement
<1>5. Cardinality(old) \in Nat /\ Cardinality(now) \in Nat
  BY <1>3, FS_CardinalityType
<1> QED BY <1>1, <1>3, <1>4, <1>5, RegistryAssumption

\* A heartbeat of a thread that holds an active slot, and the aging of a
\* heartbeat, leave the set of active slots alone.
LEMMA SameActiveSlots ==
  ASSUME clients \in [ClientSlots -> {"free", "fresh", "stale"}],
         NEW i \in ClientSlots, clients[i] # "free", NEW s \in {"fresh", "stale"}
  PROVE  /\ [clients EXCEPT ![i] = s] \in [ClientSlots -> {"free", "fresh", "stale"}]
         /\ \A j \in ClientSlots : [clients EXCEPT ![i] = s][j] = "free" <=> clients[j] = "free"
OBVIOUS

\* What RegisteredCount and SlotHeld say depends only on which slots are
\* active, on the count and on the threads' slots.
LEMMA SlotsUnchanged ==
  ASSUME ClientType, RegisteredCount, SlotHeld,
         \A j \in ClientSlots : clients'[j] = "free" <=> clients[j] = "free",
         registered_clients' = registered_clients,
         \A t \in Threads : client_slot'[t] \in {0, client_slot[t]}
  PROVE  RegisteredCount' /\ SlotHeld'
<1>1. {j \in ClientSlots : clients'[j] # "free"} = {j \in ClientSlots : clients[j] # "free"}
  OBVIOUS
<1>2. RegisteredCount'
  BY <1>1 DEF RegisteredCount
<1>3. ASSUME NEW t \in Threads, client_slot'[t] # 0 PROVE clients'[client_slot'[t]] # "free"
  <2>1. client_slot'[t] = client_slot[t] /\ client_slot[t] \in ClientSlots
    BY <1>3, RegistryAssumption DEF ClientType, ClientSlots
  <2> QED BY <1>3, <2>1 DEF SlotHeld
<1> QED BY <1>2, <1>3 DEF SlotHeld

\* The clients' steps keep the type, the count and the slots.
LEMMA ClientStepType ==
  TypeOK /\ RegisteredCount /\ SlotHeld /\ ClientNext /\ UNCHANGED monVars
  => TypeOK' /\ RegisteredCount' /\ SlotHeld'
<1> SUFFICES ASSUME TypeOK, RegisteredCount, SlotHeld, ClientNext, UNCHANGED monVars
             PROVE  TypeOK' /\ RegisteredCount' /\ SlotHeld'
  OBVIOUS
<1> DEFINE Good == RegistryType' /\ ClientType' /\ RegisteredCount' /\ SlotHeld'
<1> USE DEF ClientPoints, ConnectPoints, Goto, viewVars, laneVars, regVars
<1>0. RegistryType /\ MonitorType /\ ClientType
  BY DEF TypeOK
<1>s. \A m \in Mains : m \in Threads
  BY DEF Threads
<1>o. \A t \in OpThreads : t \in Threads
  BY ThreadAssumption
<1>u. ASSUME RegistryType', ClientType', UNCHANGED <<clients, registered_clients, client_slot>>
      PROVE  Good
  BY <1>0, <1>u, SlotsUnchanged
<1>1. ASSUME NEW m \in Mains, ConnectRead(m) PROVE Good
  BY <1>1, <1>0, <1>s, <1>u DEF ConnectRead, RegistryType, ClientType
<1>2. ASSUME NEW m \in Mains, ConnectOpen(m) PROVE Good
  BY <1>2, <1>0, <1>s, <1>u DEF ConnectOpen, RegistryType, ClientType
<1>3. ASSUME NEW m \in Mains, ConnectOpenFails(m) PROVE Good
  BY <1>3, <1>0, <1>s, <1>u DEF ConnectOpenFails, RegistryType, ClientType
<1>4. ASSUME NEW m \in Mains, ConnectGeneration(m) PROVE Good
  BY <1>4, <1>0, <1>s, <1>u DEF ConnectGeneration, RegistryType, ClientType
<1>5. ASSUME NEW t \in OpThreads, CheckUnchanged(t) PROVE Good
  BY <1>5, <1>0, <1>o, <1>u DEF CheckUnchanged, RegistryType, ClientType
<1>6. ASSUME NEW t \in OpThreads, CheckGeneration(t) PROVE Good
  BY <1>6, <1>0, <1>o, <1>u DEF CheckGeneration, RegistryType, ClientType
<1>7. ASSUME NEW t \in OpThreads, CheckOtherVersion(t) PROVE Good
  BY <1>7, <1>0, <1>o, <1>u DEF CheckOtherVersion, RegistryType, ClientType
<1>8. ASSUME NEW t \in OpThreads, RemapUnmap(t) PROVE Good
  <2>1. RegistryType'
    BY <1>8, <1>0 DEF RemapUnmap, RegistryType
  <2>2. wrappers' \in [Threads -> Nat] /\ mapped' \in [Threads -> Nat]
    BY <1>8, <1>0 DEF RemapUnmap, DeleteWrappers, ClientType
  <2>3. cpc' \in [Threads -> ClientPoints] /\ cur_ver' \in [Threads -> Nat]
    BY <1>8, <1>0 DEF RemapUnmap, RegistryType, ClientType
  <2>4. UNCHANGED <<local_version, region_base, client_slot, globals, laneVars,
                    local_generation, cur_gen, clients, registered_clients>>
    BY <1>8 DEF RemapUnmap
  <2>5. ClientType'
    BY <2>2, <2>3, <2>4, <1>0 DEF ClientType
  <2> QED BY <2>1, <2>4, <2>5, <1>u
<1>9. ASSUME NEW t \in OpThreads, RemapOpen(t) PROVE Good
  BY <1>9, <1>0, <1>o, <1>u DEF RemapOpen, RegistryType, ClientType
<1>10. ASSUME NEW t \in OpThreads, RemapOpenFails(t) PROVE Good
  BY <1>10, <1>0, <1>o, <1>u DEF RemapOpenFails, RegistryType, ClientType
<1>11. ASSUME NEW t \in OpThreads, RemapGeneration(t) PROVE Good
  BY <1>11, <1>0, <1>o, <1>u DEF RemapGeneration, RegistryType, ClientType
<1>12. ASSUME NEW t \in OpThreads, OpReturn(t) PROVE Good
  BY <1>12, <1>0, <1>o, <1>u DEF OpReturn, RegistryType, ClientType
<1>13. ASSUME NEW t \in OpThreads, AllocEpoch(t) PROVE Good
  BY <1>13, <1>0, <1>o, <1>u DEF AllocEpoch, RegistryType, ClientType
<1>14. ASSUME NEW t \in OpThreads, PutWrite(t) PROVE Good
  BY <1>14, <1>0, <1>o, <1>u DEF PutWrite, RegistryType, ClientType
<1>15. ASSUME NEW w \in Workers, WorkerStart(w) PROVE Good
  BY <1>15, <1>0, <1>u DEF WorkerStart, RegistryType, ClientType, Threads
<1>16. ASSUME NEW t \in OpThreads, NEW l \in Lanes, AllocIndex(t, l) PROVE Good
  <2>1. lane_next_free_index' \in [Lanes -> Nat]
    BY <1>16, <1>0, RegistryAssumption DEF AllocIndex, RegistryType
  <2>2. RegistryType'
    BY <1>16, <1>0, <2>1 DEF AllocIndex, RegistryType
  <2>3. lane_next_free_index[l] \in Nat
    BY <1>0 DEF RegistryType
  <2>4. ClientType'
    <3> DEFINE idx == lane_next_free_index[l]
    <3>1. /\ UNCHANGED <<viewVars, local_generation, cur_gen>>
          /\ cur_ver' \in [Threads -> Nat]
      BY <1>16, <1>0, <1>o DEF AllocIndex, ClientType
    <3>2. CASE IndexUsable(idx, cur_ver[t])
      <4>1. /\ put_index' = [put_index EXCEPT ![t] = idx]
            /\ handed' = handed \union {idx}
            /\ allocations' = allocations + 1
            /\ cpc' = [cpc EXCEPT ![t] = "write"]
        BY <1>16, <3>2 DEF AllocIndex
      <4>2. cpc' \in [Threads -> ClientPoints] /\ put_index' \in [Threads -> Int]
        BY <1>0, <1>o, <2>3, <4>1 DEF ClientType, ClientPoints
      <4>3. handed' \subseteq Nat /\ allocations' \in Nat
        <5>1. handed \subseteq Nat /\ allocations \in Nat
          BY <1>0 DEF ClientType
        <5>2. handed' \subseteq Nat
          BY <2>3, <4>1, <5>1, Zenon
        <5>3. allocations' \in Nat
          BY <4>1, <5>1
        <5> QED BY <5>2, <5>3
      <4> QED BY <1>0, <3>1, <4>2, <4>3 DEF ClientType, viewVars
    <3>3. CASE ~IndexUsable(idx, cur_ver[t])
      <4>1. UNCHANGED laneVars /\ cpc' = [cpc EXCEPT ![t] = "idle"]
        BY <1>16, <3>3 DEF AllocIndex
      <4> QED BY <1>0, <1>o, <3>1, <4>1 DEF ClientType
    <3> QED BY <3>2, <3>3
  <2> QED BY <1>16, <2>2, <2>4, <1>u DEF AllocIndex
<1>17. ASSUME NEW m \in Mains, Crash(m) PROVE Good
  <2>r. RegistryType'
    BY <1>17, <1>0 DEF Crash, RegistryType
  <2>a. /\ cpc' \in [Threads -> ClientPoints]
        /\ local_version' \in [Threads -> Nat]
        /\ local_generation' \in [Threads -> Nat]
        /\ region_base' \in [Threads -> Nat]
    BY <1>17, <1>0 DEF Crash, ClientType
  <2>b. /\ wrappers' \in [Threads -> Nat]
        /\ mapped' \in [Threads -> Nat]
    BY <1>17, <1>0 DEF Crash, ClientType
  <2>k. client_slot' \in [Threads -> 0 .. kMaxClients]
    <3>1. client_slot' = [t \in Threads |-> IF ProcOf[t] = m THEN 0 ELSE client_slot[t]]
      BY <1>17 DEF Crash
    <3>2. client_slot \in [Threads -> 0 .. kMaxClients] /\ 0 \in 0 .. kMaxClients
      BY <1>0, RegistryAssumption DEF ClientType
    <3> QED BY <3>1, <3>2
  <2>c. /\ cur_ver' \in [Threads -> Nat]
        /\ cur_gen' \in [Threads -> Nat]
    BY <1>17, <1>0 DEF Crash, ClientType
  <2>i. put_index' \in [Threads -> Int]
    <3>1. put_index' = [t \in Threads |-> IF ProcOf[t] = m THEN -1 ELSE put_index[t]]
      BY <1>17 DEF Crash
    <3>2. put_index \in [Threads -> Int] /\ -1 \in Int
      BY <1>0 DEF ClientType
    <3> QED BY <3>1, <3>2
  <2>d. globals' \in [Mains -> Nat] /\ handed' \subseteq Nat /\ allocations' \in Nat
    BY <1>17, <1>0 DEF Crash, ClientType
  <2>1. RegistryType' /\ ClientType'
    BY <2>r, <2>a, <2>b, <2>k, <2>c, <2>i, <2>d DEF ClientType
  <2>2. \A t \in Threads : client_slot'[t] \in {0, client_slot[t]}
    BY <1>17 DEF Crash
  <2> QED BY <1>17, <1>0, <2>1, <2>2, SlotsUnchanged DEF Crash
<1>18. ASSUME NEW t \in Threads, client_heartbeat(t), UNCHANGED <<registered_clients, client_slot>>
      PROVE  /\ clients' \in [ClientSlots -> {"free", "fresh", "stale"}]
             /\ RegisteredCount' /\ SlotHeld'
  <2>1. CASE client_slot[t] = 0
    BY <1>18, <2>1, <1>0, SlotsUnchanged DEF client_heartbeat, RegistryType
  <2>2. CASE client_slot[t] # 0
    <3>1. client_slot[t] \in ClientSlots /\ clients[client_slot[t]] # "free"
      BY <2>2, <1>0, RegistryAssumption DEF ClientType, ClientSlots, SlotHeld
    <3>2. clients' = [clients EXCEPT ![client_slot[t]] = "fresh"]
      BY <1>18, <2>2 DEF client_heartbeat
    <3>3. clients \in [ClientSlots -> {"free", "fresh", "stale"}]
      BY <1>0 DEF RegistryType
    <3>4. /\ clients' \in [ClientSlots -> {"free", "fresh", "stale"}]
          /\ \A j \in ClientSlots : clients'[j] = "free" <=> clients[j] = "free"
      BY <3>1, <3>2, <3>3, SameActiveSlots
    <3> QED BY <1>18, <1>0, <3>4, SlotsUnchanged
  <2> QED BY <2>1, <2>2
<1>19. ASSUME NEW t \in Threads, NEW v \in Nat, Acknowledge(t, v), client_slot' = client_slot
      PROVE  RegistryType' /\ RegisteredCount' /\ SlotHeld'
  <2>1. Slot(v) \in EpochSlots
    BY SlotInRange
  <2>2. epoch[Slot(v)] \in ResizeEpoch
    BY <1>0, <2>1 DEF RegistryType
  <2>3. FetchSub1(epoch[Slot(v)].clients_pending_ack) \in 0 .. U64Max
    BY <2>2, CounterTypes DEF ResizeEpoch
  <2>4. epoch' \in [EpochSlots -> ResizeEpoch]
    BY <1>19, <1>0, <2>1, <2>3, EpochStore DEF Acknowledge, RegistryType
  <2>5. /\ clients' \in [ClientSlots -> {"free", "fresh", "stale"}]
        /\ RegisteredCount' /\ SlotHeld'
    BY <1>19, <1>18 DEF Acknowledge
  <2> QED BY <1>19, <1>0, <2>4, <2>5 DEF Acknowledge, RegistryType
<1>20. ASSUME NEW m \in Mains, ConnectAck(m) PROVE Good
  <2>1. m \in Threads /\ cur_ver[m] \in Nat
    BY <1>0, <1>s DEF ClientType
  <2>2. RegistryType' /\ RegisteredCount' /\ SlotHeld'
    BY <1>20, <2>1, <1>19 DEF ConnectAck
  <2>3. ClientType'
    BY <1>20, <1>0, <2>1 DEF ConnectAck, ClientType
  <2> QED BY <2>2, <2>3
<1>21. ASSUME NEW t \in OpThreads, RemapAck(t) PROVE Good
  <2>1. t \in Threads /\ cur_ver[t] \in Nat
    BY <1>0, <1>o DEF ClientType
  <2>2. RegistryType' /\ RegisteredCount' /\ SlotHeld'
    BY <1>21, <2>1, <1>19 DEF RemapAck
  <2>3. ClientType'
    BY <1>21, <1>0, <2>1 DEF RemapAck, ClientType
  <2> QED BY <2>2, <2>3
<1>22. ASSUME NEW t \in OpThreads, CheckSameVersion(t) PROVE Good
  <2>1. /\ clients' \in [ClientSlots -> {"free", "fresh", "stale"}]
        /\ RegisteredCount' /\ SlotHeld'
    BY <1>22, <1>o, <1>18 DEF CheckSameVersion
  <2>2. RegistryType'
    BY <1>22, <1>0, <2>1 DEF CheckSameVersion, RegistryType
  <2>3. ClientType'
    BY <1>22, <1>0, <1>o DEF CheckSameVersion, ClientType
  <2> QED BY <2>1, <2>2, <2>3
<1>23. ASSUME NEW m \in Mains, ConnectRegister(m) PROVE Good
  <2>1. ASSUME NEW c \in ClientSlots, clients[c] = "free",
               clients' = [clients EXCEPT ![c] = "stale"],
               client_slot' = [client_slot EXCEPT ![m] = c],
               registered_clients' = registered_clients + 1
        PROVE  Good
    <3>1. clients \in [ClientSlots -> {"free", "fresh", "stale"}]
      BY <1>0 DEF RegistryType
    <3>2. RegisteredCount' /\ registered_clients' \in 0 .. kMaxClients
      BY <2>1, <3>1, ActivateSlot DEF RegisteredCount
    <3>3. c \in 0 .. kMaxClients /\ c # 0
      BY RegistryAssumption DEF ClientSlots
    <3>4. RegistryType'
      BY <1>23, <1>0, <2>1, <3>1, <3>2 DEF ConnectRegister, RegistryType
    <3>5. ClientType'
      BY <1>23, <1>0, <1>s, <2>1, <3>3 DEF ConnectRegister, ClientType
    <3>6. ASSUME NEW t \in Threads, client_slot'[t] # 0
          PROVE  clients'[client_slot'[t]] # "free"
      <4>1. client_slot[t] \in 0 .. kMaxClients
        BY <1>0 DEF ClientType
      <4>2. CASE t = m
        BY <4>2, <2>1, <3>1, <1>0 DEF ClientType
      <4>3. CASE t # m
        <5>1. client_slot'[t] = client_slot[t]
          BY <4>3, <2>1, <1>0 DEF ClientType
        <5>2. clients[client_slot[t]] # "free" /\ client_slot[t] \in ClientSlots
          BY <5>1, <3>6, <4>1, RegistryAssumption DEF SlotHeld, ClientSlots
        <5> QED BY <5>1, <5>2, <2>1, <3>1
      <4> QED BY <4>2, <4>3
    <3> QED BY <3>2, <3>4, <3>5, <3>6 DEF SlotHeld
  <2>2. ASSUME UNCHANGED <<clients, client_slot, registered_clients>> PROVE Good
    BY <1>23, <1>0, <1>s, <2>2, <1>u DEF ConnectRegister, RegistryType, ClientType
  <2> QED BY <1>23, <2>1, <2>2 DEF ConnectRegister
<1>24. Good
  BY <1>1, <1>2, <1>3, <1>4, <1>5, <1>6, <1>7, <1>8, <1>9, <1>10, <1>11, <1>12, <1>13, <1>14, <1>15, <1>16, <1>17, <1>20, <1>21, <1>22, <1>23
  DEF ClientNext, Connect, maybe_check_version, remap_to_current_epoch, Operate
<1> QED BY <1>24, <1>0 DEF TypeOK, MonitorType, monVars, srvVars

(***************************************************************************)
(* The phases of a resize.                                                 *)
(***************************************************************************)

\* A step that moves no version, name, mapping or control point and leaves the
\* identity and the flags of every epoch alone keeps the phase.
LEMMA PhaseStable ==
  ASSUME TypeOK, CurrentUsable, PhaseInv,
         UNCHANGED <<resize_state, current_version, previous_version, shm, mpc,
                     new_ver, pending_old_ver, srv_region, pending_old_base, srv_maps>>,
         \A s \in EpochSlots : /\ epoch'[s].version = epoch[s].version
                               /\ epoch'[s].published = epoch[s].published
                               /\ epoch'[s].cleanup_allowed = epoch[s].cleanup_allowed
  PROVE  CurrentUsable' /\ PhaseInv'
<1>1. /\ Slot(current_version) \in EpochSlots
      /\ Slot(previous_version) \in EpochSlots
      /\ Slot(new_ver) \in EpochSlots
  BY CounterTypes DEF TypeOK, RegistryType, MonitorType
<1>2. CurrentUsable'
  BY <1>1 DEF CurrentUsable, current_epoch
<1>3. Single' <=> Single
  BY DEF Single
<1>4. Double' <=> Double
  BY <1>1 DEF Double
<1>5. PhaseInv'
  BY <1>1, <1>3, <1>4 DEF PhaseInv, Building
<1> QED BY <1>2, <1>5

\* A client moves no version, resize state or name.
LEMMA ClientKeepsVersions ==
  ClientNext => UNCHANGED <<resize_state, current_version, previous_version, shm>>
BY DEF ClientNext, Connect, ConnectRead, ConnectRegister, ConnectOpen,
       ConnectOpenFails, ConnectGeneration, ConnectAck, Crash, WorkerStart,
       maybe_check_version, CheckUnchanged, CheckGeneration, CheckSameVersion,
       CheckOtherVersion, remap_to_current_epoch, RemapUnmap, RemapOpen,
       RemapOpenFails, RemapGeneration, RemapAck, Operate, OpReturn, AllocEpoch,
       AllocIndex, PutWrite, Acknowledge, regVars

\* No step of a client changes the phase.
LEMMA ClientPhase ==
  TypeOK /\ CurrentUsable /\ PhaseInv /\ ClientNext /\ UNCHANGED monVars
  => CurrentUsable' /\ PhaseInv'
<1> SUFFICES ASSUME TypeOK, CurrentUsable, PhaseInv, ClientNext, UNCHANGED monVars
             PROVE  CurrentUsable' /\ PhaseInv'
  OBVIOUS
<1>1. UNCHANGED <<resize_state, current_version, previous_version, shm>>
  BY ClientKeepsVersions
<1>2. \/ epoch' = epoch
      \/ \E t \in Threads :
           epoch' = [epoch EXCEPT ![Slot(cur_ver[t])].clients_pending_ack = FetchSub1(@)]
  BY ThreadAssumption
     DEF ClientNext, Connect, ConnectRead, ConnectRegister, ConnectOpen,
         ConnectOpenFails, ConnectGeneration, ConnectAck, Crash, WorkerStart,
         maybe_check_version, CheckUnchanged, CheckGeneration, CheckSameVersion,
         CheckOtherVersion, remap_to_current_epoch, RemapUnmap, RemapOpen,
         RemapOpenFails, RemapGeneration, RemapAck, Operate, OpReturn, AllocEpoch,
         AllocIndex, PutWrite, Acknowledge, regVars, Threads
<1>3. epoch \in [EpochSlots -> ResizeEpoch]
  BY DEF TypeOK, RegistryType
<1>4. \A s \in EpochSlots : /\ epoch'[s].version = epoch[s].version
                            /\ epoch'[s].published = epoch[s].published
                            /\ epoch'[s].cleanup_allowed = epoch[s].cleanup_allowed
  <2>1. CASE epoch' = epoch
    BY <2>1
  <2>2. ASSUME NEW t \in Threads,
               epoch' = [epoch EXCEPT ![Slot(cur_ver[t])].clients_pending_ack = FetchSub1(@)]
        PROVE  \A s \in EpochSlots :
                 /\ epoch'[s].version = epoch[s].version
                 /\ epoch'[s].published = epoch[s].published
                 /\ epoch'[s].cleanup_allowed = epoch[s].cleanup_allowed
    <3> DEFINE k == Slot(cur_ver[t])
    <3>1. epoch' = [epoch EXCEPT ![k] = [epoch[k] EXCEPT !.clients_pending_ack =
                                           FetchSub1(epoch[k].clients_pending_ack)]]
      BY <2>2
    <3> HIDE DEF k
    <3> TAKE s \in EpochSlots
    <3>2. epoch[s] \in ResizeEpoch
      BY <1>3
    <3> QED BY <1>3, <3>1, <3>2 DEF ResizeEpoch
  <2> QED BY <1>2, <2>1, <2>2
<1> QED BY <1>1, <1>4, PhaseStable DEF monVars, srvVars

\* The monitor takes the phases in order.
LEMMA MonitorPhase ==
  TypeOK /\ CurrentUsable /\ PhaseInv /\ MonitorNext /\ UNCHANGED cliVars
  => CurrentUsable' /\ PhaseInv'
<1> SUFFICES ASSUME TypeOK, CurrentUsable, PhaseInv, MonitorNext
             PROVE  CurrentUsable' /\ PhaseInv'
  OBVIOUS
<1> DEFINE Good == CurrentUsable' /\ PhaseInv'
<1>0. /\ epoch \in [EpochSlots -> ResizeEpoch]
      /\ current_version \in Nat /\ previous_version \in Nat
      /\ new_ver \in Nat /\ pending_old_ver \in Nat
      /\ mpc \in MonitorPoints
  BY DEF TypeOK, RegistryType, MonitorType
<1>s. /\ Slot(current_version) \in EpochSlots
      /\ Slot(previous_version) \in EpochSlots
      /\ Slot(new_ver) \in EpochSlots
      /\ Slot(NextVersion(current_version)) # Slot(current_version)
      /\ NextVersion(current_version) \in Nat
      /\ NextVersion(current_version) > current_version
      /\ Slot(NextVersion(previous_version)) # Slot(previous_version)
      /\ NextVersion(previous_version) > previous_version
  BY <1>0, SlotInRange, NextVersionSlot
<1> USE DEF set_state, monVars, srvVars, regVars, CurrentUsable, current_epoch, Single,
        Double, Building, PhaseInv
<1>1. ASSUME maybe_trigger_pre_resize PROVE Good
  BY <1>1, <1>0, <1>s DEF maybe_trigger_pre_resize
<1>2. ASSUME maybe_start_copying PROVE Good
  BY <1>2, <1>0, <1>s DEF maybe_start_copying
<1>3. ASSUME CopyCreateFails PROVE Good
  BY <1>3, <1>0, <1>s DEF CopyCreateFails
<1>4. ASSUME CopyCreate PROVE Good
  BY <1>4, <1>0, <1>s DEF CopyCreate
<1>5. ASSUME CopyFillEpoch PROVE Good
  BY <1>5, <1>0, <1>s DEF CopyFillEpoch
<1>6. ASSUME CopyResetLanes PROVE Good
  BY <1>6, <1>0, <1>s DEF CopyResetLanes
<1>7. ASSUME CopyPublish PROVE Good
  BY <1>7, <1>0, <1>s DEF CopyPublish
<1>8. ASSUME CopySwitch PROVE Good
  <2>1. /\ mpc = "switch" /\ mpc' = "bump"
        /\ previous_version' = current_version /\ current_version' = new_ver
        /\ UNCHANGED <<resize_state, epoch, shm, new_ver, pending_old_ver,
                       srv_region, pending_old_base, srv_maps>>
    BY <1>8 DEF CopySwitch
  <2>2. /\ new_ver = NextVersion(current_version)
        /\ shm = {current_version, new_ver} /\ srv_maps = {current_version, new_ver}
        /\ srv_region = current_version /\ pending_old_ver = 0 /\ pending_old_base = 0
        /\ epoch[Slot(new_ver)].version = new_ver
        /\ epoch[Slot(new_ver)].published = 1
        /\ resize_state = "COPYING" /\ current_version > 0
    BY <2>1
  <2>3. CurrentUsable'
    BY <2>1, <2>2
  <2>c. epoch[Slot(current_version)].version = current_version
    OBVIOUS
  <2> HIDE DEF PhaseInv, CurrentUsable, Single
  <2>n. NextVersion(current_version) > current_version /\ NextVersion(current_version) \in Nat
    BY <1>s, Zenon
  <2>p. new_ver > 0
    BY <2>2, <2>n, <1>0
  <2>4. Double'
    BY <2>1, <2>2, <2>c DEF Double
  <2> HIDE DEF Double
  <2>5. PhaseInv'
    BY <2>1, <2>2, <2>4, <2>p DEF PhaseInv
  <2> QED BY <2>3, <2>5
<1>9. ASSUME CopyBumpGeneration PROVE Good
  BY <1>9, <1>0, <1>s DEF CopyBumpGeneration
<1>10. ASSUME CopySetReady PROVE Good
  BY <1>10, <1>0, <1>s DEF CopySetReady
<1>11. ASSUME CopyHandover PROVE Good
  BY <1>11, <1>0, <1>s DEF CopyHandover, RegionToDrain, BaseToUnmap
<1>12. ASSUME WaitAllAcked PROVE Good
  BY <1>12, <1>0, <1>s DEF WaitAllAcked, Waiting
<1>13. ASSUME WaitOnlyZombies PROVE Good
  BY <1>13, <1>0, <1>s DEF WaitOnlyZombies, Waiting
<1>14. ASSUME WaitStartTimer PROVE Good
  BY <1>14, <1>0, <1>s DEF WaitStartTimer, Waiting
<1>15. ASSUME WaitForce PROVE Good
  BY <1>15, <1>0, <1>s DEF WaitForce, Waiting
<1>16. ASSUME drain_old PROVE Good
  BY <1>16, <1>0, <1>s DEF drain_old
<1>17. ASSUME maybe_gc PROVE Good
  BY <1>17, <1>0, <1>s DEF maybe_gc, Reclaimed
<1>18. ASSUME GcSetNormal PROVE Good
  BY <1>18, <1>0, <1>s DEF GcSetNormal
<1>19. ASSUME AckGracePasses PROVE Good
  BY <1>19, <1>0, <1>s DEF AckGracePasses
<1>20. ASSUME GcGracePasses PROVE Good
  BY <1>20, <1>0, <1>s DEF GcGracePasses
<1>21. ASSUME NEW c \in ClientSlots, HeartbeatAges(c) PROVE Good
  BY <1>21, PhaseStable DEF HeartbeatAges
<1> QED
  BY <1>1, <1>2, <1>3, <1>4, <1>5, <1>6, <1>7, <1>8, <1>9, <1>10, <1>11, <1>12, <1>13, <1>14, <1>15, <1>16, <1>17, <1>18, <1>19, <1>20, <1>21
  DEF MonitorNext, CopyStep, WaitStep, ReclaimStep, ClockStep

(***************************************************************************)
(* The inductive invariant.                                                *)
(***************************************************************************)

\* The monitor registers nobody: HeartbeatAges moves a slot between two
\* active states and no other step touches the table.
LEMMA MonitorSlots ==
  TypeOK /\ RegisteredCount /\ SlotHeld /\ MonitorNext /\ UNCHANGED cliVars
  => RegisteredCount' /\ SlotHeld'
<1> SUFFICES ASSUME TypeOK, RegisteredCount, SlotHeld, MonitorNext, UNCHANGED cliVars
             PROVE  RegisteredCount' /\ SlotHeld'
  OBVIOUS
<1>1. client_slot' = client_slot
  BY DEF cliVars
<1>2. ASSUME NEW i \in ClientSlots, HeartbeatAges(i)
      PROVE  RegisteredCount' /\ SlotHeld'
  <2>1. clients \in [ClientSlots -> {"free", "fresh", "stale"}]
    BY DEF TypeOK, RegistryType
  <2>2. \A j \in ClientSlots : clients'[j] = "free" <=> clients[j] = "free"
    BY <1>2, <2>1 DEF HeartbeatAges
  <2>3. registered_clients' = registered_clients
    BY <1>2 DEF HeartbeatAges
  <2>4. ClientType /\ \A t \in Threads : client_slot'[t] \in {0, client_slot[t]}
    BY <1>1 DEF TypeOK
  <2> QED BY <2>2, <2>3, <2>4, SlotsUnchanged
<1>3. CASE UNCHANGED <<clients, registered_clients>>
  <2>1. \A j \in ClientSlots : clients'[j] = "free" <=> clients[j] = "free"
    BY <1>3
  <2>2. ClientType /\ \A t \in Threads : client_slot'[t] \in {0, client_slot[t]}
    BY <1>1 DEF TypeOK
  <2> QED BY <1>3, <2>1, <2>2, SlotsUnchanged
<1> QED
  BY <1>2, <1>3
  DEF MonitorNext, CopyStep, WaitStep, ReclaimStep, ClockStep,
      maybe_trigger_pre_resize, maybe_start_copying, CopyCreateFails, CopyCreate,
      CopyFillEpoch, CopyResetLanes, CopyPublish, CopySwitch, CopyBumpGeneration,
      CopySetReady, CopyHandover, WaitAllAcked, WaitOnlyZombies, WaitStartTimer,
      WaitForce, drain_old, maybe_gc, GcSetNormal, AckGracePasses, GcGracePasses,
      regVars

\* The server leaves the registry ready: one region, nobody registered.
LEMMA InitIInv == Init => IInv
<1> SUFFICES ASSUME Init PROVE IInv
  OBVIOUS
<1>1. TypeOK
  BY InitType
<1>2. Slot(1) = 1 /\ 1 \in EpochSlots
  BY RegistryAssumption, RemainderUnique DEF Slot, EpochSlots
<1>3. epoch[1].version = 1 /\ epoch[1].published = 1
  BY <1>2 DEF Init, RegistryInit, EmptyEpoch
<1>4. CurrentUsable
  BY <1>2, <1>3 DEF Init, RegistryInit, CurrentUsable, current_epoch
<1>5. PhaseInv
  BY DEF Init, RegistryInit, MonitorInit, PhaseInv, Single, Building
<1>6. RegisteredCount
  <2>1. {i \in ClientSlots : clients[i] # "free"} = {}
    BY DEF Init, RegistryInit
  <2> QED BY <2>1, FS_EmptySet DEF RegisteredCount, Init, RegistryInit
<1>7. SlotHeld
  BY DEF SlotHeld, Init, ClientInit
<1> QED BY <1>1, <1>4, <1>5, <1>6, <1>7 DEF IInv

\* Every step keeps it.
LEMMA NextIInv == IInv /\ [Next]_vars => IInv'
<1> SUFFICES ASSUME IInv, [Next]_vars PROVE IInv'
  OBVIOUS
<1>1. CASE MonitorNext /\ UNCHANGED cliVars
  BY <1>1, MonitorStepType, MonitorSlots, MonitorPhase DEF IInv
<1>2. CASE ClientNext /\ UNCHANGED monVars
  BY <1>2, ClientStepType, ClientPhase DEF IInv
<1>3. CASE UNCHANGED vars
  <2>1. TypeOK'
    BY <1>3 DEF IInv, TypeOK, RegistryType, MonitorType, ClientType, vars,
                regVars, monVars, srvVars, cliVars
  <2>2. CurrentUsable' /\ PhaseInv'
    BY <1>3, PhaseStable DEF IInv, vars, regVars, monVars, srvVars
  <2>3. RegisteredCount' /\ SlotHeld'
    <3>1. /\ \A j \in ClientSlots : clients'[j] = "free" <=> clients[j] = "free"
          /\ registered_clients' = registered_clients
          /\ \A t \in Threads : client_slot'[t] \in {0, client_slot[t]}
      BY <1>3 DEF vars, regVars, cliVars
    <3> QED BY <3>1, SlotsUnchanged DEF IInv, TypeOK
  <2> QED BY <2>1, <2>2, <2>3 DEF IInv
<1> QED BY <1>1, <1>2, <1>3 DEF Next

\* The invariant that carries the theorems below: types, the client table and
\* its count, a usable current region, and the phase of the resize.
THEOREM Invariance == Spec => []IInv
BY InitIInv, NextIInv, PTL DEF Spec

\* Types hold in every state; the count of registered clients stays within
\* the table, so an epoch never starts with a count that has wrapped.
THEOREM TypeCorrect == Spec => []TypeOK
<1>1. IInv => TypeOK
  BY DEF IInv
<1> QED BY <1>1, Invariance, PTL

\* Whoever reads current_version finds a linked region and its own published
\* epoch, for any number of slots of at least three and any number of resizes.
THEOREM CurrentAlwaysUsable == Spec => []CurrentUsable
<1>1. IInv => CurrentUsable
  BY DEF IInv
<1> QED BY <1>1, Invariance, PTL

\* The copy reads the region that is current, and maybe_gc unmaps the region
\* whose name it unlinks and never the current one, although bases come from
\* srv_state and versions from the registry, at different points of a resize.
THEOREM BasesMatch == Spec => BasesMatchVersions
<1> DEFINE Agree == /\ mpc = "create" /\ mpc' = "fill" => srv_region = current_version
                    /\ srv_maps \ srv_maps' = shm \ shm'
                    /\ current_version' \in srv_maps'
<1>1. ASSUME IInv, IInv', [Next]_vars PROVE [Agree]_vars
  <2>1. current_version' \in srv_maps'
    BY <1>1 DEF IInv, TypeOK, RegistryType, MonitorType, MonitorPoints, ResizeState,
                PhaseInv, Single, Double, Building
  <2>2. mpc = "create" => srv_region = current_version
    BY <1>1 DEF IInv, PhaseInv, Single
  <2>3. CASE maybe_gc
    <3>1. /\ shm = {previous_version, current_version}
          /\ srv_maps = {previous_version, current_version}
          /\ pending_old_ver = previous_version /\ pending_old_base = previous_version
      BY <1>1, <2>3 DEF maybe_gc, IInv, PhaseInv, Double
    <3>2. srv_maps' = srv_maps \ {previous_version} /\ shm' = shm \ {previous_version}
      BY <2>3, <3>1 DEF maybe_gc, Reclaimed
    <3>3. srv_maps \ srv_maps' = shm \ shm'
      BY <3>1, <3>2
    <3> QED BY <2>1, <2>2, <3>3
  <2>4. CASE srv_maps \subseteq srv_maps' /\ shm \subseteq shm'
    <3>1. srv_maps \ srv_maps' = shm \ shm'
      BY <2>4
    <3> QED BY <2>1, <2>2, <3>1
  <2>5. MonitorNext => maybe_gc \/ (srv_maps \subseteq srv_maps' /\ shm \subseteq shm')
    BY DEF MonitorNext, CopyStep, WaitStep, ReclaimStep, ClockStep,
           maybe_trigger_pre_resize, maybe_start_copying, CopyCreateFails, CopyCreate,
           CopyFillEpoch, CopyResetLanes, CopyPublish, CopySwitch, CopyBumpGeneration,
           CopySetReady, CopyHandover, WaitAllAcked, WaitOnlyZombies, WaitStartTimer,
           WaitForce, drain_old, GcSetNormal, AckGracePasses, GcGracePasses,
           HeartbeatAges, regVars, monVars
  <2>6. ClientNext /\ UNCHANGED monVars => shm' = shm /\ srv_maps' = srv_maps
    BY ClientKeepsVersions DEF monVars
  <2> QED BY <1>1, <2>3, <2>4, <2>5, <2>6 DEF Next, vars, regVars, monVars
<1> QED BY <1>1, Invariance, PTL DEF Spec, BasesMatchVersions

\* Never more than two regions are linked, nor mapped by the server: the
\* budget of the memory pressure guard.
THEOREM AtMostTwoRegions == Spec => []OverlapBounded
<1>1. ASSUME IInv PROVE OverlapBounded
  <2>1. PICK a, b : shm \subseteq {a, b} /\ srv_maps \subseteq {a, b}
    BY <1>1 DEF IInv, TypeOK, RegistryType, MonitorType, MonitorPoints, ResizeState,
                PhaseInv, Single, Double, Building
  <2>2. IsFiniteSet({a, b}) /\ Cardinality({a, b}) \in Nat /\ Cardinality({a, b}) <= 2
    <3>1. IsFiniteSet({a}) /\ Cardinality({a}) = 1
      BY FS_Singleton
    <3>2. {a, b} = {a} \union {b}
      OBVIOUS
    <3> QED BY <3>1, <3>2, FS_AddElement
  <2>3. \A T : T \subseteq {a, b} => Cardinality(T) <= 2
    BY <2>2, FS_Subset, FS_CardinalityType
  <2> QED BY <2>1, <2>3 DEF OverlapBounded
<1> QED BY <1>1, Invariance, PTL

\* A region's name is removed only when it is not current and its own epoch
\* slot, not yet reused, allows it.
THEOREM OnlyDrainedUnlinked == Spec => UnlinkOnlyDrained
<1> DEFINE Allowed == \A v \in shm \ shm' :
                        /\ v < current_version
                        /\ epoch[Slot(v)].version = v
                        /\ epoch[Slot(v)].cleanup_allowed = 1
<1>1. ASSUME IInv, [Next]_vars PROVE [Allowed]_vars
  <2>1. CASE shm \subseteq shm'
    BY <2>1
  <2>2. CASE maybe_gc
    <3>1. Double /\ pending_old_ver = previous_version
          /\ epoch[Slot(previous_version)].cleanup_allowed = 1
      BY <1>1, <2>2 DEF maybe_gc, IInv, PhaseInv
    <3>2. shm \ shm' \subseteq {previous_version}
      BY <2>2, <3>1 DEF maybe_gc, Reclaimed
    <3>3. previous_version < current_version
      BY <1>1, <3>1, NextVersionSlot DEF Double, IInv, TypeOK, RegistryType
    <3> QED BY <3>1, <3>2, <3>3 DEF Double
  <2>3. MonitorNext => shm \subseteq shm' \/ maybe_gc
    BY DEF MonitorNext, CopyStep, WaitStep, ReclaimStep, ClockStep,
           maybe_trigger_pre_resize, maybe_start_copying, CopyCreateFails, CopyCreate,
           CopyFillEpoch, CopyResetLanes, CopyPublish, CopySwitch, CopyBumpGeneration,
           CopySetReady, CopyHandover, WaitAllAcked, WaitOnlyZombies, WaitStartTimer,
           WaitForce, drain_old, GcSetNormal, AckGracePasses, GcGracePasses,
           HeartbeatAges, regVars
  <2>4. ClientNext => shm' = shm
    BY ClientKeepsVersions DEF monVars
  <2> QED BY <1>1, <2>1, <2>2, <2>3, <2>4 DEF Next, vars, regVars
<1> QED BY <1>1, Invariance, PTL DEF Spec, UnlinkOnlyDrained

(***************************************************************************)
(* Refinement.                                                             *)
(***************************************************************************)

\* The only steps that a client of VersionedRegions sees are the creation of
\* the new region, the switch and the collection of the old one.
LEMMA QuietSteps ==
  [Next]_vars =>
    \/ UNCHANGED <<current_version, previous_version, shm>>
    \/ CopyCreateFails \/ CopyCreate \/ CopySwitch \/ maybe_gc
<1>1. MonitorNext =>
        \/ UNCHANGED <<current_version, previous_version, shm>>
        \/ CopyCreateFails \/ CopyCreate \/ CopySwitch \/ maybe_gc
  BY DEF MonitorNext, CopyStep, WaitStep, ReclaimStep, ClockStep,
         maybe_trigger_pre_resize, maybe_start_copying, CopyFillEpoch, CopyResetLanes,
         CopyPublish, CopyBumpGeneration, CopySetReady, CopyHandover, WaitAllAcked,
         WaitOnlyZombies, WaitStartTimer, WaitForce, drain_old, GcSetNormal,
         AckGracePasses, GcGracePasses, HeartbeatAges, regVars
<1> QED BY <1>1, ClientKeepsVersions DEF Next, vars, regVars

\* The protocol implements VersionedRegions: a region can be opened before it
\* becomes current, one predecessor at most is kept, and only it is retired.
THEOREM Refinement == Spec => ImplementsRegions
<1>1. Init => Regions!AbsInit
  BY DEF Init, RegistryInit, Regions!AbsInit
<1>2. ASSUME IInv, [Next]_vars PROVE [Regions!AbsNext]_(Regions!absVars)
  <2> USE DEF Regions!absVars, Regions!AbsNext
  <2>0. /\ current_version \in Nat /\ previous_version \in Nat
        /\ NextVersion(current_version) \in Nat
        /\ NextVersion(current_version) > current_version
        /\ current_version \in shm /\ PhaseInv
    BY <1>2, NextVersionSlot DEF IInv, TypeOK, RegistryType, CurrentUsable
  <2>1. CASE UNCHANGED <<current_version, previous_version, shm>>
    BY <2>1
  <2>2. CASE CopyCreateFails \/ CopyCreate
    <3>1. /\ previous_version = 0
          /\ shm \subseteq {current_version, new_ver}
          /\ new_ver = NextVersion(current_version)
          /\ shm' \in {shm, shm \union {new_ver}}
          /\ UNCHANGED <<current_version, previous_version>>
      BY <2>0, <2>2 DEF CopyCreateFails, CopyCreate, PhaseInv, Single
    <3>2. CASE new_ver \in shm
      BY <3>1, <3>2
    <3>3. CASE new_ver \notin shm
      <4>1. shm = {current_version}
        BY <2>0, <3>1, <3>3
      <4>2. CASE shm' = shm
        BY <3>1, <4>2
      <4>3. CASE shm' = {current_version, new_ver}
        BY <2>0, <3>1, <4>1, <4>3 DEF Regions!Prepare
      <4> QED BY <3>1, <4>1, <4>2, <4>3
    <3> QED BY <3>2, <3>3
  <2>3. CASE CopySwitch
    <3>1. previous_version = 0 /\ new_ver \in shm /\ new_ver > current_version
      BY <2>0, <2>3 DEF CopySwitch, PhaseInv, Building, Single
    <3> QED BY <2>3, <3>1 DEF CopySwitch, Regions!Switch
  <2>4. CASE maybe_gc
    <3>1. pending_old_ver = previous_version /\ previous_version # 0
      BY <2>0, <2>4 DEF maybe_gc, PhaseInv, Double
    <3> QED BY <2>4, <3>1 DEF maybe_gc, Reclaimed, Regions!Retire
  <2> QED BY <1>2, <2>1, <2>2, <2>3, <2>4, QuietSteps
<1> QED BY <1>1, <1>2, Invariance, PTL DEF Spec, ImplementsRegions, Regions!AbsSpec

(***************************************************************************)
(* What the threads see.                                                   *)
(***************************************************************************)

\* Every version a thread has read, mapped or stored is one the registry has
\* switched to, and wrappers, mapping and local_version agree.
ViewInv ==
    /\ \A t \in Threads :
         /\ cur_ver[t] <= current_version
         /\ wrappers[t] <= current_version
         /\ wrappers[t] # 0 =>
              wrappers[t] = mapped[t] /\ wrappers[t] = local_version[t]
    /\ \A m \in Mains : globals[m] <= current_version

\* A step that leaves the threads alone and does not turn the version back
\* keeps it.
LEMMA ViewStable ==
  ASSUME TypeOK, ViewInv, current_version' \in Nat, current_version' >= current_version,
         UNCHANGED <<cur_ver, wrappers, mapped, local_version, globals>>
  PROVE  ViewInv'
BY DEF TypeOK, RegistryType, ClientType, ViewInv

\* The version of the registry only grows.
LEMMA VersionGrows ==
  ASSUME IInv, [Next]_vars
  PROVE  current_version' \in Nat /\ current_version' >= current_version
<1>1. current_version \in Nat /\ PhaseInv
  BY DEF IInv, TypeOK, RegistryType
<1>2. CASE UNCHANGED <<current_version, previous_version, shm>>
  BY <1>1, <1>2
<1>3. CASE CopySwitch
  BY <1>1, <1>3, NextVersionSlot DEF CopySwitch, PhaseInv, Building
<1>4. CASE CopyCreateFails \/ CopyCreate \/ maybe_gc
  <2>1. current_version' = current_version
    BY <1>4 DEF CopyCreateFails, CopyCreate, maybe_gc
  <2> QED BY <1>1, <2>1
<1> QED BY <1>2, <1>3, <1>4, QuietSteps

\* The end of a client process: its threads lose their view, the others keep it.
LEMMA CrashLoses ==
  ASSUME NEW m \in Mains, Crash(m), NEW t \in Threads
  PROVE  \/ cpc'[t] = "dead" /\ cur_ver'[t] = 0 /\ wrappers'[t] = 0
         \/ /\ cpc'[t] = cpc[t] /\ cur_ver'[t] = cur_ver[t]
            /\ wrappers'[t] = wrappers[t] /\ mapped'[t] = mapped[t]
            /\ local_version'[t] = local_version[t]
<1>1. /\ cpc' = [u \in Threads |-> IF ProcOf[u] = m THEN "dead" ELSE cpc[u]]
      /\ cur_ver' = [u \in Threads |-> IF ProcOf[u] = m THEN 0 ELSE cur_ver[u]]
      /\ wrappers' = [u \in Threads |-> IF ProcOf[u] = m THEN 0 ELSE wrappers[u]]
      /\ mapped' = [u \in Threads |-> IF ProcOf[u] = m THEN 0 ELSE mapped[u]]
      /\ local_version' = [u \in Threads |-> IF ProcOf[u] = m THEN 0 ELSE local_version[u]]
  BY Zenon DEF Crash
<1>2. CASE ProcOf[t] = m
  BY <1>1, <1>2
<1>3. CASE ProcOf[t] # m
  BY <1>1, <1>3
<1> QED BY <1>2, <1>3

\* The clients' steps keep it.
LEMMA ClientView ==
  ASSUME IInv, ViewInv, ClientNext
  PROVE  ViewInv'
<1> USE DEF Goto, viewVars, laneVars, regVars
<1>0. /\ current_version \in Nat /\ current_version' = current_version
      /\ ClientType
  BY ClientKeepsVersions DEF IInv, TypeOK, RegistryType
<1>s. \A m \in Mains : m \in Threads
  BY DEF Threads
<1>o. \A t \in OpThreads : t \in Threads
  BY ThreadAssumption
<1>1. ASSUME NEW m \in Mains, Connect(m) PROVE ViewInv'
  <2>1. CASE ConnectRead(m)
    BY <2>1, <1>0, <1>s DEF ConnectRead, ClientType, ViewInv
  <2>2. CASE ConnectRegister(m)
    BY <2>2, <1>0 DEF ConnectRegister, ViewInv
  <2>3. CASE ConnectOpen(m)
    BY <2>3, <1>0, <1>s DEF ConnectOpen, ClientType, ViewInv
  <2>4. CASE ConnectOpenFails(m)
    BY <2>4, <1>0, <1>s DEF ConnectOpenFails, ClientType, ViewInv
  <2>5. CASE ConnectGeneration(m)
    BY <2>5, <1>0, <1>s DEF ConnectGeneration, ClientType, ViewInv
  <2>6. CASE ConnectAck(m)
    BY <2>6, <1>0, <1>s DEF ConnectAck, ClientType, ViewInv
  <2> QED BY <1>1, <2>1, <2>2, <2>3, <2>4, <2>5, <2>6 DEF Connect
<1>2. ASSUME NEW m \in Mains, Crash(m) PROVE ViewInv'
  <2>1. /\ \A t \in Threads :
             \/ cur_ver'[t] = 0 /\ wrappers'[t] = 0
             \/ /\ cur_ver'[t] = cur_ver[t] /\ wrappers'[t] = wrappers[t]
                /\ mapped'[t] = mapped[t] /\ local_version'[t] = local_version[t]
    BY <1>2, CrashLoses
  <2>2. ASSUME NEW n \in Mains PROVE globals'[n] <= current_version'
    <3>1. globals' = [globals EXCEPT ![m] = 0]
      BY <1>2 DEF Crash
    <3>2. globals \in [Mains -> Nat]
      BY <1>0 DEF ClientType
    <3>3. globals'[n] = 0 \/ globals'[n] = globals[n]
      BY <3>1, <3>2
    <3>4. globals[n] <= current_version
      BY DEF ViewInv
    <3> QED BY <1>0, <3>3, <3>4
  <2>3. ASSUME NEW t \in Threads
        PROVE  /\ cur_ver'[t] <= current_version' /\ wrappers'[t] <= current_version'
               /\ wrappers'[t] # 0 =>
                    wrappers'[t] = mapped'[t] /\ wrappers'[t] = local_version'[t]
    BY <1>0, <2>1 DEF ViewInv
  <2> QED BY <2>2, <2>3 DEF ViewInv
<1>3. ASSUME NEW w \in Workers, WorkerStart(w) PROVE ViewInv'
  BY <1>3, <1>0 DEF WorkerStart, ViewInv
<1>4. ASSUME NEW t \in OpThreads, maybe_check_version(t) PROVE ViewInv'
  BY <1>4, <1>0 DEF maybe_check_version, CheckUnchanged, CheckGeneration,
                    CheckSameVersion, CheckOtherVersion, ViewInv
<1>5. ASSUME NEW t \in OpThreads, remap_to_current_epoch(t) PROVE ViewInv'
  <2>1. CASE RemapUnmap(t)
    BY <2>1, <1>0, <1>o DEF RemapUnmap, DeleteWrappers, ClientType, ViewInv
  <2>2. CASE RemapOpen(t)
    BY <2>2, <1>0, <1>o DEF RemapOpen, ClientType, ViewInv
  <2>3. CASE RemapOpenFails(t)
    BY <2>3, <1>0, <1>o DEF RemapOpenFails, ClientType, ViewInv
  <2>4. CASE RemapGeneration(t)
    BY <2>4, <1>0 DEF RemapGeneration, ViewInv
  <2>5. CASE RemapAck(t)
    BY <2>5, <1>0, <1>o DEF RemapAck, ClientType, ViewInv
  <2> QED BY <1>5, <2>1, <2>2, <2>3, <2>4, <2>5 DEF remap_to_current_epoch
<1>6. ASSUME NEW t \in OpThreads, Operate(t) PROVE ViewInv'
  <2>1. CASE OpReturn(t) \/ PutWrite(t)
    BY <2>1, <1>0 DEF OpReturn, PutWrite, ViewInv
  <2>2. CASE AllocEpoch(t)
    BY <2>2, <1>0, <1>o DEF AllocEpoch, ClientType, ViewInv
  <2>3. CASE \E l \in Lanes : AllocIndex(t, l)
    BY <2>3, <1>0, <1>o DEF AllocIndex, ClientType, ViewInv
  <2> QED BY <1>6, <2>1, <2>2, <2>3 DEF Operate
<1> QED BY <1>1, <1>2, <1>3, <1>4, <1>5, <1>6 DEF ClientNext

\* The views are not ahead in any reachable state.
LEMMA ViewInvariance == Spec => []ViewInv
<1>1. Init => ViewInv
  BY DEF Init, RegistryInit, ClientInit, ViewInv
<1>2. ASSUME IInv, ViewInv, [Next]_vars PROVE ViewInv'
  <2>1. CASE ClientNext
    BY <1>2, <2>1, ClientView
  <2>2. CASE UNCHANGED cliVars
    BY <1>2, <2>2, VersionGrows, ViewStable DEF IInv, cliVars
  <2> QED BY <1>2, <2>1, <2>2 DEF Next, vars
<1> QED BY <1>1, <1>2, Invariance, PTL DEF Spec

\* No thread ever works on a region that the registry has not switched to,
\* whatever remaps fail and whoever crashes.
THEOREM ViewsNeverAhead == Spec => []ViewNotAhead
<1>1. ViewInv => ViewNotAhead
  BY ThreadAssumption DEF ViewInv, ViewNotAhead, View
<1> QED BY <1>1, ViewInvariance, PTL

(***************************************************************************)
(* The lanes and the indices given out.                                    *)
(***************************************************************************)

Sized == {"lanes", "publish", "switch"}

\* The capacities in epoch[]: the one do_copy has stored is twice the current
\* one, and no slot describes a version that is still to come.
CapacityInv ==
    /\ NKeys <= current_epoch.num_data_entries
    /\ mpc \in Sized =>
         epoch[Slot(new_ver)].num_data_entries = 2 * current_epoch.num_data_entries
    /\ \A s \in EpochSlots :
         \/ epoch[s].version <= current_version
         \/ mpc \in Sized /\ epoch[s].version = new_ver

\* A put that holds a reference to an epoch is bounded by no more than the
\* current capacity.
ReferenceInv ==
    \A t \in Threads : cpc[t] = "alloc" =>
        epoch[Slot(cur_ver[t])].num_data_entries <= current_epoch.num_data_entries

\* The lanes count up in different residue classes, each past every index of
\* its class that was given out.
LaneInv ==
    /\ \A l, m \in Lanes : l # m =>
         lane_next_free_index[l] % mem_threads # lane_next_free_index[m] % mem_threads
    /\ \A l \in Lanes : NKeys <= lane_next_free_index[l]
    /\ \A i \in handed, l \in Lanes :
         i % mem_threads = lane_next_free_index[l] % mem_threads
         => i < lane_next_free_index[l]
    /\ \A i \in handed : NKeys <= i /\ i < current_epoch.num_data_entries
    /\ IsFiniteSet(handed)
    /\ Cardinality(handed) = allocations

IndexInv == CapacityInv /\ (EpochsUnwrapped => ReferenceInv /\ LaneInv)

\* A step of a lane stays in its residue class.
LEMMA SameResidue ==
  ASSUME NEW n \in Nat
  PROVE  (n + mem_threads) % mem_threads = n % mem_threads
<1> DEFINE q == n \div mem_threads
           r == n % mem_threads
<1>1. q \in Int /\ r \in 0 .. mem_threads - 1 /\ n = q * mem_threads + r
  BY RegistryAssumption, Z3
<1> HIDE DEF q, r
<1>2. n + mem_threads = (q + 1) * mem_threads + r
  BY <1>1, RegistryAssumption, Z3
<1>3. (n + mem_threads) % mem_threads = r
  BY <1>1, <1>2, RegistryAssumption, Z3
<1> QED BY <1>3 DEF r

\* Lanes that start side by side are in different residue classes.
LEMMA DifferentResidues ==
  ASSUME NEW n \in Nat, NEW l \in Lanes, NEW m \in Lanes, l # m
  PROVE  (n + l) % mem_threads # (n + m) % mem_threads
<1> SUFFICES ASSUME (n + l) % mem_threads = (n + m) % mem_threads PROVE FALSE
  OBVIOUS
<1> DEFINE p == (n + l) \div mem_threads
           q == (n + m) \div mem_threads
           r == (n + l) % mem_threads
<1>0. l \in Nat /\ m \in Nat /\ l < mem_threads /\ m < mem_threads /\ mem_threads \in Nat
  BY RegistryAssumption DEF Lanes
<1>1. p \in Int /\ r \in Nat /\ n + l = p * mem_threads + r
  BY <1>0, RegistryAssumption, Z3
<1>2. q \in Int /\ n + m = q * mem_threads + r
  BY <1>0, RegistryAssumption, Z3
<1> HIDE DEF p, q, r
<1>3. l - m = (p - q) * mem_threads
  BY <1>0, <1>1, <1>2, Z3
<1>4. CASE p = q
  BY <1>0, <1>3, <1>4, <1>1, Z3
<1>5. CASE p > q
  <2>1. (p - q) * mem_threads >= mem_threads
    BY <1>0, <1>1, <1>2, <1>5, Z3
  <2> QED BY <1>0, <1>3, <2>1
<1>6. CASE p < q
  <2>1. (p - q) * mem_threads <= -mem_threads
    BY <1>0, <1>1, <1>2, <1>6, Z3
  <2> QED BY <1>0, <1>3, <2>1
<1> QED BY <1>1, <1>2, <1>4, <1>5, <1>6

\* Storing a counter or a flag of an epoch changes no version and no capacity.
LEMMA SameCapacities ==
  ASSUME epoch \in [EpochSlots -> ResizeEpoch], NEW s \in EpochSlots,
         \/ \E n : epoch' = [epoch EXCEPT ![s].clients_pending_ack = n]
         \/ \E n : epoch' = [epoch EXCEPT ![s].published = n]
         \/ \E n : epoch' = [epoch EXCEPT ![s].cleanup_allowed = n]
  PROVE  \A r \in EpochSlots : /\ epoch'[r].version = epoch[r].version
                               /\ epoch'[r].num_data_entries = epoch[r].num_data_entries
BY DEF ResizeEpoch

\* The only step that describes a region anew is that of do_copy.
LEMMA EpochSteps ==
  ASSUME TypeOK, [Next]_vars
  PROVE  \/ CopyFillEpoch
         \/ \A r \in EpochSlots : /\ epoch'[r].version = epoch[r].version
                                  /\ epoch'[r].num_data_entries = epoch[r].num_data_entries
<1> DEFINE Same == \A r \in EpochSlots :
                     /\ epoch'[r].version = epoch[r].version
                     /\ epoch'[r].num_data_entries = epoch[r].num_data_entries
<1>0. /\ epoch \in [EpochSlots -> ResizeEpoch]
      /\ \A v \in Nat : Slot(v) \in EpochSlots
      /\ current_version \in Nat /\ new_ver \in Nat /\ pending_old_ver \in Nat
      /\ cur_ver \in [Threads -> Nat]
  BY CounterTypes DEF TypeOK, RegistryType, MonitorType, ClientType
<1>u. ASSUME UNCHANGED epoch PROVE Same
  BY <1>u
<1>1. ASSUME WaitOnlyZombies \/ WaitForce PROVE Same
  BY <1>0, <1>1, SameCapacities DEF WaitOnlyZombies, WaitForce
<1>2. ASSUME CopyPublish PROVE Same
  BY <1>0, <1>2, SameCapacities DEF CopyPublish
<1>3. ASSUME drain_old PROVE Same
  BY <1>0, <1>3, <1>u, SameCapacities DEF drain_old
<1>4. ASSUME NEW t \in Threads, ConnectAck(t) \/ RemapAck(t) PROVE Same
  <2>1. epoch' = [epoch EXCEPT ![Slot(cur_ver[t])].clients_pending_ack =
                    FetchSub1(epoch[Slot(cur_ver[t])].clients_pending_ack)]
    BY <1>4 DEF ConnectAck, RemapAck, Acknowledge
  <2>2. Slot(cur_ver[t]) \in EpochSlots
    BY <1>0
  <2> QED BY <1>0, <2>1, <2>2, SameCapacities
<1>5. ASSUME MonitorNext PROVE CopyFillEpoch \/ Same
  BY <1>5, <1>1, <1>2, <1>3, <1>u
  DEF MonitorNext, CopyStep, WaitStep, ReclaimStep, ClockStep,
      maybe_trigger_pre_resize, maybe_start_copying, CopyCreateFails, CopyCreate,
      CopyResetLanes, CopySwitch, CopyBumpGeneration, CopySetReady, CopyHandover,
      WaitAllAcked, WaitStartTimer, maybe_gc, GcSetNormal, AckGracePasses,
      GcGracePasses, HeartbeatAges, regVars
<1>6. ASSUME ClientNext PROVE Same
  <2>1. \/ UNCHANGED epoch
        \/ \E m \in Mains : ConnectAck(m)
        \/ \E t \in OpThreads : RemapAck(t)
    BY <1>6 DEF ClientNext, Connect, ConnectRead, ConnectRegister, ConnectOpen,
      ConnectOpenFails, ConnectGeneration, Crash, WorkerStart, maybe_check_version,
      CheckUnchanged, CheckGeneration, CheckSameVersion, CheckOtherVersion,
      remap_to_current_epoch, RemapUnmap, RemapOpen, RemapOpenFails, RemapGeneration,
      Operate, OpReturn, AllocEpoch, AllocIndex, PutWrite, regVars
  <2>2. OpThreads \subseteq Threads /\ Mains \subseteq Threads
    BY ThreadAssumption DEF Threads
  <2> QED BY <2>1, <2>2, <1>4, <1>u
<1> QED BY <1>5, <1>6, <1>u DEF Next, vars, regVars

\* The steps by which do_copy sizes the next region and moves to it are the
\* only ones that change which capacity is current.
LEMMA SizedSteps ==
  ASSUME [Next]_vars
  PROVE  \/ CopyFillEpoch
         \/ CopySwitch
         \/ /\ UNCHANGED current_version
            /\ mpc' \in Sized <=> mpc \in Sized
            /\ mpc \in Sized => new_ver' = new_ver
<1> DEFINE Quiet == /\ UNCHANGED current_version
                    /\ mpc' \in Sized <=> mpc \in Sized
                    /\ mpc \in Sized => new_ver' = new_ver
<1>1. ASSUME ClientNext, UNCHANGED monVars PROVE Quiet
  BY <1>1, ClientKeepsVersions DEF monVars
<1>2. ASSUME MonitorNext PROVE CopyFillEpoch \/ CopySwitch \/ Quiet
  BY <1>2
  DEF MonitorNext, CopyStep, WaitStep, ReclaimStep, ClockStep,
      maybe_trigger_pre_resize, maybe_start_copying, CopyCreateFails, CopyCreate,
      CopyResetLanes, CopyPublish, CopyBumpGeneration, CopySetReady, CopyHandover,
      WaitAllAcked, WaitOnlyZombies, WaitForce, WaitStartTimer, drain_old, maybe_gc,
      GcSetNormal, AckGracePasses, GcGracePasses, HeartbeatAges, regVars, monVars, Sized
<1> QED BY <1>1, <1>2 DEF Next, vars, regVars, monVars

\* The slot of a version below the length of the table is the version itself.
LEMMA SmallSlot ==
  ASSUME NEW v \in Nat, v < kMaxEpochSlots
  PROVE  Slot(v) = v
BY RegistryAssumption DEF Slot

\* Filling the epoch of the next version leaves the current one alone.
LEMMA FillStep ==
  ASSUME IInv, CopyFillEpoch
  PROVE  /\ new_ver \in Nat /\ new_ver > current_version
         /\ Slot(new_ver) \in EpochSlots
         /\ Slot(new_ver) # Slot(current_version)
         /\ epoch'[Slot(new_ver)].version = new_ver
         /\ epoch'[Slot(new_ver)].num_data_entries = 2 * current_epoch.num_data_entries
         /\ \A r \in EpochSlots \ {Slot(new_ver)} : epoch'[r] = epoch[r]
         /\ UNCHANGED <<current_version, new_ver>> /\ mpc' = "lanes"
<1>1. /\ epoch \in [EpochSlots -> ResizeEpoch] /\ current_version \in Nat /\ new_ver \in Nat
      /\ new_ver = NextVersion(current_version)
  BY DEF IInv, TypeOK, RegistryType, MonitorType, CopyFillEpoch, PhaseInv, Building
<1>2. Slot(new_ver) \in EpochSlots
  BY <1>1, CounterTypes
<1>3. new_ver > current_version /\ Slot(new_ver) # Slot(current_version)
  BY <1>1, NextVersionSlot
<1> QED BY <1>1, <1>2, <1>3 DEF CopyFillEpoch

\* A step keeps the capacities in order, and a table that is unwrapped after
\* it was unwrapped before it.
LEMMA CapacityStep ==
  ASSUME IInv, CapacityInv, [Next]_vars
  PROVE  /\ CapacityInv'
         /\ EpochsUnwrapped' => EpochsUnwrapped
         /\ current_epoch.num_data_entries <= current_epoch'.num_data_entries
<1>0. /\ epoch \in [EpochSlots -> ResizeEpoch] /\ current_version \in Nat
      /\ new_ver \in Nat /\ kMaxEpochSlots \in Nat /\ NKeys \in Nat
      /\ Slot(current_version) \in EpochSlots /\ Slot(new_ver) \in EpochSlots
      /\ \A s \in EpochSlots : epoch[s].version \in Nat /\ epoch[s].num_data_entries \in Nat
  <2>1. /\ epoch \in [EpochSlots -> ResizeEpoch] /\ current_version \in Nat
        /\ new_ver \in Nat
    BY DEF IInv, TypeOK, RegistryType, MonitorType
  <2> QED BY <2>1, CounterTypes, RegistryAssumption DEF ResizeEpoch
<1> USE DEF Sized
<1>1. CASE CopyFillEpoch
  <2>1. current_epoch'.num_data_entries = current_epoch.num_data_entries
    BY <1>0, <1>1, FillStep DEF current_epoch
  <2>2. CapacityInv'
    BY <1>0, <1>1, <2>1, FillStep DEF CapacityInv
  <2>3. EpochsUnwrapped' => EpochsUnwrapped
    <3> SUFFICES ASSUME EpochsUnwrapped', NEW s \in EpochSlots
                 PROVE  epoch[s].version < kMaxEpochSlots
      BY DEF EpochsUnwrapped
    <3>1. new_ver < kMaxEpochSlots
      BY <1>0, <1>1, FillStep DEF EpochsUnwrapped
    <3>2. epoch[s].version <= current_version
      BY <1>1 DEF CapacityInv, CopyFillEpoch
    <3> QED BY <1>0, <1>1, <3>1, <3>2, FillStep
  <2> QED BY <1>0, <2>1, <2>2, <2>3 DEF current_epoch
<1>2. CASE /\ \A r \in EpochSlots : /\ epoch'[r].version = epoch[r].version
                                    /\ epoch'[r].num_data_entries = epoch[r].num_data_entries
           /\ CopySwitch
  <2>1. /\ current_version' = new_ver /\ new_ver' = new_ver /\ mpc' = "bump"
        /\ mpc = "switch"
        /\ epoch'[Slot(new_ver)].num_data_entries = 2 * current_epoch.num_data_entries
    BY <1>0, <1>2 DEF CopySwitch, CapacityInv
  <2>2. new_ver > current_version
    BY <1>0, <2>1, NextVersionSlot DEF IInv, PhaseInv, Building
  <2>3. current_epoch'.num_data_entries = 2 * current_epoch.num_data_entries
    BY <2>1 DEF current_epoch
  <2>4. current_epoch.num_data_entries \in Nat
    BY <1>0 DEF current_epoch
  <2>5. \A s \in EpochSlots : epoch'[s].version <= current_version'
    <3> TAKE s \in EpochSlots
    <3>1. epoch[s].version <= current_version \/ epoch[s].version = new_ver
      BY DEF CapacityInv
    <3>2. epoch'[s].version = epoch[s].version /\ epoch[s].version \in Nat
      BY <1>0, <1>2
    <3> QED BY <1>0, <2>1, <2>2, <3>1, <3>2
  <2>6. CapacityInv'
    <3>1. NKeys <= current_epoch'.num_data_entries
      BY <1>0, <2>3, <2>4 DEF CapacityInv
    <3>2. mpc' \notin Sized
      BY <2>1
    <3> QED BY <2>5, <3>1, <3>2 DEF CapacityInv
  <2> QED BY <1>0, <1>2, <2>3, <2>4, <2>6 DEF EpochsUnwrapped
<1>3. CASE /\ \A r \in EpochSlots : /\ epoch'[r].version = epoch[r].version
                                    /\ epoch'[r].num_data_entries = epoch[r].num_data_entries
           /\ UNCHANGED current_version
           /\ mpc' \in Sized <=> mpc \in Sized
           /\ mpc \in Sized => new_ver' = new_ver
  <2>1. current_epoch'.num_data_entries = current_epoch.num_data_entries
    BY <1>0, <1>3 DEF current_epoch
  <2>2. \A s \in EpochSlots :
          \/ epoch'[s].version <= current_version
          \/ mpc \in Sized /\ epoch'[s].version = new_ver
    BY <1>0, <1>3 DEF CapacityInv
  <2>3. CapacityInv'
    <3>1. NKeys <= current_epoch'.num_data_entries
      BY <2>1 DEF CapacityInv
    <3>2. mpc' \in Sized =>
            epoch'[Slot(new_ver')].num_data_entries = 2 * current_epoch'.num_data_entries
      BY <1>0, <1>3, <2>1 DEF CapacityInv
    <3>3. \A s \in EpochSlots :
            \/ epoch'[s].version <= current_version'
            \/ mpc' \in Sized /\ epoch'[s].version = new_ver'
      BY <1>0, <1>3, <2>2
    <3> QED BY <3>1, <3>2, <3>3 DEF CapacityInv
  <2>4. EpochsUnwrapped' => EpochsUnwrapped
    BY <1>3 DEF EpochsUnwrapped
  <2>5. current_epoch.num_data_entries <= current_epoch'.num_data_entries
    <3>1. current_epoch.num_data_entries \in Nat
      BY <1>0 DEF current_epoch
    <3> QED BY <2>1, <3>1
  <2> QED BY <2>3, <2>4, <2>5
<1>4. TypeOK
  BY DEF IInv
<1> QED BY <1>1, <1>2, <1>3, <1>4, SizedSteps, EpochSteps

\* A thread that is about to advance a lane has just taken its reference, or
\* has kept it.
LEMMA ReferenceSteps ==
  ASSUME TypeOK, ClientNext, NEW t \in Threads, cpc'[t] = "alloc"
  PROVE  \/ cpc[t] = "alloc" /\ cur_ver'[t] = cur_ver[t]
         \/ cur_ver'[t] = current_version
<1> USE DEF Goto, viewVars, laneVars, regVars
<1>0. cpc \in [Threads -> ClientPoints] /\ cur_ver \in [Threads -> Nat]
  BY DEF TypeOK, ClientType
<1>1. CASE \E m \in Mains : Connect(m)
  <2>1. PICK m \in Threads : Connect(m)
    BY <1>1 DEF Threads
  <2>2. CASE ConnectRead(m) \/ ConnectRegister(m)
    BY <1>0, <2>2 DEF ConnectRead, ConnectRegister
  <2>3. CASE ConnectOpen(m) \/ ConnectOpenFails(m)
    BY <1>0, <2>3 DEF ConnectOpen, ConnectOpenFails
  <2>4. CASE ConnectGeneration(m) \/ ConnectAck(m)
    BY <1>0, <2>4 DEF ConnectGeneration, ConnectAck, Acknowledge
  <2> QED BY <2>1, <2>2, <2>3, <2>4 DEF Connect
<1>2. CASE \E m \in Mains : Crash(m)
  <2>1. cpc'[t] = "dead" \/ (cpc'[t] = cpc[t] /\ cur_ver'[t] = cur_ver[t])
    BY <1>2, CrashLoses
  <2> QED BY <2>1
<1>3. CASE \E w \in Workers : WorkerStart(w)
  BY <1>0, <1>3 DEF WorkerStart, Threads
<1>4. CASE \E u \in OpThreads : maybe_check_version(u)
  BY <1>0, <1>4, ThreadAssumption DEF maybe_check_version, CheckUnchanged,
     CheckGeneration, CheckSameVersion, CheckOtherVersion
<1>5. CASE \E u \in OpThreads : remap_to_current_epoch(u)
  BY <1>0, <1>5, ThreadAssumption DEF remap_to_current_epoch, RemapUnmap, RemapOpen,
     RemapOpenFails, RemapGeneration, RemapAck, Acknowledge
<1>6. CASE \E u \in OpThreads : Operate(u)
  <2>1. PICK u \in Threads : Operate(u)
    BY <1>6, ThreadAssumption
  <2>2. CASE OpReturn(u) \/ PutWrite(u)
    BY <1>0, <2>2 DEF OpReturn, PutWrite
  <2>3. CASE AllocEpoch(u)
    BY <1>0, <2>3 DEF AllocEpoch
  <2>4. CASE \E l \in Lanes : AllocIndex(u, l)
    BY <1>0, <2>4 DEF AllocIndex
  <2> QED BY <2>1, <2>2, <2>3, <2>4 DEF Operate
<1> QED BY <1>1, <1>2, <1>3, <1>4, <1>5, <1>6 DEF ClientNext

\* While the table is unwrapped, the slot a put refers to is not filled again.
LEMMA ReferenceStep ==
  ASSUME IInv, ViewInv, CapacityInv, ReferenceInv, EpochsUnwrapped', [Next]_vars
  PROVE  ReferenceInv'
<1>0. /\ epoch \in [EpochSlots -> ResizeEpoch] /\ current_version \in Nat
      /\ kMaxEpochSlots \in Nat /\ TypeOK
      /\ Slot(current_version) \in EpochSlots
      /\ \A s \in EpochSlots : epoch[s].num_data_entries \in Nat
      /\ \A t \in Threads : cur_ver[t] \in Nat /\ Slot(cur_ver[t]) \in EpochSlots
      /\ current_epoch.num_data_entries \in Nat
  <2>1. /\ epoch \in [EpochSlots -> ResizeEpoch] /\ current_version \in Nat
        /\ cur_ver \in [Threads -> Nat] /\ TypeOK
    BY DEF IInv, TypeOK, RegistryType, ClientType
  <2> QED BY <2>1, CounterTypes, RegistryAssumption DEF ResizeEpoch, current_epoch
<1> SUFFICES ASSUME NEW t \in Threads, cpc'[t] = "alloc"
             PROVE  epoch'[Slot(cur_ver'[t])].num_data_entries
                      <= current_epoch'.num_data_entries
  BY DEF ReferenceInv
<1>g. current_epoch.num_data_entries <= current_epoch'.num_data_entries
  BY CapacityStep
<1>1. CASE ClientNext /\ UNCHANGED monVars
  <2>1. \A r \in EpochSlots : epoch'[r].num_data_entries = epoch[r].num_data_entries
    BY <1>0, <1>1, EpochSteps DEF CopyFillEpoch, monVars
  <2>2. current_version' = current_version
    BY <1>1, ClientKeepsVersions
  <2>3. current_epoch'.num_data_entries = current_epoch.num_data_entries
    BY <1>0, <2>1, <2>2 DEF current_epoch
  <2>4. CASE cpc[t] = "alloc" /\ cur_ver'[t] = cur_ver[t]
    BY <1>0, <2>1, <2>3, <2>4 DEF ReferenceInv
  <2>5. CASE cur_ver'[t] = current_version
    BY <1>0, <2>1, <2>3, <2>5 DEF current_epoch
  <2> QED BY <1>0, <1>1, <2>4, <2>5, ReferenceSteps
<1>2. CASE UNCHANGED cliVars
  <2>1. cpc[t] = "alloc" /\ cur_ver'[t] = cur_ver[t]
    BY <1>2 DEF cliVars
  <2>2. epoch'[Slot(cur_ver[t])].num_data_entries = epoch[Slot(cur_ver[t])].num_data_entries
    <3>1. CASE CopyFillEpoch
      <4>1. new_ver < kMaxEpochSlots /\ new_ver \in Nat
        BY <1>0, <3>1, FillStep DEF EpochsUnwrapped
      <4>2. cur_ver[t] < new_ver
        <5>1. new_ver > current_version
          BY <3>1, FillStep
        <5>2. cur_ver[t] <= current_version
          BY DEF ViewInv
        <5>3. cur_ver[t] \in Nat /\ current_version \in Nat
          BY <1>0
        <5> QED BY <4>1, <5>1, <5>2, <5>3
      <4>3. Slot(new_ver) = new_ver /\ Slot(cur_ver[t]) = cur_ver[t]
        BY <1>0, <4>1, <4>2, SmallSlot
      <4> QED BY <1>0, <3>1, <4>1, <4>2, <4>3, FillStep
    <3> QED BY <1>0, <3>1, EpochSteps
  <2>3. current_epoch'.num_data_entries \in Nat
    <3>1. TypeOK'
      BY NextIInv DEF IInv
    <3>2. epoch' \in [EpochSlots -> ResizeEpoch] /\ current_version' \in Nat
      BY <3>1 DEF TypeOK, RegistryType
    <3>3. Slot(current_version') \in EpochSlots
      BY <3>2, SlotInRange
    <3> QED BY <3>2, <3>3 DEF ResizeEpoch, current_epoch
  <2> QED BY <1>0, <1>g, <2>1, <2>2, <2>3 DEF ReferenceInv
<1> QED BY <1>1, <1>2 DEF Next, vars

\* The lanes and the indices given out, after a step that is neither a reset
\* of the lanes nor an allocation.
LEMMA LaneSteps ==
  ASSUME [Next]_vars
  PROVE  \/ CopyResetLanes /\ UNCHANGED <<handed, allocations>>
         \/ \E t \in Threads, l \in Lanes : AllocIndex(t, l)
         \/ UNCHANGED <<lane_next_free_index, handed, allocations>>
<1>1. ASSUME ClientNext
      PROVE  \/ \E t \in Threads, l \in Lanes : AllocIndex(t, l)
             \/ UNCHANGED <<lane_next_free_index, handed, allocations>>
  <2>1. CASE \E m \in Mains : Connect(m) \/ Crash(m)
    BY <2>1 DEF Connect, ConnectRead, ConnectRegister, ConnectOpen, ConnectOpenFails,
       ConnectGeneration, ConnectAck, Crash, Acknowledge, regVars, laneVars
  <2>2. CASE \E w \in Workers : WorkerStart(w)
    BY <2>2 DEF WorkerStart, regVars, laneVars
  <2>3. CASE \E t \in OpThreads : maybe_check_version(t)
    BY <2>3 DEF maybe_check_version, CheckUnchanged, CheckGeneration, CheckSameVersion,
       CheckOtherVersion, regVars, laneVars
  <2>4. CASE \E t \in OpThreads : remap_to_current_epoch(t)
    BY <2>4 DEF remap_to_current_epoch, RemapUnmap, RemapOpen, RemapOpenFails,
       RemapGeneration, RemapAck, Acknowledge, regVars, laneVars
  <2>5. CASE \E t \in OpThreads : OpReturn(t) \/ AllocEpoch(t) \/ PutWrite(t)
    BY <2>5 DEF OpReturn, AllocEpoch, PutWrite, regVars, laneVars
  <2>6. CASE \E t \in OpThreads, l \in Lanes : AllocIndex(t, l)
    BY <2>6, ThreadAssumption
  <2> QED BY <1>1, <2>1, <2>2, <2>3, <2>4, <2>5, <2>6 DEF ClientNext, Operate
<1>2. ASSUME MonitorNext
      PROVE  CopyResetLanes \/ UNCHANGED lane_next_free_index
  BY <1>2
  DEF MonitorNext, CopyStep, WaitStep, ReclaimStep, ClockStep,
      maybe_trigger_pre_resize, maybe_start_copying, CopyCreateFails, CopyCreate,
      CopyFillEpoch, CopyPublish, CopySwitch, CopyBumpGeneration, CopySetReady,
      CopyHandover, WaitAllAcked, WaitOnlyZombies, WaitForce, WaitStartTimer,
      drain_old, maybe_gc, GcSetNormal, AckGracePasses, GcGracePasses,
      HeartbeatAges, regVars
<1> QED BY <1>1, <1>2 DEF Next, vars, regVars, cliVars

\* Restarting the lanes at the current capacity puts them past every index
\* given out so far.
LEMMA ResetStep ==
  ASSUME IInv, CapacityInv, LaneInv, CopyResetLanes, UNCHANGED <<handed, allocations>>
  PROVE  LaneInv'
<1>0. /\ current_epoch.num_data_entries \in Nat /\ NKeys \in Nat
      /\ \A l \in Lanes : l \in Nat
      /\ handed \subseteq Nat
  <2>1. epoch \in [EpochSlots -> ResizeEpoch] /\ current_version \in Nat
    BY DEF IInv, TypeOK, RegistryType
  <2>2. Slot(current_version) \in EpochSlots
    BY <2>1, SlotInRange
  <2>3. handed \subseteq Nat
    BY DEF IInv, TypeOK, ClientType
  <2> QED BY <2>1, <2>2, <2>3, RegistryAssumption DEF ResizeEpoch, current_epoch, Lanes
<1>1. UNCHANGED current_epoch
  BY DEF CopyResetLanes, current_epoch
<1>2. \A l \in Lanes : lane_next_free_index'[l] = current_epoch.num_data_entries + l
  BY DEF CopyResetLanes, LaneRestart
<1>3. \A l, m \in Lanes : l # m =>
        lane_next_free_index'[l] % mem_threads # lane_next_free_index'[m] % mem_threads
  BY <1>0, <1>2, DifferentResidues
<1>4. \A l \in Lanes : NKeys <= lane_next_free_index'[l]
  BY <1>0, <1>2 DEF CapacityInv
<1>5. \A i \in handed, l \in Lanes : i < lane_next_free_index'[l]
  BY <1>0, <1>2 DEF LaneInv
<1> QED BY <1>1, <1>3, <1>4, <1>5 DEF LaneInv

\* An index is new when it is given out, and below the current capacity.
LEMMA AllocStep ==
  ASSUME IInv, CapacityInv, ReferenceInv, LaneInv,
         NEW t \in Threads, NEW l \in Lanes, AllocIndex(t, l)
  PROVE  LaneInv'
<1> DEFINE idx == lane_next_free_index[l]
           T == mem_threads
<1>0. /\ current_epoch.num_data_entries \in Nat /\ NKeys \in Nat /\ T \in Nat \ {0}
      /\ lane_next_free_index \in [Lanes -> Nat]
      /\ handed \subseteq Nat /\ allocations \in Nat
      /\ epoch[Slot(cur_ver[t])].num_data_entries \in Nat
  <2>1. /\ epoch \in [EpochSlots -> ResizeEpoch] /\ current_version \in Nat
        /\ lane_next_free_index \in [Lanes -> Nat] /\ cur_ver[t] \in Nat
        /\ handed \subseteq Nat /\ allocations \in Nat
    BY DEF IInv, TypeOK, RegistryType, ClientType
  <2>2. Slot(current_version) \in EpochSlots /\ Slot(cur_ver[t]) \in EpochSlots
    BY <2>1, SlotInRange
  <2> QED BY <2>1, <2>2, RegistryAssumption DEF ResizeEpoch, current_epoch
<1>1. /\ UNCHANGED current_epoch
      /\ lane_next_free_index' = [lane_next_free_index EXCEPT ![l] = idx + T]
  BY DEF AllocIndex, current_epoch
<1>2. /\ lane_next_free_index'[l] = idx + T
      /\ \A m \in Lanes : m # l => lane_next_free_index'[m] = lane_next_free_index[m]
  BY <1>0, <1>1
<1>3. idx \in Nat /\ (idx + T) % T = idx % T
  BY <1>0, SameResidue
<1>4. \A m \in Lanes :
        lane_next_free_index'[m] % T = lane_next_free_index[m] % T
  BY <1>2, <1>3
<1>5. \A m \in Lanes : lane_next_free_index[m] <= lane_next_free_index'[m]
                       /\ lane_next_free_index'[m] \in Nat
  BY <1>0, <1>2
<1>6. \A m, n \in Lanes : m # n =>
        lane_next_free_index'[m] % T # lane_next_free_index'[n] % T
  BY <1>4 DEF LaneInv
<1>a. /\ \A m \in Lanes : NKeys <= lane_next_free_index[m]
      /\ \A i \in handed, m \in Lanes :
           i % T = lane_next_free_index[m] % T => i < lane_next_free_index[m]
  BY DEF LaneInv
<1>7. \A m \in Lanes : NKeys <= lane_next_free_index'[m]
  BY <1>0, <1>5, <1>a
<1>8. \A i \in handed, m \in Lanes :
        i % T = lane_next_free_index'[m] % T => i < lane_next_free_index'[m]
  <2> TAKE i \in handed, m \in Lanes
  <2>1. i \in Nat /\ lane_next_free_index[m] \in Nat
    BY <1>0
  <2> QED BY <1>4, <1>5, <1>a, <2>1
<1>9. CASE IndexUsable(idx, cur_ver[t])
  <2>1. handed' = handed \union {idx} /\ allocations' = allocations + 1 /\ cpc[t] = "alloc"
    BY <1>9 DEF AllocIndex
  <2>2. NKeys <= idx /\ idx < current_epoch.num_data_entries
    <3>1. epoch[Slot(cur_ver[t])].num_data_entries <= current_epoch.num_data_entries
      BY <2>1 DEF ReferenceInv
    <3>2. idx < epoch[Slot(cur_ver[t])].num_data_entries
      BY <1>9 DEF IndexUsable
    <3>3. idx < current_epoch.num_data_entries
      BY <1>0, <1>3, <3>1, <3>2
    <3> QED BY <1>a, <3>3
  <2>3. idx \notin handed
    <3>1. ~(idx < idx)
      BY <1>3
    <3> QED BY <1>a, <3>1
  <2>4. IsFiniteSet(handed') /\ Cardinality(handed') = allocations'
    BY <1>0, <2>1, <2>3, FS_AddElement DEF LaneInv
  <2>5. \A m \in Lanes :
          idx % T = lane_next_free_index'[m] % T => idx < lane_next_free_index'[m]
    <3> TAKE m \in Lanes
    <3>1. CASE m = l
      <4>1. idx < idx + T
        BY <1>0, <1>3
      <4> QED BY <1>2, <3>1, <4>1
    <3>2. CASE m # l
      BY <1>4, <3>2 DEF LaneInv
    <3> QED BY <3>1, <3>2
  <2>6. \A i \in handed' : NKeys <= i /\ i < current_epoch'.num_data_entries
    BY <1>1, <2>1, <2>2 DEF LaneInv
  <2>7. \A i \in handed', m \in Lanes :
        i % T = lane_next_free_index'[m] % T => i < lane_next_free_index'[m]
    BY <2>1, <2>5, <1>8
  <2> QED BY <1>6, <1>7, <2>4, <2>6, <2>7 DEF LaneInv
<1>10. CASE ~IndexUsable(idx, cur_ver[t])
  <2>1. UNCHANGED <<handed, allocations>>
    BY <1>10 DEF AllocIndex, laneVars
  <2> QED BY <1>1, <1>6, <1>7, <1>8, <2>1 DEF LaneInv
<1> QED BY <1>9, <1>10

\* Every step keeps the indices in order.
LEMMA IndexStep ==
  ASSUME IInv, ViewInv, IndexInv, [Next]_vars
  PROVE  IndexInv'
<1>1. CapacityInv /\ CapacityInv'
  BY CapacityStep DEF IndexInv
<1>2. SUFFICES ASSUME EpochsUnwrapped' PROVE ReferenceInv' /\ LaneInv'
  BY <1>1 DEF IndexInv
<1>3. ReferenceInv /\ LaneInv
  BY <1>1, <1>2, CapacityStep DEF IndexInv
<1>4. ReferenceInv'
  BY <1>1, <1>2, <1>3, ReferenceStep
<1>5. CASE UNCHANGED <<lane_next_free_index, handed, allocations>>
  <2>1. \A i \in handed : i < current_epoch'.num_data_entries
    <3>1. handed \subseteq Nat /\ current_version \in Nat /\ current_version' \in Nat
          /\ epoch \in [EpochSlots -> ResizeEpoch] /\ epoch' \in [EpochSlots -> ResizeEpoch]
      BY NextIInv DEF IInv, TypeOK, ClientType, RegistryType
    <3>2. current_epoch.num_data_entries \in Nat /\ current_epoch'.num_data_entries \in Nat
      BY <3>1, SlotInRange DEF current_epoch, ResizeEpoch
    <3>3. current_epoch.num_data_entries <= current_epoch'.num_data_entries
      BY <1>1, CapacityStep
    <3> QED BY <1>3, <3>1, <3>2, <3>3 DEF LaneInv
  <2> QED BY <1>3, <1>4, <1>5, <2>1 DEF LaneInv
<1> QED BY <1>1, <1>3, <1>4, <1>5, LaneSteps, ResetStep, AllocStep

\* The server leaves the lanes just after the loaded keys.
LEMMA IndexInit == Init => IndexInv
<1> SUFFICES ASSUME Init PROVE IndexInv
  OBVIOUS
<1>1. /\ epoch = [s \in EpochSlots |->
                  IF s = 1 THEN [EmptyEpoch EXCEPT !.version = 1,
                                                   !.num_data_entries = packed_entries,
                                                   !.published = 1]
                  ELSE EmptyEpoch]
      /\ current_version = 1 /\ mpc = "poll" /\ 1 \in EpochSlots /\ Slot(1) = 1
      /\ lane_next_free_index = [l \in Lanes |-> NKeys + l]
  <2>1. 1 \in EpochSlots /\ Slot(1) = 1
    BY RegistryAssumption, SmallSlot DEF EpochSlots
  <2> QED BY <2>1 DEF Init, RegistryInit, MonitorInit
<1>2. handed = {} /\ allocations = 0 /\ \A t \in Threads : cpc[t] # "alloc"
  BY DEF Init, ClientInit
<1>3. /\ \A s \in EpochSlots : epoch[s].version \in {0, 1}
      /\ current_epoch.num_data_entries = 2 * NKeys
  BY <1>1 DEF EmptyEpoch, current_epoch, packed_entries
<1>4. CapacityInv
  BY <1>1, <1>3, RegistryAssumption DEF CapacityInv, Sized
<1>5. NKeys \in Nat /\ \A l \in Lanes : l \in Nat
  BY RegistryAssumption DEF Lanes
<1>6. LaneInv
  BY <1>1, <1>2, <1>5, DifferentResidues, FS_EmptySet DEF LaneInv
<1> QED BY <1>2, <1>4, <1>6 DEF IndexInv, ReferenceInv

\* The indices are in order in every reachable state.
LEMMA IndexInvariance == Spec => []IndexInv
<1>1. IInv /\ ViewInv /\ IndexInv /\ [Next]_vars => IndexInv'
  BY IndexStep
<1> QED BY <1>1, IndexInit, Invariance, ViewInvariance, PTL DEF Spec

\* alloc_remote_data_slot gives no index out twice, whatever the interleaving
\* of puts with the resets of the lanes in do_copy, as long as no epoch slot
\* has been used again.
THEOREM LaneIndicesUnique == Spec => []LaneIndexUnique
<1>1. IndexInv => LaneIndexUnique
  BY DEF IndexInv, LaneInv, LaneIndexUnique
<1> QED BY <1>1, IndexInvariance, PTL

\* Every index it gives out lies after the loaded keys and inside the current
\* array, under the same condition.
THEOREM IndicesWithinCapacity == Spec => []HandedInCapacity
<1>1. IndexInv => HandedInCapacity
  BY DEF IndexInv, LaneInv, HandedInCapacity
<1> QED BY <1>1, IndexInvariance, PTL
=============================================================================
