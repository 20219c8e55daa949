----------------------------- MODULE NumaClient -----------------------------
(***************************************************************************)
(* The client side of the NUMA transport (outback_client_numa.hh): how a   *)
(* process connects, how each of its threads notices a new region version  *)
(* and remaps, and how a put takes an index from the allocation lanes.     *)
(*                                                                         *)
(* Every thread has its own ClientRegionState (t_region).  The connecting  *)
(* thread of a process also sets the process-wide remote_* pointers, which *)
(* a thread uses for as long as its own t_region has no wrappers.          *)
(* Pointers are abstracted to the version of the region they lead to, 0    *)
(* being null.  The actions cut the code at each access to the registry.   *)
(***************************************************************************)
EXTENDS NumaRegistry

VARIABLES
    cpc,               \* control point of each thread
    local_version,     \* t_region.local_version
    local_generation,  \* t_region.local_generation
    region_base,       \* t_region.region_base and lock_array
    wrappers,          \* t_region.ludo_buckets and packed_data
    mapped,            \* the region this thread really has mapped
    client_slot,       \* t_region.client_slot, 0 for -1
    cur_ver,           \* the version read last, a local of the code
    cur_gen,           \* the generation read last, a local of the code
    globals,           \* remote_ludo_buckets, ... of each process
    put_index,         \* the index alloc_remote_data_slot gave, -1 for none
    handed,            \* every index ever given out
    allocations        \* how many times an index was given out

cliVars == <<cpc, local_version, local_generation, region_base, wrappers,
             mapped, client_slot, cur_ver, cur_gen, globals, put_index,
             handed, allocations>>

\* The variables of a thread that only change while it connects or remaps.
viewVars == <<local_version, region_base, wrappers, mapped, client_slot, globals>>
laneVars == <<put_index, handed, allocations>>

ConnectPoints == {"off", "register", "open", "connected", "ack0"}
ClientPoints == ConnectPoints \union
                {"idle", "version", "remap", "reopen", "remapped", "ack",
                 "op", "alloc", "write", "dead"}

ClientInit ==
    /\ cpc = [t \in Threads |-> "off"]
    /\ local_version = [t \in Threads |-> 0]
    /\ local_generation = [t \in Threads |-> 0]
    /\ region_base = [t \in Threads |-> 0]
    /\ wrappers = [t \in Threads |-> 0]
    /\ mapped = [t \in Threads |-> 0]
    /\ client_slot = [t \in Threads |-> 0]
    /\ cur_ver = [t \in Threads |-> 0]
    /\ cur_gen = [t \in Threads |-> 0]
    /\ globals = [m \in Mains |-> 0]
    /\ put_index = [t \in Threads |-> -1]
    /\ handed = {}
    /\ allocations = 0

Goto(t, point) == cpc' = [cpc EXCEPT ![t] = point]

\* The pointers an operation of t works on.
View(t) == IF wrappers[t] # 0 THEN wrappers[t] ELSE globals[ProcOf[t]]

client_heartbeat(t) ==
    clients' = IF client_slot[t] = 0 THEN clients
               ELSE [clients EXCEPT ![client_slot[t]] = "fresh"]

\* fetch_sub on the epoch of version v, then the heartbeat.
Acknowledge(t, v) ==
    /\ epoch' = [epoch EXCEPT ![Slot(v)].clients_pending_ack = FetchSub1(@)]
    /\ client_heartbeat(t)
    /\ UNCHANGED <<resize_state, current_version, previous_version, generation,
                   registered_clients, lane_next_free_index, shm>>

(***************************************************************************)
(* connect_to_numa_server, the path of another process.  The caller        *)
(* retries after a failure.                                                *)
(***************************************************************************)
ConnectRead(m) ==
    /\ cpc[m] = "off"
    /\ current_epoch.published = 1
    /\ cur_ver' = [cur_ver EXCEPT ![m] = current_version]
    /\ Goto(m, "register")
    /\ UNCHANGED <<regVars, viewVars, laneVars, local_generation, cur_gen>>

\* The first free slot, if there is one; an inactive slot carries a
\* heartbeat of 0, or one from long ago.
ConnectRegister(m) ==
    /\ cpc[m] = "register"
    /\ \/ \E i \in ClientSlots :
            /\ clients[i] = "free"
            /\ \A j \in ClientSlots : j < i => clients[j] # "free"
            /\ clients' = [clients EXCEPT ![i] = "stale"]
            /\ client_slot' = [client_slot EXCEPT ![m] = i]
            /\ registered_clients' = registered_clients + 1
       \/ /\ \A i \in ClientSlots : clients[i] # "free"
          /\ UNCHANGED <<clients, client_slot, registered_clients>>
    /\ Goto(m, "open")
    /\ UNCHANGED <<resize_state, current_version, previous_version, generation,
                   epoch, lane_next_free_index, shm, local_version, region_base,
                   wrappers, mapped, globals, laneVars, local_generation,
                   cur_ver, cur_gen>>

ConnectOpen(m) ==
    /\ cpc[m] = "open"
    /\ cur_ver[m] \in shm
    /\ region_base' = [region_base EXCEPT ![m] = cur_ver[m]]
    /\ wrappers' = [wrappers EXCEPT ![m] = cur_ver[m]]
    /\ mapped' = [mapped EXCEPT ![m] = cur_ver[m]]
    /\ local_version' = [local_version EXCEPT ![m] = cur_ver[m]]
    /\ Goto(m, "connected")
    /\ UNCHANGED <<regVars, client_slot, globals, laneVars, local_generation,
                   cur_ver, cur_gen>>

\* The slot taken by ConnectRegister is kept.
ConnectOpenFails(m) ==
    /\ cpc[m] = "open"
    /\ cur_ver[m] \notin shm
    /\ cur_ver' = [cur_ver EXCEPT ![m] = 0]
    /\ Goto(m, "off")
    /\ UNCHANGED <<regVars, viewVars, laneVars, local_generation, cur_gen>>

ConnectGeneration(m) ==
    /\ cpc[m] = "connected"
    /\ local_generation' = [local_generation EXCEPT ![m] = generation]
    /\ globals' = [globals EXCEPT ![m] = wrappers[m]]
    /\ Goto(m, "ack0")
    /\ UNCHANGED <<regVars, local_version, region_base, wrappers, mapped,
                   client_slot, laneVars, cur_ver, cur_gen>>

ConnectAck(m) ==
    /\ cpc[m] = "ack0"
    /\ Acknowledge(m, cur_ver[m])
    /\ cur_ver' = [cur_ver EXCEPT ![m] = 0]
    /\ Goto(m, "idle")
    /\ UNCHANGED <<viewVars, laneVars, local_generation, cur_gen>>

\* A worker starts once its process is connected, with an empty t_region.
WorkerStart(w) ==
    /\ cpc[w] = "off"
    /\ cpc[ProcOf[w]] \notin ConnectPoints \union {"dead"}
    /\ Goto(w, "idle")
    /\ UNCHANGED <<regVars, viewVars, laneVars, local_generation, cur_ver, cur_gen>>

(***************************************************************************)
(* maybe_check_version, at the head of every operation.                    *)
(***************************************************************************)
CheckUnchanged(t) ==
    /\ cpc[t] = "idle"
    /\ generation = local_generation[t]
    /\ Goto(t, "op")
    /\ UNCHANGED <<regVars, viewVars, laneVars, local_generation, cur_ver, cur_gen>>

CheckGeneration(t) ==
    /\ cpc[t] = "idle"
    /\ generation # local_generation[t]
    /\ cur_gen' = [cur_gen EXCEPT ![t] = generation]
    /\ Goto(t, "version")
    /\ UNCHANGED <<regVars, viewVars, laneVars, local_generation, cur_ver>>

CheckSameVersion(t) ==
    /\ cpc[t] = "version"
    /\ current_version = local_version[t]
    /\ local_generation' = [local_generation EXCEPT ![t] = cur_gen[t]]
    /\ cur_gen' = [cur_gen EXCEPT ![t] = 0]
    /\ client_heartbeat(t)
    /\ Goto(t, "op")
    /\ UNCHANGED <<resize_state, current_version, previous_version, generation,
                   registered_clients, epoch, lane_next_free_index, shm,
                   viewVars, laneVars, cur_ver>>

CheckOtherVersion(t) ==
    /\ cpc[t] = "version"
    /\ current_version # local_version[t]
    /\ cur_gen' = [cur_gen EXCEPT ![t] = 0]
    /\ Goto(t, "remap")
    /\ UNCHANGED <<regVars, viewVars, laneVars, local_generation, cur_ver>>

(***************************************************************************)
(* remap_to_current_epoch.                                                 *)
(***************************************************************************)
\* Mutant: the wrappers survive the munmap.
KeepWrappers(t) == UNCHANGED wrappers

\* delete t_region.ludo_buckets and packed_data.
DeleteWrappers(t) == wrappers' = [wrappers EXCEPT ![t] = 0]

\* Read the version again and let go of the old region.  region_base and
\* region_fd are not cleared here.
RemapUnmap(t) ==
    /\ cpc[t] = "remap"
    /\ current_epoch.published = 1
    /\ cur_ver' = [cur_ver EXCEPT ![t] = current_version]
    /\ IF region_base[t] # 0
       THEN /\ DeleteWrappers(t)
            /\ mapped' = [mapped EXCEPT ![t] = 0]
       ELSE UNCHANGED <<wrappers, mapped>>
    /\ Goto(t, "reopen")
    /\ UNCHANGED <<regVars, local_version, region_base, client_slot, globals,
                   laneVars, local_generation, cur_gen>>

RemapOpen(t) ==
    /\ cpc[t] = "reopen"
    /\ cur_ver[t] \in shm
    /\ region_base' = [region_base EXCEPT ![t] = cur_ver[t]]
    /\ wrappers' = [wrappers EXCEPT ![t] = cur_ver[t]]
    /\ mapped' = [mapped EXCEPT ![t] = cur_ver[t]]
    /\ local_version' = [local_version EXCEPT ![t] = cur_ver[t]]
    /\ Goto(t, "remapped")
    /\ UNCHANGED <<regVars, client_slot, globals, laneVars, local_generation,
                   cur_ver, cur_gen>>

\* The operation goes on with the process-wide pointers.
RemapOpenFails(t) ==
    /\ cpc[t] = "reopen"
    /\ cur_ver[t] \notin shm
    /\ cur_ver' = [cur_ver EXCEPT ![t] = 0]
    /\ Goto(t, "op")
    /\ UNCHANGED <<regVars, viewVars, laneVars, local_generation, cur_gen>>

RemapGeneration(t) ==
    /\ cpc[t] = "remapped"
    /\ local_generation' = [local_generation EXCEPT ![t] = generation]
    /\ Goto(t, "ack")
    /\ UNCHANGED <<regVars, viewVars, laneVars, cur_ver, cur_gen>>

RemapAck(t) ==
    /\ cpc[t] = "ack"
    /\ Acknowledge(t, cur_ver[t])
    /\ cur_ver' = [cur_ver EXCEPT ![t] = 0]
    /\ Goto(t, "op")
    /\ UNCHANGED <<viewVars, laneVars, local_generation, cur_gen>>

(***************************************************************************)
(* An operation on the region in View(t).                                  *)
(***************************************************************************)
\* A search, update or remove, or a put that takes no new index.
OpReturn(t) ==
    /\ cpc[t] = "op"
    /\ Goto(t, "idle")
    /\ UNCHANGED <<regVars, viewVars, laneVars, local_generation, cur_ver, cur_gen>>

\* alloc_remote_data_slot: take a reference to the current epoch ...
AllocEpoch(t) ==
    /\ cpc[t] = "op"
    /\ cur_ver' = [cur_ver EXCEPT ![t] = current_version]
    /\ Goto(t, "alloc")
    /\ UNCHANGED <<regVars, viewVars, laneVars, local_generation, cur_gen>>

\* Mutant: one index too many.
IndexUsableOffByOne(idx, v) == idx <= epoch[Slot(v)].num_data_entries

\* The bound is that of the epoch referred to before the lane was advanced.
IndexUsable(idx, v) == idx < epoch[Slot(v)].num_data_entries

\* ... and advance a lane, whichever the thread was given.  An index at or
\* past the capacity is not used, and the lane is not moved back.
AllocIndex(t, lane) ==
    LET idx == lane_next_free_index[lane]
        ok  == IndexUsable(idx, cur_ver[t])
    IN  /\ cpc[t] = "alloc"
        /\ idx < MaxIndex
        /\ lane_next_free_index' =
             [lane_next_free_index EXCEPT ![lane] = @ + mem_threads]
        /\ cur_ver' = [cur_ver EXCEPT ![t] = 0]
        /\ IF ok
           THEN /\ put_index' = [put_index EXCEPT ![t] = idx]
                /\ handed' = handed \union {idx}
                /\ allocations' = allocations + 1
                /\ Goto(t, "write")
           ELSE /\ Goto(t, "idle")
                /\ UNCHANGED laneVars
        /\ UNCHANGED <<resize_state, current_version, previous_version,
                       generation, registered_clients, epoch, clients, shm,
                       viewVars, local_generation, cur_gen>>

\* update_data and write_addr on the entry, in View(t).
PutWrite(t) ==
    /\ cpc[t] = "write"
    /\ put_index' = [put_index EXCEPT ![t] = -1]
    /\ Goto(t, "idle")
    /\ UNCHANGED <<regVars, viewVars, handed, allocations, local_generation,
                   cur_ver, cur_gen>>

\* The process of m dies, and its memory with it.  Its client slot stays
\* active and its count registered.
Crash(m) ==
    /\ cpc[m] # "dead"
    /\ LET Lost(f, v) == [t \in Threads |-> IF ProcOf[t] = m THEN v ELSE f[t]]
       IN  /\ cpc' = Lost(cpc, "dead")
           /\ local_version' = Lost(local_version, 0)
           /\ local_generation' = Lost(local_generation, 0)
           /\ region_base' = Lost(region_base, 0)
           /\ wrappers' = Lost(wrappers, 0)
           /\ mapped' = Lost(mapped, 0)
           /\ client_slot' = Lost(client_slot, 0)
           /\ cur_ver' = Lost(cur_ver, 0)
           /\ cur_gen' = Lost(cur_gen, 0)
           /\ put_index' = Lost(put_index, -1)
    /\ globals' = [globals EXCEPT ![m] = 0]
    /\ UNCHANGED <<regVars, handed, allocations>>

Connect(m) ==
    ConnectRead(m) \/ ConnectRegister(m) \/ ConnectOpen(m) \/ ConnectOpenFails(m)
    \/ ConnectGeneration(m) \/ ConnectAck(m)

maybe_check_version(t) ==
    CheckUnchanged(t) \/ CheckGeneration(t) \/ CheckSameVersion(t)
    \/ CheckOtherVersion(t)

remap_to_current_epoch(t) ==
    RemapUnmap(t) \/ RemapOpen(t) \/ RemapOpenFails(t) \/ RemapGeneration(t)
    \/ RemapAck(t)

Operate(t) ==
    OpReturn(t) \/ AllocEpoch(t) \/ (\E l \in Lanes : AllocIndex(t, l)) \/ PutWrite(t)

ClientNext ==
    \/ \E m \in Mains : Connect(m) \/ Crash(m)
    \/ \E w \in Workers : WorkerStart(w)
    \/ \E t \in OpThreads :
         maybe_check_version(t) \/ remap_to_current_epoch(t) \/ Operate(t)

ClientType ==
    /\ cpc \in [Threads -> ClientPoints]
    /\ local_version \in [Threads -> Nat]
    /\ local_generation \in [Threads -> Nat]
    /\ region_base \in [Threads -> Nat]
    /\ wrappers \in [Threads -> Nat]
    /\ mapped \in [Threads -> Nat]
    /\ client_slot \in [Threads -> 0 .. kMaxClients]
    /\ cur_ver \in [Threads -> Nat]
    /\ cur_gen \in [Threads -> Nat]
    /\ globals \in [Mains -> Nat]
    /\ put_index \in [Threads -> Int]
    /\ handed \subseteq Nat
    /\ allocations \in Nat
=============================================================================
