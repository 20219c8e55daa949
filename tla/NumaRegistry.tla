---------------------------- MODULE NumaRegistry ----------------------------
(***************************************************************************)
(* The shared registry of the NUMA/CXL transport (numa_transport.hh): the  *)
(* control plane that a server process and its client processes all map.   *)
(* It holds the resize state, the current and previous region version, the *)
(* generation counter that clients poll, the table of epochs, the table of *)
(* clients and the allocation lanes.  The module also holds the one piece  *)
(* of the operating system the protocol leans on: which versioned regions  *)
(* have a name in /dev/shm.                                                *)
(*                                                                         *)
(* A region is known by its version, a thread by its name.  A client slot  *)
(* keeps of its heartbeat timestamp only what the monitor asks of it:      *)
(* "free" (inactive), "fresh" (beaten less than kZombieThresholdNs ago) or *)
(* "stale".                                                                *)
(***************************************************************************)
EXTENDS Integers, FiniteSets

CONSTANTS
    Mains,           \* one thread per client process: the one that connects
    Workers,         \* the other threads of the client processes
    ProcOf,          \* the connecting thread of each thread's process
    OpThreads,       \* the threads that issue numa_* operations
    kMaxEpochSlots,  \* length of epoch[]
    kMaxClients,     \* length of clients[]
    U64Max,          \* the largest uint64_t, where clients_pending_ack wraps
    mem_threads,     \* number of allocation lanes
    NKeys,           \* keys loaded before the server becomes ready
    s_slow, s_stop,  \* resize thresholds, as entry counts
    MaxVersion,      \* bound: no resize starts from this version on
    MaxIndex,        \* bound: no lane counter is advanced from this value on
    MaxGeneration    \* bound: no region creation fails from this value on

Threads == Mains \union Workers

ASSUME ThreadAssumption ==
    /\ Mains \cap Workers = {}
    /\ OpThreads \subseteq Threads
    /\ ProcOf \in [Threads -> Mains]
    /\ \A m \in Mains : ProcOf[m] = m

ASSUME RegistryAssumption ==
    /\ kMaxEpochSlots \in Nat /\ kMaxEpochSlots >= 3
    /\ kMaxClients \in Nat \ {0}
    /\ U64Max \in Nat /\ U64Max > kMaxClients
    /\ mem_threads \in Nat \ {0}
    /\ NKeys \in Nat \ {0}
    /\ s_slow \in Nat /\ s_stop \in Nat
    /\ MaxVersion \in Nat /\ MaxIndex \in Nat /\ MaxGeneration \in Nat

VARIABLES
    resize_state,
    current_version,
    previous_version,
    generation,
    registered_clients,
    epoch,                  \* [slot -> ResizeEpoch]
    clients,                \* [slot -> "free" | "fresh" | "stale"]
    lane_next_free_index,
    shm                     \* versions whose region is linked in /dev/shm

regVars == <<resize_state, current_version, previous_version, generation,
             registered_clients, epoch, clients, lane_next_free_index, shm>>

ResizeState == {"NORMAL", "PRE_RESIZE", "COPYING", "READY_TO_SWITCH",
                "DRAIN_OLD", "GC_PENDING"}

EpochSlots == 0 .. kMaxEpochSlots - 1
ClientSlots == 1 .. kMaxClients
Lanes == 0 .. mem_threads - 1

\* What a slot of epoch[] keeps of a region: its identity, its capacity and
\* the coordination counters.
ResizeEpoch == [version : Nat, num_data_entries : Nat,
                clients_pending_ack : 0 .. U64Max,
                active_readers : Nat, active_writers : Nat,
                published : {0, 1}, cleanup_allowed : {0, 1}]

EmptyEpoch == [version |-> 0, num_data_entries |-> 0,
               clients_pending_ack |-> 0,
               active_readers |-> 0, active_writers |-> 0,
               published |-> 0, cleanup_allowed |-> 0]

\* epoch[v % kMaxEpochSlots] describes version v.
Slot(v) == v % kMaxEpochSlots

current_epoch == epoch[Slot(current_version)]

\* Mutant: the counter is a signed one.
FetchSub1Signed(n) == n - 1

\* fetch_sub(1) on a uint64_t.
FetchSub1(n) == IF n = 0 THEN U64Max ELSE n - 1

\* The initial capacity is twice the number of loaded keys.
packed_entries == 2 * NKeys

\* The registry as the server leaves it when it sets ready: version 1 is
\* published and linked and the lanes start after the loaded keys.
RegistryInit ==
    /\ resize_state = "NORMAL"
    /\ current_version = 1
    /\ previous_version = 0
    /\ generation = 0
    /\ registered_clients = 0
    /\ epoch = [s \in EpochSlots |->
                  IF s = 1 THEN [EmptyEpoch EXCEPT !.version = 1,
                                                   !.num_data_entries = packed_entries,
                                                   !.published = 1]
                  ELSE EmptyEpoch]
    /\ clients = [i \in ClientSlots |-> "free"]
    /\ lane_next_free_index = [l \in Lanes |-> NKeys + l]
    /\ shm = {1}

RegistryType ==
    /\ resize_state \in ResizeState
    /\ current_version \in Nat
    /\ previous_version \in Nat
    /\ generation \in Nat
    /\ registered_clients \in 0 .. kMaxClients
    /\ epoch \in [EpochSlots -> ResizeEpoch]
    /\ clients \in [ClientSlots -> {"free", "fresh", "stale"}]
    /\ lane_next_free_index \in [Lanes -> Nat]
    /\ shm \subseteq Nat
=============================================================================
