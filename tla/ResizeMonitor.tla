--------------------------- MODULE ResizeMonitor ---------------------------
(***************************************************************************)
(* The server's background thread that resizes the store                   *)
(* (ResizeOrchestrator, outback_resize.hh).  It polls the registry and     *)
(* moves it around the cycle                                               *)
(*   NORMAL, PRE_RESIZE, COPYING, READY_TO_SWITCH, DRAIN_OLD, GC_PENDING.  *)
(*                                                                         *)
(* Each poll of check_state is one action, except do_copy and maybe_gc,    *)
(* which are cut at every store that a client can observe: mpc is the      *)
(* point reached, "poll" between two calls of check_state.  set_state is   *)
(* one step: nobody but the monitor reads resize_state.                    *)
(***************************************************************************)
EXTENDS NumaRegistry

VARIABLES
    mpc,              \* control point of the monitor thread
    new_ver,          \* local of do_copy, 0 outside
    pending_old_ver,  \* pending_old_ver_: the region being drained, or 0
    srv_region,       \* version srv_state->shared_region_base points into
    pending_old_base, \* pending_old_base_: version it points into, or 0
    srv_maps,         \* versions the server process has mapped
    ack_wait_start,   \* ack_wait_start_: "unset", "running" or "elapsed"
    ack_wait_of,      \* the version whose wait started that timer, or 0
    gc_start          \* gc_start_time_: "unset", "running" or "elapsed"

srvVars == <<srv_region, pending_old_base>>

monVars == <<mpc, new_ver, pending_old_ver, srvVars, srv_maps,
             ack_wait_start, ack_wait_of, gc_start>>

MonitorInit ==
    /\ mpc = "poll"
    /\ new_ver = 0
    /\ pending_old_ver = 0
    /\ srv_region = 1
    /\ pending_old_base = 0
    /\ srv_maps = {1}
    /\ ack_wait_start = "unset"
    /\ ack_wait_of = 0
    /\ gc_start = "unset"

set_state(s) ==
    /\ resize_state' = s
    /\ generation' = generation + 1

\* The fill estimate: the furthest lane has reached n.
LanesReach(n) == \E l \in Lanes : lane_next_free_index[l] >= n

\* Mutant: the version is not advanced.
NextVersionSame(v) == IF v % kMaxEpochSlots = 0 THEN v + 1 ELSE v

\* The version after v, leaving out the numbers that fall on slot 0.
NextVersion(v) ==
    IF (v + 1) % kMaxEpochSlots = 0 THEN v + 2 ELSE v + 1

maybe_trigger_pre_resize ==
    /\ mpc = "poll"
    /\ resize_state = "NORMAL"
    /\ s_slow # 0
    /\ LanesReach(s_slow)
    /\ set_state("PRE_RESIZE")
    /\ UNCHANGED <<current_version, previous_version, registered_clients,
                   epoch, clients, lane_next_free_index, shm, monVars>>

\* maybe_start_copying and the head of do_copy.  memory_pressure_ok is the
\* machine's choice: the action may be left out for any number of polls.
maybe_start_copying ==
    /\ mpc = "poll"
    /\ resize_state = "PRE_RESIZE"
    /\ s_slow # 0
    /\ LanesReach(s_stop)
    /\ current_version < MaxVersion
    /\ set_state("COPYING")
    /\ new_ver' = NextVersion(current_version)
    /\ mpc' = "create"
    /\ UNCHANGED <<current_version, previous_version, registered_clients,
                   epoch, clients, lane_next_free_index, shm,
                   pending_old_ver, srvVars, srv_maps, ack_wait_start,
                   ack_wait_of, gc_start>>

\* create_shared_numa_region fails: in shm_open, or after it, when the name
\* stays behind.
CopyCreateFails ==
    /\ mpc = "create"
    /\ generation < MaxGeneration
    /\ shm' \in {shm, shm \union {new_ver}}
    /\ set_state("NORMAL")
    /\ new_ver' = 0
    /\ mpc' = "poll"
    /\ UNCHANGED <<current_version, previous_version, registered_clients,
                   epoch, clients, lane_next_free_index, pending_old_ver,
                   srvVars, srv_maps, ack_wait_start, ack_wait_of, gc_start>>

\* The region is created and the payload copied into it.
CopyCreate ==
    /\ mpc = "create"
    /\ shm' = shm \union {new_ver}
    /\ srv_maps' = srv_maps \union {new_ver}
    /\ mpc' = "fill"
    /\ UNCHANGED <<resize_state, current_version, previous_version, generation,
                   registered_clients, epoch, clients, lane_next_free_index,
                   new_ver, pending_old_ver, srvVars, ack_wait_start,
                   ack_wait_of, gc_start>>

\* The metadata of the new epoch, twice as large.  The slot's published flag
\* is not cleared: it keeps what an earlier user of the slot left there.
CopyFillEpoch ==
    /\ mpc = "fill"
    /\ epoch' = [epoch EXCEPT ![Slot(new_ver)] =
                   [version |-> new_ver,
                    num_data_entries |-> 2 * current_epoch.num_data_entries,
                    clients_pending_ack |-> registered_clients,
                    active_readers |-> 0, active_writers |-> 0,
                    published |-> epoch[Slot(new_ver)].published,
                    cleanup_allowed |-> 0]]
    /\ mpc' = "lanes"
    /\ UNCHANGED <<resize_state, current_version, previous_version, generation,
                   registered_clients, clients, lane_next_free_index, shm,
                   new_ver, pending_old_ver, srvVars, srv_maps,
                   ack_wait_start, ack_wait_of, gc_start>>

\* Mutant: the lanes restart after the keys loaded at the start.
LaneRestartLoaded(l) == NKeys + l

\* New entries go to the upper half of the doubled array.
LaneRestart(l) == current_epoch.num_data_entries + l

CopyResetLanes ==
    /\ mpc = "lanes"
    /\ lane_next_free_index' = [l \in Lanes |-> LaneRestart(l)]
    /\ mpc' = "publish"
    /\ UNCHANGED <<resize_state, current_version, previous_version, generation,
                   registered_clients, epoch, clients, shm,
                   new_ver, pending_old_ver, srvVars, srv_maps,
                   ack_wait_start, ack_wait_of, gc_start>>

CopyPublish ==
    /\ mpc = "publish"
    /\ epoch' = [epoch EXCEPT ![Slot(new_ver)].published = 1]
    /\ mpc' = "switch"
    /\ UNCHANGED <<resize_state, current_version, previous_version, generation,
                   registered_clients, clients, lane_next_free_index, shm,
                   new_ver, pending_old_ver, srvVars, srv_maps,
                   ack_wait_start, ack_wait_of, gc_start>>

CopySwitch ==
    /\ mpc = "switch"
    /\ previous_version' = current_version
    /\ current_version' = new_ver
    /\ mpc' = "bump"
    /\ UNCHANGED <<resize_state, generation, registered_clients, epoch,
                   clients, lane_next_free_index, shm, new_ver,
                   pending_old_ver, srvVars, srv_maps, ack_wait_start,
                   ack_wait_of, gc_start>>

CopyBumpGeneration ==
    /\ mpc = "bump"
    /\ generation' = generation + 1
    /\ mpc' = "ready"
    /\ UNCHANGED <<resize_state, current_version, previous_version,
                   registered_clients, epoch, clients, lane_next_free_index,
                   shm, new_ver, pending_old_ver, srvVars, srv_maps,
                   ack_wait_start, ack_wait_of, gc_start>>

CopySetReady ==
    /\ mpc = "ready"
    /\ set_state("READY_TO_SWITCH")
    /\ mpc' = "handover"
    /\ UNCHANGED <<current_version, previous_version, registered_clients,
                   epoch, clients, lane_next_free_index, shm, new_ver,
                   pending_old_ver, srvVars, srv_maps, ack_wait_start,
                   ack_wait_of, gc_start>>

\* Mutant: the old region is noted after the switch of srv_state.
RegionToDrainNew == current_version

\* pending_old_ver_ = old_ver, the version before the switch.
RegionToDrain == previous_version

\* Mutant: the base is noted after srv_state has moved.
BaseToUnmapNew == new_ver

\* pending_old_base_ = srv_state_->shared_region_base.
BaseToUnmap == srv_region

\* The tail of do_copy: remember the old region, point the server's state at
\* the new one.
CopyHandover ==
    /\ mpc = "handover"
    /\ pending_old_ver' = RegionToDrain
    /\ pending_old_base' = BaseToUnmap
    /\ srv_region' = new_ver
    /\ gc_start' = "unset"
    /\ new_ver' = 0
    /\ mpc' = "poll"
    /\ UNCHANGED <<regVars, srv_maps, ack_wait_start, ack_wait_of>>

Waiting == mpc = "poll" /\ resize_state = "READY_TO_SWITCH"

pending == current_epoch.clients_pending_ack

zombies == Cardinality({i \in ClientSlots : clients[i] = "stale"})

\* Mutant: drain_old is skipped when everybody has acknowledged.
WaitAllAckedNoDrain ==
    /\ Waiting
    /\ pending = 0
    /\ set_state("GC_PENDING")
    /\ gc_start' = "running"
    /\ UNCHANGED <<current_version, previous_version, registered_clients,
                   epoch, clients, lane_next_free_index, shm, mpc, new_ver,
                   pending_old_ver, srvVars, srv_maps, ack_wait_start,
                   ack_wait_of>>

\* The ways out of wait_for_acks_or_timeout.  Only the last one stops the
\* grace timer.
WaitAllAcked ==
    /\ Waiting
    /\ pending = 0
    /\ set_state("DRAIN_OLD")
    /\ UNCHANGED <<current_version, previous_version, registered_clients,
                   epoch, clients, lane_next_free_index, shm, monVars>>

WaitOnlyZombies ==
    /\ Waiting
    /\ pending # 0
    /\ pending <= zombies
    /\ epoch' = [epoch EXCEPT ![Slot(current_version)].clients_pending_ack = 0]
    /\ set_state("DRAIN_OLD")
    /\ UNCHANGED <<current_version, previous_version, registered_clients,
                   clients, lane_next_free_index, shm, monVars>>

WaitStartTimer ==
    /\ Waiting
    /\ pending > zombies
    /\ ack_wait_start = "unset"
    /\ ack_wait_start' = "running"
    /\ ack_wait_of' = current_version
    /\ UNCHANGED <<regVars, mpc, new_ver, pending_old_ver, srvVars,
                   srv_maps, gc_start>>

\* Mutant: somebody must be a zombie for the grace window to end.
GraceOverZombies == ack_wait_start = "elapsed" /\ zombies > 0

\* elapsed > kAckGraceMs.
GraceOver == ack_wait_start = "elapsed"

WaitForce ==
    /\ Waiting
    /\ pending > zombies
    /\ GraceOver
    /\ epoch' = [epoch EXCEPT ![Slot(current_version)].clients_pending_ack = 0]
    /\ set_state("DRAIN_OLD")
    /\ ack_wait_start' = "unset"
    /\ ack_wait_of' = 0
    /\ UNCHANGED <<current_version, previous_version, registered_clients,
                   clients, lane_next_free_index, shm, mpc, new_ver,
                   pending_old_ver, srvVars, srv_maps, gc_start>>

\* drain_old; the replay of the deferred queues is in module DeferredReplay.
drain_old ==
    /\ mpc = "poll"
    /\ resize_state = "DRAIN_OLD"
    /\ pending_old_ver > 0 =>
         epoch[Slot(pending_old_ver)].active_writers = 0
    /\ epoch' = IF pending_old_ver > 0
                THEN [epoch EXCEPT ![Slot(pending_old_ver)].cleanup_allowed = 1]
                ELSE epoch
    /\ gc_start' = "running"
    /\ set_state("GC_PENDING")
    /\ UNCHANGED <<current_version, previous_version, registered_clients,
                   clients, lane_next_free_index, shm, mpc, new_ver,
                   pending_old_ver, srvVars, srv_maps, ack_wait_start,
                   ack_wait_of>>

\* The region whose name maybe_gc unlinks.
Reclaimed == pending_old_ver

\* Mutant: the old region is forgotten instead of unmapped and unlinked.
maybe_gc_forgets ==
    /\ mpc = "poll"
    /\ resize_state = "GC_PENDING"
    /\ gc_start = "elapsed"
    /\ pending_old_ver > 0 =>
         epoch[Slot(pending_old_ver)].active_readers = 0
    /\ pending_old_base' = 0
    /\ pending_old_ver' = 0
    /\ previous_version' = 0
    /\ generation' = generation + 1
    /\ gc_start' = "unset"
    /\ mpc' = "gc_done"
    /\ UNCHANGED <<resize_state, current_version, registered_clients, epoch,
                   clients, lane_next_free_index, new_ver, srv_region,
                   ack_wait_start, ack_wait_of, shm, srv_maps>>

\* maybe_gc up to its own generation bump ...
maybe_gc ==
    /\ mpc = "poll"
    /\ resize_state = "GC_PENDING"
    /\ gc_start = "elapsed"
    /\ pending_old_ver > 0 =>
         epoch[Slot(pending_old_ver)].active_readers = 0
    /\ srv_maps' = srv_maps \ {pending_old_base}
    /\ pending_old_base' = 0
    /\ shm' = shm \ {Reclaimed}
    /\ pending_old_ver' = 0
    /\ previous_version' = 0
    /\ generation' = generation + 1
    /\ gc_start' = "unset"
    /\ mpc' = "gc_done"
    /\ UNCHANGED <<resize_state, current_version, registered_clients, epoch,
                   clients, lane_next_free_index, new_ver, srv_region,
                   ack_wait_start, ack_wait_of>>

\* ... and its last line.
GcSetNormal ==
    /\ mpc = "gc_done"
    /\ set_state("NORMAL")
    /\ mpc' = "poll"
    /\ UNCHANGED <<current_version, previous_version, registered_clients,
                   epoch, clients, lane_next_free_index, shm, new_ver,
                   pending_old_ver, srvVars, srv_maps, ack_wait_start,
                   ack_wait_of, gc_start>>

\* The clock: a running timer passes its limit, a heartbeat grows older than
\* kZombieThresholdNs.
AckGracePasses ==
    /\ ack_wait_start = "running"
    /\ ack_wait_start' = "elapsed"
    /\ UNCHANGED <<regVars, mpc, new_ver, pending_old_ver, srvVars,
                   srv_maps, ack_wait_of, gc_start>>

GcGracePasses ==
    /\ gc_start = "running"
    /\ gc_start' = "elapsed"
    /\ UNCHANGED <<regVars, mpc, new_ver, pending_old_ver, srvVars,
                   srv_maps, ack_wait_start, ack_wait_of>>

HeartbeatAges(i) ==
    /\ clients[i] = "fresh"
    /\ clients' = [clients EXCEPT ![i] = "stale"]
    /\ UNCHANGED <<resize_state, current_version, previous_version, generation,
                   registered_clients, epoch, lane_next_free_index, shm,
                   monVars>>

CopyStep ==
    CopyCreateFails \/ CopyCreate \/ CopyFillEpoch \/ CopyResetLanes
    \/ CopyPublish \/ CopySwitch \/ CopyBumpGeneration \/ CopySetReady
    \/ CopyHandover

WaitStep == WaitAllAcked \/ WaitOnlyZombies \/ WaitStartTimer \/ WaitForce

ReclaimStep == drain_old \/ maybe_gc \/ GcSetNormal

ClockStep ==
    \/ AckGracePasses
    \/ GcGracePasses
    \/ \E i \in ClientSlots : HeartbeatAges(i)

MonitorNext ==
    \/ maybe_trigger_pre_resize \/ maybe_start_copying
    \/ CopyStep \/ WaitStep \/ ReclaimStep \/ ClockStep

MonitorPoints == {"poll", "create", "fill", "lanes", "publish", "switch",
                  "bump", "ready", "handover", "gc_done"}

MonitorType ==
    /\ mpc \in MonitorPoints
    /\ new_ver \in Nat
    /\ pending_old_ver \in Nat
    /\ srv_region \in Nat
    /\ pending_old_base \in Nat
    /\ srv_maps \subseteq Nat
    /\ ack_wait_start \in {"unset", "running", "elapsed"}
    /\ ack_wait_of \in Nat
    /\ gc_start \in {"unset", "running", "elapsed"}
=============================================================================
