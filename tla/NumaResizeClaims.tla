-------------------------- MODULE NumaResizeClaims --------------------------
(***************************************************************************)
(* What comments and documents of the repository say of the resize         *)
(* protocol and the code does not keep.  TLC finds a run of NumaResize     *)
(* against each of them.                                                   *)
(***************************************************************************)
EXTENDS NumaResize

Quiet == resize_state = "NORMAL" /\ mpc = "poll"

Connected(t) == cpc[t] \notin ConnectPoints \union {"dead"}

\* numa_transport.hh: generation is "incremented on every state transition or
\* epoch publication so clients can poll cheaply without reading all epoch
\* metadata".  So a thread that holds the registry's generation while no
\* resize is under way works on the current region.
GenerationTracksVersion ==
    \A t \in OpThreads :
        Quiet /\ cpc[t] = "idle" /\ local_generation[t] = generation
        => View(t) = current_version

\* outback_resize.hh: "old region kept alive until all clients ack and grace
\* period expires".  So when the count of missing acks is down to 0 by itself,
\* no connected thread still works on another region than the current one.
AckBarrier ==
    Waiting /\ pending = 0 =>
        \A t \in OpThreads : Connected(t) /\ client_slot[ProcOf[t]] # 0
                             => View(t) = current_version

\* The plan initialises clients_pending_ack to registered_clients and has
\* clients decrement it: it counts clients that are still missing.
AckCountIsMissingClients ==
    Waiting => pending <= registered_clients

\* outback_resize.hh: "Grace window: force-continue after kAckGraceMs".  So
\* the forced way out is taken only when this resize's own wait has lasted
\* that long.
GraceWindowPerResize ==
    [][WaitForce => ack_wait_of = current_version]_vars

\* outback_client_numa.hh: "Wrappers are owned exclusively by this thread's
\* t_region; safe to delete".  So no other thread is in the middle of an
\* operation on wrappers that their owner has deleted.
WrappersExclusive ==
    \A t \in Workers :
        cpc[t] \in {"op", "alloc", "write"} /\ wrappers[t] = 0
        => wrappers[ProcOf[t]] = globals[ProcOf[t]]

\* How many entries the region of version v has.
RegionEntries[v \in 0 .. MaxVersion + 2] ==
    IF v <= 1 THEN packed_entries
    ELSE 2 * RegionEntries[IF (v - 1) % kMaxEpochSlots = 0 THEN v - 2 ELSE v - 1]

\* outback_resize.hh: the upper half of the doubled array starts empty and
\* "new inserts will be placed there via the reset lane_next_free_index
\* values".  So an index a put is about to write lies in the array of the
\* region it writes to.
PutIndexInRegion ==
    \A t \in OpThreads :
        cpc[t] = "write" => put_index[t] < RegionEntries[View(t)]

\* server_numa.cc: s_slow_pct is the "Fraction of packed_entries that triggers
\* PRE_RESIZE".  So a resize is triggered only when the lanes have reached
\* that fraction of the current capacity.
TriggerIsFraction ==
    [][maybe_trigger_pre_resize =>
         \E l \in Lanes : lane_next_free_index[l] * packed_entries
                            >= s_slow * current_epoch.num_data_entries]_vars
=============================================================================
