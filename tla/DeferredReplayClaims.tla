------------------------ MODULE DeferredReplayClaims ------------------------
(***************************************************************************)
(* What comments and documents say of deferral, copy and replay and the    *)
(* code does not keep.                                                     *)
(***************************************************************************)
EXTENDS DeferredReplay

\* outback_resize.hh: "After the new region is built and drain begins, they
\* are replayed in order."
ReplayInOrder ==
    /\ Len(replayed) <= Len(accepted)
    /\ \A i \in DOMAIN replayed : replayed[i] = accepted[i]

\* outback_server_numa.hh: while mutations are blocked, "enqueue the insert for
\* later replay rather than writing to the old region".  So the slots of
\* region 1 do not change while the flag is set.
NoSlotWriteWhileBlocked ==
    [][blocked = "yes" /\ 1 \in DOMAIN region /\ 1 \in DOMAIN region'
       => region'[1].bucket = region[1].bucket]_vars

\* outback_resize.hh: "Copy existing packed entries verbatim into the lower
\* half of the new packed array."  So when do_copy is over and nobody wrote
\* meanwhile, the new region has the old entries.
CopyVerbatim ==
    mpc = "poll" /\ resize_state = "READY_TO_SWITCH" /\ ops = 0
    => \A i \in DOMAIN region[pending_old].array :
         region[current].array[i] = region[pending_old].array[i]

\* outback_resize.hh: "The upper half (indices num_data_entries..2x-1) starts
\* zero-initialized [...]; new inserts will be placed there".  So what a replay
\* adds to a slot of the new region leads to the upper half.
ReplayInUpperHalf ==
    [][mpc = "replay_inserts" =>
         \A s \in Slots :
           LET old == region[current].bucket[s]
               new == region'[current].bucket[s]
           IN  new # old /\ new # ZeroCell => 2 * new.addr >= Size(region[current])]_vars

\* memory-bank/10-numa-resizing-plan.md: "replay before final cleanup of old
\* region".  So nothing is queued when the old region goes.
ReplayedBeforeCleanup ==
    [][(pending_old \in DOMAIN region \ DOMAIN region')
       => deferred_inserts = <<>> /\ deferred_deletes = <<>>]_vars

\* memory-bank/10-numa-resizing-plan.md: "prevent SIGBUS / SIGSEGV from stale
\* mappings".  So no handler touches a region after maybe_gc unmapped it.
NoStaleMapping == dead # "fault"
=============================================================================
