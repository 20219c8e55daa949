----------------------------- MODULE NumaResize -----------------------------
(***************************************************************************)
(* The resize protocol as a whole: the server's monitor thread and the     *)
(* threads of the client processes, which share nothing but the registry   *)
(* and the regions' names.                                                 *)
(***************************************************************************)
EXTENDS ResizeMonitor, NumaClient

vars == <<regVars, monVars, cliVars>>

Init == RegistryInit /\ MonitorInit /\ ClientInit

Next ==
    \/ MonitorNext /\ UNCHANGED cliVars
    \/ ClientNext /\ UNCHANGED monVars

Spec == Init /\ [][Next]_vars

\* The monitor thread polls for as long as the server runs, and the clock
\* advances.  maybe_start_copying is left out: memory_pressure_ok may refuse
\* for ever.  Nothing is assumed of the clients: they may stop anywhere.
Fairness ==
    /\ WF_vars((CopyStep \/ WaitStep \/ ReclaimStep) /\ UNCHANGED cliVars)
    /\ WF_vars(AckGracePasses /\ UNCHANGED cliVars)
    /\ WF_vars(GcGracePasses /\ UNCHANGED cliVars)

FairSpec == Spec /\ Fairness

-----------------------------------------------------------------------------
\* Every field of the registry, the monitor and the threads has its type; in
\* particular no counter leaves the range of its integer type.
TypeOK == RegistryType /\ MonitorType /\ ClientType

-----------------------------------------------------------------------------
(* Safety. *)

\* Whoever reads current_version finds, at that moment, a linked region and
\* an epoch slot that describes this very version and is published, although
\* slots are reused modulo kMaxEpochSlots and keep their published flag.
CurrentUsable ==
    /\ current_version \in shm
    /\ current_epoch.version = current_version
    /\ current_epoch.published = 1

\* However often creations fail and resizes follow each other, at most one
\* region is linked beside the current one: the memory pressure guard, which
\* budgets for one old and one new region, is enough.
OverlapBounded ==
    /\ Cardinality(shm) <= 2
    /\ Cardinality(srv_maps) <= 2

\* do_copy takes the base it copies from, and the base to unmap later, from
\* srv_state, but sizes, capacities and the name to unlink from the registry.
\* Over resizes and failed creations the two agree: the copy reads the region
\* that is current, and the mapping that goes is the one whose name goes, never
\* the current one.  (The handlers' own pointers follow neither: NoStaleMapping.)
BasesMatchVersions ==
    [][/\ mpc = "create" /\ mpc' = "fill" => srv_region = current_version
       /\ srv_maps \ srv_maps' = shm \ shm'
       /\ current_version' \in srv_maps']_vars

\* A region's name goes only after drain_old has allowed it in the region's
\* own epoch slot, which by then has not been reused, and never while it is
\* current.
UnlinkOnlyDrained ==
    [][\A v \in shm \ shm' :
         /\ v < current_version
         /\ epoch[Slot(v)].version = v
         /\ epoch[Slot(v)].cleanup_allowed = 1]_vars

\* No slot of epoch[] describes its second version yet.  Once one does, a put
\* that took its reference to the slot under the first version is checked
\* against the capacity of a region that is still being built.
EpochsUnwrapped == \A s \in EpochSlots : epoch[s].version < kMaxEpochSlots

\* No index of the packed array is given to two puts, in spite of do_copy
\* resetting the lanes while puts go on: an index at or past the old
\* capacity is refused until the switch.
LaneIndexUnique == EpochsUnwrapped => Cardinality(handed) = allocations

\* Every index given out lies in the part of the array that the current
\* region has, and none of the loaded keys is overwritten.
HandedInCapacity ==
    EpochsUnwrapped =>
      \A i \in handed : NKeys <= i /\ i < current_epoch.num_data_entries

\* A thread never works on a region that the registry has not switched to,
\* and what it has mapped is what its t_region says, except after a remap
\* that failed to open.
ViewNotAhead ==
    \A t \in Threads :
        /\ View(t) <= current_version
        /\ wrappers[t] # 0 =>
             wrappers[t] = mapped[t] /\ wrappers[t] = local_version[t]

(* Refinement. *)

Regions == INSTANCE VersionedRegions
             WITH cur <- current_version, prev <- previous_version, live <- shm

\* The protocol implements the promise of VersionedRegions.
ImplementsRegions == Regions!AbsSpec

(* Liveness, under Fairness. *)

\* Once a copy has begun the store is back to NORMAL in the end, whatever the
\* clients do: dead or silent ones are waited for only so long.
ResizeCompletes == mpc = "create" ~> resize_state = "NORMAL" /\ mpc = "poll"
=============================================================================
