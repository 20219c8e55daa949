-------------------------- MODULE VersionedRegions --------------------------
(***************************************************************************)
(* What the resize protocol promises, without saying how: a store always   *)
(* has one current region, clients can always open it, a successor is      *)
(* prepared before it becomes current, and at most one other region is     *)
(* kept, the predecessor until it is retired.                              *)
(***************************************************************************)
EXTENDS Naturals

VARIABLES
    cur,    \* the current version
    prev,   \* the predecessor not yet retired, or 0
    live    \* versions that can be opened

absVars == <<cur, prev, live>>

AbsInit == cur = 1 /\ prev = 0 /\ live = {1}

\* A successor becomes available.
Prepare ==
    /\ prev = 0
    /\ live = {cur}
    /\ \E v \in live' : v > cur /\ live' = {cur, v}
    /\ UNCHANGED <<cur, prev>>

\* The prepared successor becomes the current region.
Switch ==
    /\ prev = 0
    /\ \E v \in live : v > cur /\ cur' = v
    /\ prev' = cur
    /\ UNCHANGED live

\* The predecessor goes.
Retire ==
    /\ prev # 0
    /\ live' = live \ {prev}
    /\ prev' = 0
    /\ UNCHANGED cur

AbsNext == Prepare \/ Switch \/ Retire

AbsSpec == AbsInit /\ [][AbsNext]_absVars
=============================================================================
