---------------------------- MODULE MCNumaResize ----------------------------
(* Small instances of NumaResize for TLC. *)
EXTENDS NumaResizeClaims, TLC

CONSTANTS p1, p2, w1, w2

\* As in client_numa.cc, the connecting thread of a process only connects and
\* its workers operate: two processes, the first with a worker,
TwoMains == {p1, p2}
OneWorker == {w1}
TwoProc == (p1 :> p1) @@ (p2 :> p2) @@ (w1 :> p1)

\* one process with two workers,
OneMain == {p1}
TwoWorkers == {w1, w2}
OneProc == [t \in OneMain \union TwoWorkers |-> p1]

\* one process with one worker,
PairProc == [t \in OneMain \union OneWorker |-> p1]

\* and a process whose connecting thread operates too.
MainAndWorker == {p1, w1}

\* The workers of one process are interchangeable.
WorkerSymmetry == Permutations(TwoWorkers)

\* A thread only ever compares the generation it holds with the registry's,
\* which never goes back: two states that agree on the outcome of that
\* comparison, and on everything else, have the same behaviours.
UpToGenerations ==
    <<regVars, monVars, cpc, viewVars, laneVars, cur_ver,
      [t \in Threads |-> local_generation[t] = generation],
      [t \in Threads |-> cur_gen[t] = generation]>>
=============================================================================
