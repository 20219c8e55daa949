-------------------------- MODULE MCDeferredReplay --------------------------
(* Small instances of DeferredReplay for TLC: two slots, of which the first
   is loaded with a; b belongs to the second, c shares the slot of a. *)
EXTENDS DeferredReplayClaims, TLC

CONSTANTS ka, kb, kc, t1, t2

TwoKeys == {ka, kb}
ThreeKeys == {ka, kb, kc}
LoadedA == <<ka>>
Fingers == (ka :> 1) @@ (kb :> 2) @@ (kc :> 2)
Hash == (0 :> ((ka :> 0) @@ (kb :> 1) @@ (kc :> 0)))
FingersTwo == (ka :> 1) @@ (kb :> 2)
HashTwo == (0 :> ((ka :> 0) @@ (kb :> 1)))

OneThread == {t1}
TwoThreads == {t1, t2}
ThreadSymmetry == Permutations(TwoThreads)
=============================================================================
