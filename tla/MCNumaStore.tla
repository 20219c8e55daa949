----------------------------- MODULE MCNumaStore ----------------------------
(* Small instances of NumaStore for TLC: two slots, three keys of which the
   first two are loaded, two fingerprints and two seeds. *)
EXTENDS NumaStoreClaims, TLC

CONSTANTS ka, kb, kc, t1, t2, p1, p2

ThreeKeys == {ka, kb, kc}
LoadedAB == <<ka, kb>>

\* b and c collide in their fingerprint.
Fingers == (ka :> 1) @@ (kb :> 2) @@ (kc :> 2)

\* Under the first seed a and b have a slot each and c shares that of a; the
\* second seed swaps the slots.
Hash == (0 :> ((ka :> 0) @@ (kb :> 1) @@ (kc :> 0)))
        @@ (1 :> ((ka :> 1) @@ (kb :> 0) @@ (kc :> 1)))

OneThread == {t1}
TwoThreads == {t1, t2}
OneProc == {p1}
TwoProcs == {p1, p2}
Solo == (t1 :> p1)
Apart == (t1 :> p1) @@ (t2 :> p2)
=============================================================================
