------------------------------- MODULE KeyBag -------------------------------
(***************************************************************************)
(* What the ordered containers of src/drtmr promise: a bag of keys, or a    *)
(* set when duplicates are refused.  The operations relate the bag b before *)
(* to the bag c after.                                                      *)
(***************************************************************************)
EXTENDS Naturals

CONSTANT Keys
VARIABLES bag,          \* how many times each key is stored
          dups          \* whether a key may be stored twice

\* A container may be loaded with keys when it is made.
Init ==
  /\ dups \in BOOLEAN
  /\ bag \in [Keys -> Nat]
  /\ dups \/ \A k \in Keys : bag[k] <= 1

Insert(b, c, k) == (dups \/ b[k] = 0) /\ c = [b EXCEPT ![k] = @ + 1]

EraseOne(b, c, k) == b[k] > 0 /\ c = [b EXCEPT ![k] = @ - 1]

\* All the keys of an interval at once.
EraseRange(b, c, lo, hi) == c = [k \in Keys |-> IF k \in lo .. hi THEN 0 ELSE b[k]]

Step(b, c) ==
  \/ \E k \in Keys : Insert(b, c, k) \/ EraseOne(b, c, k)
  \/ \E lo, hi \in Keys : EraseRange(b, c, lo, hi)

Next == (\E b \in {bag}, c \in {bag'} : Step(b, c)) /\ UNCHANGED dups

Spec == Init /\ [][Next]_<<bag, dups>>
=============================================================================
