----------------------------- MODULE LudoBucket -----------------------------
(***************************************************************************)
(* One bucket of the table (LudoBuckets, ludo_slot.hh) and the entries of  *)
(* the packed array it leads to (PackedData, packed_data.hh), as pure      *)
(* operators.  A bucket has SLOTS_NUM_BUCKET cells of 64 bits: a flag, a   *)
(* fingerprint, a length and an address, which is an index of the packed   *)
(* array.  Which slot a key belongs to follows from the bucket's seed.     *)
(*                                                                         *)
(* The hash functions are constants.  A length is 0 or 1, because the code *)
(* only asks whether it is 0.  NoKey is the key of an entry of zeroes.     *)
(***************************************************************************)
EXTENDS Integers, FiniteSets

CONSTANTS
    Keys, NoKey, Vals,
    SLOTS_NUM_BUCKET,
    SeedCount,       \* how many values a seed has, 256 in a uint8_t
    fingerprint,     \* [Keys -> Nat]
    hash             \* [Seeds -> [Keys -> Slots]], the top bits of h(key)

Slots == 0 .. SLOTS_NUM_BUCKET - 1
Seeds == 0 .. SeedCount - 1

ASSUME BucketAssumption ==
    /\ SLOTS_NUM_BUCKET \in Nat \ {0}
    /\ SeedCount \in Nat \ {0}
    /\ NoKey \notin Keys
    /\ 0 \in Vals
    /\ fingerprint \in [Keys -> Nat]
    /\ hash \in [Seeds -> [Keys -> Slots]]

Cell == [length : {0, 1}, finger : Nat, addr : Nat]
ZeroCell == [length |-> 0, finger |-> 0, addr |-> 0]

Entry == [key : Keys \union {NoKey}, data : Vals]
ZeroEntry == [key |-> NoKey, data |-> 0]

\* combine: a fresh cell for key that leads to addr.
combine(key, addr) == [length |-> 1, finger |-> fingerprint[key], addr |-> addr]

Free(bucket, s) == bucket[s].length = 0

\* 0: the slot is a good position; 1: it may hold key; 2: another slot is
\* free; 3: the bucket is full.
check_slots(bucket, key, s) ==
    CASE Free(bucket, s) -> 0
      [] ~Free(bucket, s) /\ bucket[s].finger = fingerprint[key] -> 1
      [] ~Free(bucket, s) /\ bucket[s].finger # fingerprint[key] ->
           IF \E i \in Slots : Free(bucket, i) THEN 2 ELSE 3

\* The first free slot, where case 2 of a put goes.
first_free(bucket) ==
    CHOOSE s \in Slots : Free(bucket, s) /\ \A i \in Slots : Free(bucket, i) => s <= i

\* Where a put of key goes: its own slot, or the first free one.
target(bucket, key, s) == IF check_slots(bucket, key, s) = 2 THEN first_free(bucket) ELSE s

\* key can be reached through some slot of the bucket.
Reachable(bucket, array, key) ==
    \E s \in Slots : ~Free(bucket, s) /\ array[bucket[s].addr].key = key
=============================================================================
