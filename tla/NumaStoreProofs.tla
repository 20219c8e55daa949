--------------------------- MODULE NumaStoreProofs --------------------------
(***************************************************************************)
(* Theorems about NumaStore, for any number of processes, threads, keys,   *)
(* slots, seeds and entries: the row has one writer at a time, its slots   *)
(* never share an entry, and only a put makes its key reachable.           *)
(*                                                                         *)
(* What a writer relies on after it looked at the row is in ThreadInv: the *)
(* entry it is about to link is behind no slot, and the entry it writes to *)
(* holds the key it says.  Nothing of it would survive the steps of other  *)
(* threads but for LockInv: they change the row only under the lock byte.  *)
(***************************************************************************)
EXTENDS NumaStore, FiniteSetTheorems, WellFoundedInduction, TLAPS

\* Most leaves are first-order, so Zenon is tried before the SMT solver.
USE ZenonT(10), SMTT(30)

Inside == {"locked", "write_key", "write_data", "write_slot", "reseed",
           "zero_data", "remove_slot", "unlock"}
Points == Inside \union {"idle", "lock", "primary", "read_key", "read_data", "fallback"}

Types ==
    /\ bucket \in [Slots -> Cell]
    /\ \A s \in Slots : bucket[s].addr \in Indices
    /\ rawArray \in [Indices -> Entry]
    /\ lock \in {0, 1}
    /\ lane_next \in Nat
    /\ seed \in [Procs -> Seeds]
    /\ pc \in [Threads -> Points]
    /\ op \in [Threads -> {"none", "search", "put", "update", "remove"}]
    /\ key \in [Threads -> Keys \union {NoKey}]
    /\ val \in [Threads -> Vals]
    /\ slot \in [Threads -> Slots]
    /\ addr \in [Threads -> Indices]
    /\ scan \in [Threads -> Nat]
    /\ then \in [Threads -> {"none", "unlock", "write_slot", "reseed"}]
    /\ result \in [Threads -> SUBSET Vals]

\* The lock byte is set exactly while one thread is between lock and unlock.
LockInv ==
    /\ \A t \in Threads : pc[t] \in Inside => lock = 1
    /\ lock = 1 => \E t \in Threads : pc[t] \in Inside
    /\ \A t, u \in Threads : pc[t] \in Inside /\ pc[u] \in Inside => t = u

\* The entry behind a slot has been handed out, and behind no other slot.
RowInv ==
    /\ \A s \in Slots : ~Free(bucket, s) => bucket[s].addr < lane_next
    /\ EntriesNotShared

\* The thread will link the entry it writes.
Filling(t) ==
    \/ pc[t] = "write_slot"
    \/ pc[t] \in {"write_key", "write_data"} /\ then[t] = "write_slot"

ThreadInv(t) ==
    /\ pc[t] # "idle" => key[t] \in Keys
    /\ pc[t] \in {"write_key", "write_data"} => then[t] # "none"
    /\ pc[t] \in {"write_key", "write_data", "write_slot"} => op[t] \in {"put", "update"}
    /\ pc[t] = "write_key" /\ op[t] = "update" => rawArray[addr[t]].key = key[t]
    /\ pc[t] \in {"write_data", "write_slot"} => rawArray[addr[t]].key = key[t]
    /\ Filling(t) =>
         /\ op[t] = "put"
         /\ addr[t] < lane_next
         /\ \A s \in Slots : ~Free(bucket, s) => bucket[s].addr # addr[t]

IInv ==
    /\ Types
    /\ LockInv
    /\ RowInv
    /\ \A t \in Threads : ThreadInv(t)

\* The loaded keys sit at different indices below the lane.
LEMMA InitIInv == Init => IInv
<1> SUFFICES ASSUME Init PROVE IInv
    OBVIOUS
<1> DEFINE n == Cardinality(DOMAIN Loaded)
           here(s) == {i \in DOMAIN Loaded : hash[0][Loaded[i]] = s}
           at(s) == CHOOSE j \in here(s) : TRUE
<1>0. /\ n \in Nat /\ n <= num_data_entries /\ DOMAIN Loaded = 1 .. n
      /\ num_data_entries \in Nat \ {0} /\ lane_next = n
      /\ \A i \in 1 .. n : Loaded[i] \in Keys
    BY StoreAssumption DEF Init
<1>1. ASSUME NEW s \in Slots
      PROVE  \/ here(s) = {} /\ bucket[s] = ZeroCell
             \/ /\ at(s) \in here(s) /\ at(s) \in 1 .. n
                /\ bucket[s] = combine(Loaded[at(s)], at(s) - 1)
    BY <1>0 DEF Init
<1>2. ASSUME NEW s \in Slots
      PROVE  /\ bucket[s] \in Cell /\ bucket[s].addr \in Indices
             /\ ~Free(bucket, s) => here(s) # {} /\ bucket[s].addr = at(s) - 1
  <2>1. CASE here(s) = {} /\ bucket[s] = ZeroCell
      BY <1>0, <2>1 DEF ZeroCell, Cell, Indices, Free
  <2>2. CASE /\ at(s) \in here(s) /\ at(s) \in 1 .. n
             /\ bucket[s] = combine(Loaded[at(s)], at(s) - 1)
    <3> HIDE DEF at
    <3>1. at(s) - 1 \in Nat /\ at(s) - 1 \in Indices /\ Loaded[at(s)] \in Keys
        BY <1>0, <2>2 DEF Indices
    <3>2. fingerprint[Loaded[at(s)]] \in Nat
        BY <3>1, BucketAssumption
    <3> QED
        BY <2>2, <3>1, <3>2 DEF combine, Cell, Free
  <2> QED
      BY <1>1, <2>1, <2>2
<1> HIDE DEF here, at, n
<1>3. Types
  <2>1. bucket \in [Slots -> Cell]
      BY <1>2 DEF Init
  <2>2. rawArray \in [Indices -> Entry]
      BY <1>0, BucketAssumption DEF Init, Entry, ZeroEntry, Indices
  <2>3. 0 \in Slots /\ 0 \in Indices /\ 0 \in Seeds /\ 0 \in Vals
      BY <1>0, BucketAssumption DEF Slots, Indices, Seeds
  <2> QED
      BY <1>0, <1>2, <2>1, <2>2, <2>3 DEF Init, Types, Points
<1>4. LockInv
    BY DEF Init, LockInv, Inside
<1>5. RowInv
  <2>1. \A s \in Slots : ~Free(bucket, s) => at(s) \in here(s) /\ at(s) \in 1 .. n
      BY <1>1, <1>2 DEF Free
  <2>2. \A s1, s2 \in Slots : at(s1) \in here(s1) /\ at(s2) \in here(s2) /\ at(s1) = at(s2) => s1 = s2
      BY DEF here
  <2> QED
      BY <1>0, <1>2, <2>1, <2>2 DEF RowInv, EntriesNotShared
<1>6. \A t \in Threads : ThreadInv(t)
    BY DEF Init, ThreadInv, Filling
<1> QED
    BY <1>3, <1>4, <1>5, <1>6 DEF IInv

\* A step within the lock, or outside it, leaves the lock's owner alone.
LEMMA LockKept ==
    ASSUME Types, LockInv, NEW t \in Threads, NEW x,
           pc' = [pc EXCEPT ![t] = x], lock' = lock,
           x \in Inside <=> pc[t] \in Inside
    PROVE  LockInv'
<1>1. \A u \in Threads : pc'[u] \in Inside <=> pc[u] \in Inside
    BY DEF Types
<1> QED
    BY <1>1 DEF LockInv

\* What a thread relies on survives the steps of another.
LEMMA OthersKept ==
    ASSUME IInv, NEW t \in Threads, NEW u \in Threads, u # t,
           pc'[u] = pc[u], op'[u] = op[u], key'[u] = key[u],
           then'[u] = then[u], addr'[u] = addr[u],
           pc[t] \in Inside \/ UNCHANGED <<bucket, rawArray, lane_next>>
    PROVE  ThreadInv(u)'
<1>1. CASE pc[t] \in Inside
  <2>1. pc[u] \notin Inside /\ ThreadInv(u)
      BY <1>1 DEF IInv, LockInv
  <2> QED
      BY <2>1 DEF ThreadInv, Filling, Inside
<1>2. CASE UNCHANGED <<bucket, rawArray, lane_next>>
  <2>1. ThreadInv(u)
      BY DEF IInv
  <2> QED
      BY <1>2, <2>1 DEF ThreadInv, Filling, Free
<1> QED
    BY <1>1, <1>2

\* Case 2 of a put finds a free slot.
LEMMA FirstFree ==
    ASSUME NEW b, \E i \in Slots : Free(b, i)
    PROVE  first_free(b) \in Slots
<1> DEFINE Less == {ss \in Nat \X Nat : ss[1] < ss[2]}
           T == {i \in Slots : Free(b, i)}
<1>1. IsWellFoundedOn(Less, Nat)
    BY NatLessThanWellFounded, Zenon DEF OpToRel
<1>2. T \subseteq Nat /\ T # {}
    BY BucketAssumption DEF Slots
<1>3. PICK x \in T : \A y \in T : ~(<<y, x>> \in Less)
  <2> HIDE DEF T, Less
  <2> QED
      BY <1>1, <1>2, WFMin
<1>4. ASSUME NEW y \in T PROVE x <= y
  <2>1. x \in Nat /\ y \in Nat
      BY <1>2
  <2>2. ~(y < x)
      BY <1>3, <2>1
  <2> QED
      BY <2>1, <2>2
<1> QED
    BY <1>4 DEF first_free

\* An operation begins, and every step of a search: the row stays as it is.
LEMMA ReadSteps ==
    ASSUME IInv, NEW t \in Threads,
           Begin(t) \/ ReadPrimary(t) \/ ReadKey(t) \/ ReadData(t) \/ ReadFallback(t) \/ NotFound(t)
    PROVE  IInv'
<1>0. UNCHANGED <<bucket, rawArray, lock, lane_next, seed>>
    BY DEF Begin, ReadPrimary, ReadKey, ReadData, ReadFallback, NotFound
<1>1. PICK x \in {"idle", "lock", "primary", "read_key", "read_data", "fallback"} :
        pc' = [pc EXCEPT ![t] = x] /\ pc[t] \notin Inside
  <2>1. CASE ReadFallback(t) /\ UNCHANGED pc
      BY <2>1 DEF ReadFallback, Inside, IInv, Types
  <2> QED
      BY <2>1 DEF Begin, ReadPrimary, ReadKey, ReadData, ReadFallback, NotFound, Goto, Inside
<1>2. /\ op' \in [Threads -> {"none", "search", "put", "update", "remove"}]
      /\ key' \in [Threads -> Keys \union {NoKey}] /\ val' \in [Threads -> Vals]
      /\ slot' \in [Threads -> Slots]
      /\ then' \in [Threads -> {"none", "unlock", "write_slot", "reseed"}]
  <2>1. CASE Begin(t)
    <3>1. \A k \in Keys : slot_of(t, k) \in Slots
        BY StoreAssumption, BucketAssumption DEF slot_of, IInv, Types
    <3> QED
        BY <2>1, <3>1 DEF Begin, IInv, Types
  <2>2. CASE ~Begin(t)
      BY <2>2 DEF ReadPrimary, ReadKey, ReadData, ReadFallback, NotFound, locals, IInv, Types
  <2> QED
      BY <2>1, <2>2
<1>3. addr' \in [Threads -> Indices] /\ scan' \in [Threads -> Nat]
  <2>1. 0 \in Indices /\ \A s \in Slots : bucket[s].addr \in Indices /\ s + 1 \in Nat
      BY StoreAssumption, BucketAssumption DEF IInv, Types, Indices, Slots
  <2>2. CASE Begin(t) \/ ReadPrimary(t)
      BY <2>1, <2>2 DEF Begin, ReadPrimary, locals, IInv, Types
  <2>3. CASE ReadFallback(t)
    <3>1. scan' \in [Threads -> Nat]
        BY <2>1, <2>3 DEF ReadFallback, IInv, Types
    <3>2. \/ addr' = addr
          \/ \E a \in Indices : addr' = [addr EXCEPT ![t] = a]
        BY <2>1, <2>3 DEF ReadFallback
    <3> QED
        BY <3>1, <3>2 DEF IInv, Types
  <2>4. CASE ReadKey(t) \/ ReadData(t) \/ NotFound(t)
      BY <2>4 DEF ReadKey, ReadData, NotFound, locals, IInv, Types
  <2> QED
      BY <2>2, <2>3, <2>4
<1>4. result' \in [Threads -> SUBSET Vals]
  <2>1. \A a \in Indices : rawArray[a].data \in Vals
      BY DEF IInv, Types, Entry
  <2> QED
      BY <2>1 DEF Begin, ReadPrimary, ReadKey, ReadData, ReadFallback, NotFound, locals, IInv, Types
<1>5. Types'
    BY <1>0, <1>1, <1>2, <1>3, <1>4 DEF IInv, Types, Points
<1>6. LockInv'
  <2>1. x \notin Inside
      BY <1>1 DEF Inside
  <2> QED
      BY <1>0, <1>1, <2>1, LockKept DEF IInv
<1>7. RowInv'
    BY <1>0 DEF IInv, RowInv, EntriesNotShared, Free
<1>8. ThreadInv(t)'
  <2>1. pc'[t] = x /\ ~Filling(t)'
      BY <1>1 DEF IInv, Types, Filling
  <2>2. pc'[t] # "idle" => key'[t] \in Keys
    <3>1. CASE Begin(t)
        BY <3>1 DEF Begin, IInv, Types
    <3>2. CASE ~Begin(t)
      <4>1. key' = key /\ pc[t] # "idle"
          BY <3>2 DEF ReadPrimary, ReadKey, ReadData, ReadFallback, NotFound, locals
      <4> QED
          BY <4>1 DEF IInv, ThreadInv
    <3> QED
        BY <3>1, <3>2
  <2> QED
      BY <1>1, <2>1, <2>2 DEF ThreadInv
<1>9. ASSUME NEW u \in Threads, u # t PROVE ThreadInv(u)'
  <2>1. pc'[u] = pc[u]
      BY <1>1, <1>9 DEF IInv, Types
  <2>2. op'[u] = op[u] /\ key'[u] = key[u] /\ then'[u] = then[u] /\ addr'[u] = addr[u]
      BY <1>9 DEF Begin, ReadPrimary, ReadKey, ReadData, ReadFallback, NotFound, locals, IInv, Types
  <2> QED
      BY <1>0, <1>9, <2>1, <2>2, OthersKept
<1> QED
    BY <1>5, <1>6, <1>7, <1>8, <1>9 DEF IInv

\* numa_lock_byte and its release.
LEMMA LockSteps ==
    ASSUME IInv, NEW t \in Threads, Lock(t) \/ Unlock(t)
    PROVE  IInv'
<1>0. UNCHANGED <<bucket, rawArray, lane_next, seed, slot, addr, then, result, locals>>
    BY DEF Lock, Unlock
<1>1. /\ UNCHANGED <<op, key, val, scan>>
      /\ \/ pc[t] = "lock" /\ pc' = [pc EXCEPT ![t] = "locked"] /\ lock = 0 /\ lock' = 1
         \/ pc[t] = "unlock" /\ pc' = [pc EXCEPT ![t] = "idle"] /\ lock' = 0
    BY DEF Lock, Unlock, LockFree, Goto, locals
<1>2. Types'
    BY <1>0, <1>1 DEF IInv, Types, Points, Inside
<1>3. LockInv'
  <2>1. \A u \in Threads : u # t => pc'[u] = pc[u]
      BY <1>1 DEF IInv, Types
  <2>2. CASE pc[t] = "lock" /\ pc' = [pc EXCEPT ![t] = "locked"] /\ lock = 0 /\ lock' = 1
    <3>1. pc'[t] = "locked" /\ \A u \in Threads : pc[u] \notin Inside
        BY <2>2 DEF IInv, Types, LockInv
    <3> QED
        BY <2>1, <2>2, <3>1 DEF LockInv, Inside
  <2>3. CASE pc[t] = "unlock" /\ pc' = [pc EXCEPT ![t] = "idle"] /\ lock' = 0
    <3>1. pc'[t] = "idle" /\ \A u \in Threads : u # t => pc[u] \notin Inside
        BY <2>3 DEF IInv, Types, LockInv, Inside
    <3>2. \A u \in Threads : pc'[u] \notin Inside
        BY <2>1, <3>1 DEF Inside
    <3> QED
        BY <2>3, <3>2 DEF LockInv
  <2> QED
      BY <1>1, <2>2, <2>3
<1>4. RowInv'
    BY <1>0 DEF IInv, RowInv, EntriesNotShared, Free
<1>5. ThreadInv(t)'
  <2>1. pc'[t] \in {"locked", "idle"} /\ (pc'[t] = "locked" => pc[t] = "lock")
      BY <1>1 DEF IInv, Types
  <2> QED
      BY <1>1, <2>1 DEF IInv, ThreadInv, Filling
<1>6. ASSUME NEW u \in Threads, u # t PROVE ThreadInv(u)'
  <2>1. pc'[u] = pc[u]
      BY <1>1, <1>6 DEF IInv, Types
  <2> QED
      BY <1>0, <1>1, <1>6, <2>1, OthersKept
<1> QED
    BY <1>2, <1>3, <1>4, <1>5, <1>6 DEF IInv

\* Steps of the lock's owner that leave the row as it is: the checks and the
\* new seed.
LEMMA CheckSteps ==
    ASSUME IInv, NEW t \in Threads, PutCheck(t) \/ UpdateCheck(t) \/ Reseed(t)
    PROVE  IInv'
<1>0. /\ UNCHANGED <<bucket, rawArray, lock, result, op, key, val, scan>>
      /\ pc[t] \in Inside /\ key[t] \in Keys
    BY DEF PutCheck, UpdateCheck, Reseed, locals, Inside, IInv, ThreadInv
<1>1. lane_next' \in Nat /\ lane_next <= lane_next'
    BY DEF PutCheck, UpdateCheck, Reseed, PutFresh, LaneAdvanced, IInv, Types
<1>2. seed' \in [Procs -> Seeds]
  <2>1. \A x \in Seeds : (x + 1) % SeedCount \in Seeds
      BY BucketAssumption DEF Seeds
  <2> QED
      BY <2>1 DEF PutCheck, UpdateCheck, Reseed, IInv, Types
<1>3. slot' \in [Threads -> Slots]
  <2>1. CASE PutCheck(t)
    <3>1. slot_of(t, key[t]) \in Slots
        BY <1>0, StoreAssumption, BucketAssumption DEF slot_of, IInv, Types
    <3>2. target(bucket, key[t], slot_of(t, key[t])) \in Slots
        BY <3>1, FirstFree DEF target, check_slots
    <3> QED
        BY <2>1, <3>2 DEF PutCheck, IInv, Types
  <2>2. CASE ~PutCheck(t)
      BY <2>2 DEF UpdateCheck, Reseed, IInv, Types
  <2> QED
      BY <2>1, <2>2
<1> DEFINE Writing(a, next) ==
        /\ addr' = [addr EXCEPT ![t] = a]
        /\ then' = [then EXCEPT ![t] = next]
        /\ pc' = [pc EXCEPT ![t] = "write_key"]
<1>4. \/ addr' = addr /\ then' = then /\ pc' = [pc EXCEPT ![t] = "unlock"]
      \/ /\ lane_next \in Indices /\ lane_next' = lane_next + 1
         /\ Writing(lane_next, "write_slot") /\ op[t] = "put"
      \/ \E a \in Indices, next \in {"unlock", "reseed"} :
           /\ Writing(a, next) /\ op[t] \in {"put", "update"}
           /\ op[t] = "update" => rawArray[a].key = key[t]
  <2>1. CASE PutCheck(t)
    <3> DEFINE a == bucket[slot_of(t, key[t])].addr
    <3>1. a \in Indices
        BY <1>0, StoreAssumption, BucketAssumption DEF slot_of, IInv, Types
    <3>2. CASE PutFresh(t)
      <4>1. lane_next < num_data_entries => lane_next \in Indices
          BY StoreAssumption DEF Indices, IInv, Types
      <4>2. op[t] = "put"
          BY <2>1 DEF PutCheck
      <4> QED
          BY <3>2, <4>1, <4>2 DEF PutFresh, WriteEntry, Leave, LaneAdvanced, Goto
    <3>3. CASE ~PutFresh(t)
        BY <2>1, <3>1, <3>3 DEF PutCheck, WriteEntry, Leave, Goto
    <3> QED
        BY <3>2, <3>3
  <2>2. CASE UpdateCheck(t)
    <3>1. bucket[slot[t]].addr \in Indices
        BY DEF IInv, Types
    <3> QED
        BY <2>2, <3>1 DEF UpdateCheck, WriteEntry, Leave, Goto, EntryHolds
  <2>3. CASE Reseed(t)
      BY <2>3 DEF Reseed, Goto
  <2> QED
      BY <2>1, <2>2, <2>3
<1>5. PICK x \in {"unlock", "write_key"} : pc' = [pc EXCEPT ![t] = x]
    BY <1>4
<1>6. Types'
  <2>1. /\ addr' \in [Threads -> Indices]
        /\ then' \in [Threads -> {"none", "unlock", "write_slot", "reseed"}]
    <3>1. \/ addr' = addr /\ then' = then
          \/ \E a \in Indices, next \in {"unlock", "write_slot", "reseed"} :
               addr' = [addr EXCEPT ![t] = a] /\ then' = [then EXCEPT ![t] = next]
        BY <1>4
    <3>2. addr' \in [Threads -> Indices]
        BY <3>1 DEF IInv, Types
    <3>3. then' \in [Threads -> {"none", "unlock", "write_slot", "reseed"}]
        BY <3>1 DEF IInv, Types
    <3> QED
        BY <3>2, <3>3
  <2>2. pc' \in [Threads -> Points]
      BY <1>5 DEF IInv, Types, Points, Inside
  <2> QED
      BY <1>0, <1>1, <1>2, <1>3, <2>1, <2>2 DEF IInv, Types
<1>7. LockInv'
  <2>1. x \in Inside
      BY DEF Inside
  <2> QED
      BY <1>0, <1>5, <2>1, LockKept DEF IInv
<1>8. RowInv'
  <2>1. \A s \in Slots : bucket[s].addr \in Nat
      BY DEF IInv, Types, Cell
  <2> QED
      BY <1>0, <1>1, <2>1 DEF IInv, Types, RowInv, EntriesNotShared, Free
<1>9. ThreadInv(t)'
  <2>1. CASE addr' = addr /\ then' = then /\ pc' = [pc EXCEPT ![t] = "unlock"]
      BY <1>0, <2>1 DEF ThreadInv, Filling, IInv, Types
  <2>2. CASE /\ lane_next \in Indices /\ lane_next' = lane_next + 1
             /\ Writing(lane_next, "write_slot") /\ op[t] = "put"
    <3>1. pc'[t] = "write_key" /\ then'[t] = "write_slot" /\ addr'[t] = lane_next
        BY <2>2 DEF IInv, Types
    <3>2. \A s \in Slots : ~Free(bucket, s) => bucket[s].addr # lane_next
        BY DEF IInv, Types, RowInv, Cell
    <3>3. lane_next \in Nat /\ addr'[t] < lane_next'
        BY <2>2, <3>1 DEF IInv, Types
    <3> QED
        BY <1>0, <2>2, <3>1, <3>2, <3>3 DEF ThreadInv, Filling, Free
  <2>3. CASE \E a \in Indices, next \in {"unlock", "reseed"} :
               /\ Writing(a, next) /\ op[t] \in {"put", "update"}
               /\ op[t] = "update" => rawArray[a].key = key[t]
    <3>1. PICK a \in Indices, next \in {"unlock", "reseed"} :
             /\ Writing(a, next) /\ op[t] \in {"put", "update"}
             /\ op[t] = "update" => rawArray[a].key = key[t]
        BY <2>3
    <3>2. pc'[t] = "write_key" /\ then'[t] = next /\ addr'[t] = a
        BY <3>1 DEF IInv, Types
    <3> QED
        BY <1>0, <3>1, <3>2 DEF ThreadInv, Filling
  <2> QED
      BY <1>4, <2>1, <2>2, <2>3
<1>10. ASSUME NEW u \in Threads, u # t PROVE ThreadInv(u)'
  <2>1. pc'[u] = pc[u] /\ then'[u] = then[u] /\ addr'[u] = addr[u]
      BY <1>4, <1>10 DEF IInv, Types
  <2> QED
      BY <1>0, <1>10, <2>1, OthersKept
<1> QED
    BY <1>6, <1>7, <1>8, <1>9, <1>10 DEF IInv

\* The owner writes a word of an entry; slots and lane stay.
LEMMA EntrySteps ==
    ASSUME IInv, NEW t \in Threads,
           WriteKey(t) \/ WriteData(t) \/ RemoveCheck(t) \/ ZeroData(t)
    PROVE  IInv'
<1>0. /\ UNCHANGED <<bucket, lock, lane_next, seed, slot, then, result, op, key, val, scan>>
      /\ pc[t] \in Inside /\ ThreadInv(t) /\ key[t] \in Keys
    BY DEF WriteKey, WriteData, RemoveCheck, ZeroData, locals, Inside, IInv, ThreadInv
<1>1. /\ rawArray' \in [Indices -> Entry]
      /\ pc[t] = "write_key" => rawArray'[addr[t]].key = key[t]
      /\ pc[t] = "write_data" => rawArray'[addr[t]].key = rawArray[addr[t]].key
  <2>0. addr[t] \in Indices /\ val[t] \in Vals /\ 0 \in Vals /\ rawArray \in [Indices -> Entry]
      BY BucketAssumption DEF IInv, Types
  <2>1. CASE WriteKey(t)
      BY <1>0, <2>0, <2>1 DEF WriteKey, SetKey, Entry
  <2>2. CASE WriteData(t)
      BY <2>0, <2>2 DEF WriteData, SetData, Entry
  <2>3. CASE RemoveCheck(t)
      BY <2>0, <2>3 DEF RemoveCheck, SetKey, Entry
  <2>4. CASE ZeroData(t)
      BY <2>0, <2>4 DEF ZeroData, SetData, Entry
  <2> QED
      BY <2>1, <2>2, <2>3, <2>4
<1>2. PICK x \in {"write_data", "write_slot", "unlock", "reseed", "zero_data", "remove_slot"} :
        /\ pc' = [pc EXCEPT ![t] = x]
        /\ x = "write_data" => pc[t] = "write_key" /\ addr' = addr
        /\ x = "write_slot" => pc[t] = "write_data" /\ addr' = addr /\ then[t] = "write_slot"
  <2>1. CASE WriteKey(t)
      BY <2>1 DEF WriteKey, Goto
  <2>2. CASE WriteData(t)
    <3>1. then[t] \in {"unlock", "write_slot", "reseed"}
        BY <1>0, <2>2 DEF WriteData, ThreadInv, IInv, Types
    <3> QED
        BY <2>2, <3>1 DEF WriteData, Goto
  <2>3. CASE RemoveCheck(t) \/ ZeroData(t)
      BY <2>3 DEF RemoveCheck, ZeroData, Goto
  <2> QED
      BY <2>1, <2>2, <2>3
<1>3. addr' \in [Threads -> Indices] /\ \A u \in Threads : u # t => addr'[u] = addr[u]
  <2>1. bucket[slot[t]].addr \in Indices
      BY DEF IInv, Types
  <2> QED
      BY <2>1 DEF WriteKey, WriteData, RemoveCheck, ZeroData, IInv, Types
<1>4. Types'
  <2>1. pc' \in [Threads -> Points]
      BY <1>2 DEF IInv, Types, Points, Inside
  <2> QED
      BY <1>0, <1>1, <1>3, <2>1 DEF IInv, Types
<1>5. LockInv'
  <2>1. x \in Inside
      BY <1>2 DEF Inside
  <2> QED
      BY <1>0, <1>2, <2>1, LockKept DEF IInv
<1>6. RowInv'
    BY <1>0 DEF IInv, RowInv, EntriesNotShared, Free
<1>7. ThreadInv(t)'
  <2>1. pc'[t] = x
      BY <1>2 DEF IInv, Types
  <2>2. CASE x \notin {"write_data", "write_slot"}
      BY <1>0, <2>1, <2>2 DEF ThreadInv, Filling
  <2>3. CASE x = "write_data"
      BY <1>0, <1>1, <1>2, <2>1, <2>3 DEF ThreadInv, Filling, Free
  <2>4. CASE x = "write_slot"
      BY <1>0, <1>1, <1>2, <2>1, <2>4 DEF ThreadInv, Filling, Free
  <2> QED
      BY <2>2, <2>3, <2>4
<1>8. ASSUME NEW u \in Threads, u # t PROVE ThreadInv(u)'
  <2>1. pc'[u] = pc[u]
      BY <1>2, <1>8 DEF IInv, Types
  <2> QED
      BY <1>0, <1>3, <1>8, <2>1, OthersKept
<1> QED
    BY <1>4, <1>5, <1>6, <1>7, <1>8 DEF IInv

\* The owner links an entry nobody has, or frees a slot.
LEMMA SlotSteps ==
    ASSUME IInv, NEW t \in Threads, WriteSlot(t) \/ RemoveSlot(t)
    PROVE  IInv'
<1>0. /\ UNCHANGED <<rawArray, lock, lane_next, seed, slot, addr, then, result, op, key, val, scan>>
      /\ pc' = [pc EXCEPT ![t] = "unlock"] /\ pc[t] \in Inside
      /\ ThreadInv(t) /\ key[t] \in Keys
    BY DEF WriteSlot, RemoveSlot, Goto, locals, Inside, IInv, ThreadInv
<1>1. PICK cell \in Cell :
        /\ bucket' = [bucket EXCEPT ![slot[t]] = cell]
        /\ cell.addr \in Indices
        /\ \/ cell.length = 0
           \/ /\ cell.addr < lane_next
              /\ \A s \in Slots : ~Free(bucket, s) => bucket[s].addr # cell.addr
  <2>1. CASE WriteSlot(t)
    <3> DEFINE new == combine(key[t], addr[t])
    <3>1. addr[t] \in Indices /\ addr[t] \in Nat /\ fingerprint[key[t]] \in Nat
        BY <1>0, BucketAssumption, StoreAssumption DEF IInv, Types, Indices
    <3>2. new \in Cell /\ new.addr = addr[t]
        BY <3>1 DEF combine, Cell
    <3>3. addr[t] < lane_next /\ \A s \in Slots : ~Free(bucket, s) => bucket[s].addr # addr[t]
        BY <1>0, <2>1 DEF WriteSlot, ThreadInv, Filling
    <3>4. bucket' = [bucket EXCEPT ![slot[t]] = new]
        BY <2>1 DEF WriteSlot
    <3> HIDE DEF new
    <3> QED
        BY <3>1, <3>2, <3>3, <3>4
  <2>2. CASE RemoveSlot(t)
    <3>1. ZeroCell \in Cell /\ ZeroCell.addr \in Indices /\ ZeroCell.length = 0
        BY StoreAssumption DEF ZeroCell, Cell, Indices
    <3> QED
        BY <2>2, <3>1 DEF RemoveSlot
  <2> QED
      BY <2>1, <2>2
<1>2. \A s \in Slots : bucket'[s] = IF s = slot[t] THEN cell ELSE bucket[s]
    BY <1>1 DEF IInv, Types
<1>3. Types'
  <2>1. bucket' \in [Slots -> Cell] /\ \A s \in Slots : bucket'[s].addr \in Indices
      BY <1>1, <1>2 DEF IInv, Types
  <2>2. pc' \in [Threads -> Points]
      BY <1>0 DEF IInv, Types, Points, Inside
  <2> QED
      BY <1>0, <2>1, <2>2 DEF IInv, Types
<1>4. LockInv'
  <2>1. "unlock" \in Inside
      BY DEF Inside
  <2> QED
      BY <1>0, <2>1, LockKept DEF IInv
<1>5. RowInv'
    BY <1>0, <1>1, <1>2 DEF IInv, RowInv, EntriesNotShared, Free
<1>6. ThreadInv(t)'
  <2>1. pc'[t] = "unlock"
      BY <1>0 DEF IInv, Types
  <2> QED
      BY <1>0, <2>1 DEF ThreadInv, Filling
<1>7. ASSUME NEW u \in Threads, u # t PROVE ThreadInv(u)'
  <2>1. pc'[u] = pc[u]
      BY <1>0, <1>7 DEF IInv, Types
  <2> QED
      BY <1>0, <1>7, <2>1, OthersKept
<1> QED
    BY <1>3, <1>4, <1>5, <1>6, <1>7 DEF IInv

\* Every step of every thread keeps the invariant.
LEMMA NextIInv == IInv /\ [Next]_vars => IInv'
<1> SUFFICES ASSUME IInv, [Next]_vars PROVE IInv'
    OBVIOUS
<1>1. CASE \E t \in Threads : Begin(t) \/ Search(t)
    BY <1>1, ReadSteps DEF Search
<1>2. CASE \E t \in Threads : Write(t)
    BY <1>2, LockSteps, CheckSteps, EntrySteps, SlotSteps DEF Write
<1>3. CASE UNCHANGED vars
  <2>1. Types' /\ LockInv' /\ RowInv'
      BY <1>3 DEF vars, IInv, Types, LockInv, RowInv, EntriesNotShared, Free
  <2>2. \A t \in Threads : ThreadInv(t)'
      BY <1>3 DEF vars, IInv, ThreadInv, Filling, Free
  <2> QED
      BY <2>1, <2>2 DEF IInv
<1> QED
    BY <1>1, <1>2, <1>3 DEF Next

\* The invariant holds in every state.
LEMMA IInvHolds == Spec => []IInv
    BY InitIInv, NextIInv, PTL DEF Spec

\* The row has one writer at a time, its lock byte is set while it has one, and
\* no address leads past the array.
THEOREM OneWriter == Spec => []TypeOK
<1>1. IInv => TypeOK
  <2> SUFFICES ASSUME IInv PROVE TypeOK
      OBVIOUS
  <2>1. \A t \in Threads : t \in Holding <=> pc[t] \in Inside
      BY DEF Holding, Inside
  <2>2. Cardinality(Holding) = lock
    <3>1. CASE lock = 0
      <4>1. Holding = {}
          BY <2>1, <3>1 DEF IInv, LockInv, Holding
      <4> QED
          BY <3>1, <4>1, FS_EmptySet
    <3>2. CASE lock = 1
      <4>1. PICK t \in Threads : pc[t] \in Inside
          BY <3>2 DEF IInv, LockInv
      <4>2. Holding = {t}
          BY <2>1, <4>1 DEF IInv, LockInv, Holding
      <4> QED
          BY <3>2, <4>2, FS_Singleton
    <3> QED
        BY <3>1, <3>2 DEF IInv, Types
  <2> QED
      BY <2>2 DEF IInv, Types, TypeOK
<1> QED
    BY <1>1, IInvHolds, PTL

\* Two slots never lead to the same entry.
THEOREM SlotsKeepEntriesApart == Spec => []EntriesNotShared
<1>1. IInv => EntriesNotShared
    BY DEF IInv, RowInv
<1> QED
    BY <1>1, IInvHolds, PTL

\* A key becomes reachable only by a put of that key.
THEOREM OnlyPutsAddHolds == Spec => OnlyPutsAdd
<1> DEFINE Allowed ==
        \A k \in Keys :
          ~Reachable(bucket, rawArray, k) /\ Reachable(bucket', rawArray', k)
          => \E t \in Threads : op[t] = "put" /\ key[t] = k
                                /\ pc[t] \in {"write_key", "write_slot"}
<1>1. ASSUME IInv, [Next]_vars PROVE [Allowed]_vars
  <2>1. CASE UNCHANGED <<bucket, rawArray>>
      BY <2>1 DEF Reachable, Free
  <2>2. ASSUME NEW t \in Threads, WriteKey(t) PROVE Allowed
    <3>1. /\ bucket' = bucket /\ addr[t] \in Indices /\ key[t] \in Keys
          /\ op[t] = "put" \/ rawArray[addr[t]].key = key[t]
          /\ pc[t] = "write_key"
        BY <1>1, <2>2 DEF WriteKey, IInv, Types, ThreadInv
    <3>2. \A a \in Indices : rawArray'[a].key = IF a = addr[t] THEN key[t] ELSE rawArray[a].key
        BY <1>1, <2>2 DEF WriteKey, SetKey, IInv, Types, Entry
    <3>3. \A s \in Slots : bucket[s].addr \in Indices
        BY <1>1 DEF IInv, Types
    <3> QED
        BY <3>1, <3>2, <3>3 DEF Reachable, Free
  <2>3. ASSUME NEW t \in Threads, WriteData(t) \/ ZeroData(t) PROVE Allowed
    <3>1. bucket' = bucket /\ \A a \in Indices : rawArray'[a].key = rawArray[a].key
        BY <1>1, <2>3 DEF WriteData, ZeroData, SetData, IInv, Types, Entry
    <3>2. \A s \in Slots : bucket[s].addr \in Indices
        BY <1>1 DEF IInv, Types
    <3> QED
        BY <3>1, <3>2 DEF Reachable, Free
  <2>4. ASSUME NEW t \in Threads, WriteSlot(t) PROVE Allowed
    <3>1. /\ rawArray' = rawArray /\ op[t] = "put" /\ rawArray[addr[t]].key = key[t]
          /\ pc[t] = "write_slot"
        BY <1>1, <2>4 DEF WriteSlot, IInv, ThreadInv, Filling
    <3>2. \A s \in Slots : bucket'[s] = IF s = slot[t] THEN combine(key[t], addr[t]) ELSE bucket[s]
        BY <1>1, <2>4 DEF WriteSlot, IInv, Types
    <3>3. combine(key[t], addr[t]).addr = addr[t]
        BY DEF combine
    <3>4. ASSUME NEW k \in Keys, ~Reachable(bucket, rawArray, k), Reachable(bucket', rawArray', k)
          PROVE  key[t] = k
      <4>1. PICK s \in Slots : bucket'[s].length # 0 /\ rawArray[bucket'[s].addr].key = k
          BY <3>1, <3>4 DEF Reachable, Free
      <4>2. s = slot[t]
          BY <3>2, <3>4, <4>1 DEF Reachable, Free
      <4> QED
          BY <3>1, <3>2, <3>3, <4>1, <4>2
    <3> QED
        BY <3>1, <3>4
  <2>5. ASSUME NEW t \in Threads, RemoveCheck(t) PROVE Allowed
    <3>1. bucket' = bucket /\ \A a \in Indices : rawArray'[a].key \in {rawArray[a].key, NoKey}
      <4>1. bucket' = bucket /\ rawArray \in [Indices -> Entry]
          BY <1>1, <2>5 DEF RemoveCheck, IInv, Types
      <4>2. rawArray' = rawArray \/ \E b : rawArray' = [rawArray EXCEPT ![b].key = NoKey]
          BY <2>5 DEF RemoveCheck, SetKey
      <4> QED
          BY <4>1, <4>2 DEF Entry
    <3>2. (\A s \in Slots : bucket[s].addr \in Indices) /\ NoKey \notin Keys
        BY <1>1, BucketAssumption DEF IInv, Types
    <3> QED
        BY <3>1, <3>2 DEF Reachable, Free
  <2>6. ASSUME NEW t \in Threads, RemoveSlot(t) PROVE Allowed
    <3>1. rawArray' = rawArray /\ ZeroCell.length = 0
        BY <2>6 DEF RemoveSlot, ZeroCell
    <3>2. \A s \in Slots : bucket'[s] = IF s = slot[t] THEN ZeroCell ELSE bucket[s]
        BY <1>1, <2>6 DEF RemoveSlot, IInv, Types
    <3> QED
        BY <3>1, <3>2 DEF Reachable, Free
  <2>7. ASSUME NEW t \in Threads,
               Begin(t) \/ Search(t) \/ Lock(t) \/ PutCheck(t) \/ UpdateCheck(t) \/ Reseed(t) \/ Unlock(t)
        PROVE  UNCHANGED <<bucket, rawArray>>
      BY <2>7 DEF Begin, Search, ReadPrimary, ReadKey, ReadData, ReadFallback, NotFound,
                  Lock, PutCheck, UpdateCheck, Reseed, Unlock
  <2> QED
      BY <1>1, <2>1, <2>2, <2>3, <2>4, <2>5, <2>6, <2>7 DEF Next, Write
<1> QED
    BY <1>1, IInvHolds, PTL DEF Spec, OnlyPutsAdd
=============================================================================
