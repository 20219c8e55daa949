--------------------------- MODULE RaceHashProofs ---------------------------
(***************************************************************************)
(* Proofs about the RACE baseline, for a table of any size, any number of  *)
(* slots, keys and threads.                                                *)
(*                                                                         *)
(*   - Where a key is kept: buckets come in groups of three, main, spare,  *)
(*     main, and a client reads one main bucket and the spare bucket       *)
(*     beside it with a single address (ReadsMainAndSpare).                *)
(*   - What stale write-backs of any number of clients leave of a bucket   *)
(*     (SlotsFillInOrder, SlotsStayHome), from the invariant IInv.         *)
(*   - With one thread that writes and any number that search: what an     *)
(*     insert has placed stays, and a search under way does not miss it    *)
(*     (InsertsStayReachable, SearchesFindInserted), from ReachInv.        *)
(***************************************************************************)
EXTENDS RaceHash, FiniteSetTheorems, SequenceTheorems, WellFoundedInduction, TLAPS

\* Most leaves are first-order, so Zenon is tried before the SMT solver.
USE ZenonT(10), SMTT(30)

\* The main bucket of a hash value is the first or the third of a whole group,
\* so the clip at nsize - 1 is never taken.
LEMMA MainBucket ==
    ASSUME nsize \in Nat, nsize >= 2, NEW h \in 0 .. msize - 1
    PROVE  \E q \in Nat :
             \/ h = 2 * q /\ hash_to_cuckoo_index(h) = 3 * q /\ 3 * q + 1 < nsize
             \/ h = 2 * q + 1 /\ hash_to_cuckoo_index(h) = 3 * q + 2 /\ 3 * q + 2 < nsize
<1> DEFINE q == h \div 2
<1>1. h \in Nat /\ h + 1 <= msize /\ msize \in Nat /\ 3 * msize <= 2 * nsize
  <2>1. msize \in Nat /\ 3 * msize <= nsize * 2
      BY DEF msize
  <2> QED
      BY <2>1
<1>2. /\ q \in Nat
      /\ \/ h = 2 * q /\ h % 2 = 0
         \/ h = 2 * q + 1 /\ h % 2 = 1
    BY <1>1
<1>3. CASE h = 2 * q /\ h % 2 = 0
  <2>1. 3 * q + 1 < nsize
      BY <1>1, <1>2, <1>3
  <2>2. hash_to_cuckoo_index(h) = 3 * q
      BY <1>2, <1>3, <2>1 DEF hash_to_cuckoo_index
  <2> QED
      BY <1>2, <1>3, <2>1, <2>2
<1>4. CASE h = 2 * q + 1 /\ h % 2 = 1
  <2>1. 3 * q + 2 < nsize
      BY <1>1, <1>2, <1>4
  <2>2. hash_to_cuckoo_index(h) = 3 * q + 2
      BY <1>2, <1>4 DEF hash_to_cuckoo_index
  <2> QED
      BY <1>2, <1>4, <2>1, <2>2
<1> QED
    BY <1>2, <1>3, <1>4

\* The -1 of spare_of and the exception of spare_bucket never occur: the two
\* adjacent buckets that remote_lookup names are in the table, and are the main
\* bucket of the key and its spare bucket, in one of the two orders.
THEOREM ReadsMainAndSpare ==
    ASSUME nsize \in Nat, nsize >= 2, NEW hf, NEW k, hf[k].seed \in Nat
    PROVE  LET b == cuckoo_hash(hf, k)[1]
               r == remote_lookup(hf, k)
           IN  /\ {r[1], r[2]} = {b, spare_bucket(b)}
               /\ b # spare_bucket(b)
               /\ r[1] \in Buckets /\ r[2] \in Buckets
<1> DEFINE h == hf[k].seed % msize
           b == hash_to_cuckoo_index(h)
<1>1. msize \in Nat /\ msize >= 1
    BY DEF msize
<1>2. h \in 0 .. msize - 1
    BY <1>1
<1>3. cuckoo_hash(hf, k)[1] = b
    BY DEF cuckoo_hash
<1> HIDE DEF h
<1>4. PICK q \in Nat :
        \/ b = 3 * q /\ 3 * q + 1 < nsize
        \/ b = 3 * q + 2 /\ 3 * q + 2 < nsize
    BY <1>2, MainBucket
<1> HIDE DEF b
<1>5. CASE b = 3 * q /\ 3 * q + 1 < nsize
  <2>1. spare_of(b) = b + 1 /\ spare_bucket(b) = b + 1
      BY <1>5 DEF spare_of, spare_bucket
  <2>2. remote_lookup(hf, k) = <<b, b + 1>>
      BY <1>3, <1>5, <2>1 DEF remote_lookup
  <2> QED
      BY <1>3, <1>5, <2>1, <2>2 DEF Buckets
<1>6. CASE b = 3 * q + 2 /\ 3 * q + 2 < nsize
  <2>1. spare_of(b) = b - 1 /\ spare_bucket(b) = b - 1
      BY <1>6 DEF spare_of, spare_bucket
  <2>2. remote_lookup(hf, k) = <<b - 1, b>>
      BY <1>3, <1>6, <2>1 DEF remote_lookup
  <2> QED
      BY <1>3, <1>6, <2>1, <2>2 DEF Buckets
<1> QED
    BY <1>4, <1>5, <1>6

(***************************************************************************)
(* What the state is made of.                                              *)
(***************************************************************************)
Fps == {0} \cup {hf[k].fp : hf \in HashChoices, k \in Keys}
Names == Keys \cup {"none"}
SlotSet == [occ : BOOLEAN, fp : Fps, addr : Addrs, key : Names]
BucketSet == [1..SLOTS -> SlotSet]
EntrySet == [key : Names, data : Names]

Points == {"idle", "read", "pick", "fetch", "match", "compose", "store", "write",
           "pdaddr", "entry", "bump"}
ThreadSet == [op : {"none", "search", "insert", "update"}, key : Names, pc : Points,
              buf : Seq(BucketSet), at : Nat, entry : EntrySet, addr : Addrs,
              must : BOOLEAN, found : BOOLEAN]

Busy == {t \in Threads : thr[t].pc # "idle"}

\* Every operation counts in ops when it begins and in num at most once, when
\* it ends: num stays inside the array.
TypeInv ==
    /\ hashOf \in HashChoices
    /\ table \in [Buckets -> BucketSet]
    /\ packed \in [Addrs -> EntrySet]
    /\ thr \in [Threads -> ThreadSet]
    /\ num \in Nat /\ ops \in 0..MaxOps
    /\ num + Cardinality(Busy) <= ops
    /\ done \subseteq NewKeys
    /\ loaded \in (-1)..Len(ExistKeys)

\* Filled from the first slot on, and for keys that may live in bucket b.
Ordered(bucket) == \A s \in 1..(SLOTS - 1) : bucket[s + 1].occ => bucket[s].occ
Housed(b, bucket) ==
    \A s \in 1..SLOTS : bucket[s].occ =>
        /\ bucket[s].key \in Keys
        /\ \E i \in 1..4 : Candidates(hashOf, bucket[s].key)[i] = b

\* How far a thread with record r is, and with which operation.
StageInv(r) ==
    /\ r.pc = "idle" => r.buf = <<>>
    /\ r.pc = "read" => Len(r.buf) \in {0, 1}
    /\ r.pc \notin {"idle", "read"} => Len(r.buf) = 2
    /\ r.pc = "write" => r.at \in {1, 2}
    /\ r.pc # "idle" => r.key \in Keys /\ (r.op = "insert" => r.key \in NewKeys)
    /\ r.pc \in {"match", "compose", "write", "pdaddr", "entry", "bump"} => r.op = "insert"
    /\ r.pc \in {"pick", "fetch"} => r.op # "insert"
    /\ r.pc = "store" => r.op # "search"

\* The copies it may write back are as sound as the buckets they came from.
CopyInv(r) ==
    \A i \in 1..Len(r.buf) :
        Ordered(r.buf[i]) /\ Housed(remote_lookup(hashOf, r.key)[i], r.buf[i])

TableInv == \A b \in Buckets : Ordered(table[b]) /\ Housed(b, table[b])

IInv == TypeInv /\ TableInv /\ \A t \in Threads : StageInv(thr[t]) /\ CopyInv(thr[t])

(***************************************************************************)
(* The operators.                                                          *)
(***************************************************************************)
\* The least-number principle.
LEMMA NatMin ==
    ASSUME NEW T, T \subseteq Nat, T # {}
    PROVE  \E x \in T : \A y \in T : x <= y
<1> DEFINE R == OpToRel(<, Nat)
<1>1. IsWellFoundedOn(R, Nat)
    BY NatLessThanWellFounded, Zenon
<1>2. \A x, y \in Nat : x < y => <<x, y>> \in R
    BY DEF OpToRel
<1> HIDE DEF R
<1>3. PICK x \in T : \A y \in T : ~(<<y, x>> \in R)
    BY <1>1, WFMin
<1>4. \A y \in T : x \in Nat /\ y \in Nat /\ ~(y < x)
    BY <1>2, <1>3
<1> QED
    BY <1>4

\* A main bucket and its spare bucket are in the table.
LEMMA InTable ==
    ASSUME nsize \in Nat, nsize >= 2, NEW n \in Nat
    PROVE  /\ hash_to_cuckoo_index(n % msize) \in Buckets
           /\ spare_bucket(hash_to_cuckoo_index(n % msize)) \in Buckets
<1> DEFINE h == n % msize
           b == hash_to_cuckoo_index(h)
<1>1. msize \in Nat /\ msize >= 1
    BY DEF msize
<1>2. h \in 0 .. msize - 1
    BY <1>1
<1> HIDE DEF h
<1>3. \E q \in Nat : \/ b = 3 * q /\ 3 * q + 1 < nsize
                     \/ b = 3 * q + 2 /\ 3 * q + 2 < nsize
    BY <1>2, MainBucket
<1> HIDE DEF b
<1>4. b \in Int /\ 0 <= b /\ b <= nsize - 1
    BY <1>3
<1>5. spare_bucket(b) \in Int /\ 0 <= spare_bucket(b) /\ spare_bucket(b) <= nsize - 1
    BY <1>3, <1>4 DEF spare_bucket, spare_of
<1> QED
    BY <1>4, <1>5 DEF Buckets, b, h

\* The buckets a key may live in are in the table, ...
LEMMA CandidatesInTable ==
    ASSUME Setting, NEW hf \in HashChoices, NEW k \in Keys, NEW i \in 1..4
    PROVE  Candidates(hf, k)[i] \in Buckets
<1>1. hf[k].seed \in Nat /\ hf[k].hash \in Nat /\ nsize \in Nat /\ nsize >= 2
    BY DEF Setting
<1> DEFINE b == hash_to_cuckoo_index(hf[k].seed % msize)
           c == hash_to_cuckoo_index(hf[k].hash % msize)
<1>2. b \in Buckets /\ spare_bucket(b) \in Buckets
    BY <1>1, InTable
<1>3. c \in Buckets /\ spare_bucket(c) \in Buckets
    BY <1>1, InTable
<1>4. Candidates(hf, k) = <<b, c, spare_bucket(b), spare_bucket(c)>>
    BY DEF Candidates, cuckoo_hash
<1> HIDE DEF b, c
<1> QED
    BY <1>2, <1>3, <1>4

\* ... and the two that clients read are among them.
LEMMA GroupOfKey ==
    ASSUME Setting, NEW hf \in HashChoices, NEW k \in Keys
    PROVE  /\ \A i \in 1..2 : remote_lookup(hf, k)[i] \in Buckets
           /\ remote_lookup(hf, k)[1] # remote_lookup(hf, k)[2]
           /\ \A i \in 1..2 : \E j \in 1..4 :
                Candidates(hf, k)[j] = remote_lookup(hf, k)[i]
<1> DEFINE b == cuckoo_hash(hf, k)[1]
           r == remote_lookup(hf, k)
<1>1. /\ {r[1], r[2]} = {b, spare_bucket(b)}
      /\ b # spare_bucket(b)
      /\ r[1] \in Buckets /\ r[2] \in Buckets
    BY ReadsMainAndSpare DEF Setting
<1>2. Candidates(hf, k)[1] = b /\ Candidates(hf, k)[3] = spare_bucket(b)
    BY DEF Candidates
<1> HIDE DEF b, r
<1>3. \A i \in 1..2 : r[i] \in {b, spare_bucket(b)} /\ r[i] \in Buckets
    BY <1>1
<1>4. r[1] # r[2]
    BY <1>1
<1> QED
    BY <1>2, <1>3, <1>4 DEF r

\* Filling the first free slot of a bucket.
LEMMA FillFirst ==
    ASSUME Setting, hashOf \in HashChoices, NEW bucket \in BucketSet, NEW b,
           Ordered(bucket), Housed(b, bucket),
           NEW k \in Keys, NEW a \in Addrs, \E j \in 1..4 : Candidates(hashOf, k)[j] = b,
           NEW f \in 1..SLOTS, \A s \in 1..(f - 1) : bucket[s].occ
    PROVE  LET new == [bucket EXCEPT ![f] = Filled(hashOf, k, a)]
           IN  new \in BucketSet /\ Ordered(new) /\ Housed(b, new)
<1> DEFINE e == Filled(hashOf, k, a)
           new == [bucket EXCEPT ![f] = e]
<1>1. e \in SlotSet /\ e.occ /\ e.key = k
    BY DEF Filled, SlotSet, Fps, Names
<1> HIDE DEF e
<1>2. new \in BucketSet
    BY <1>1 DEF BucketSet
<1>3. new[f] = e /\ \A s \in 1..SLOTS : s # f => new[s] = bucket[s]
    BY DEF BucketSet
<1> HIDE DEF new
<1>4. Ordered(new)
  <2> SUFFICES ASSUME NEW s \in 1..(SLOTS - 1), new[s + 1].occ
               PROVE  new[s].occ
      BY DEF Ordered
  <2>1. SLOTS \in Nat /\ s \in 1..SLOTS /\ s + 1 \in 1..SLOTS /\ f \in Nat
      BY DEF Setting
  <2>2. CASE s = f
      BY <1>1, <1>3, <2>2
  <2>3. CASE s + 1 = f
    <3>1. s \in 1..(f - 1) /\ s # f
        BY <2>1, <2>3
    <3> QED
        BY <1>3, <2>1, <3>1
  <2>4. CASE s # f /\ s + 1 # f
      BY <1>3, <2>1, <2>4 DEF Ordered
  <2> QED
      BY <2>2, <2>3, <2>4
<1>5. Housed(b, new)
    BY <1>1, <1>3 DEF Housed
<1> QED
    BY <1>2, <1>4, <1>5 DEF new, e

\* A position of the buffer is a place in one of its two buckets.
LEMMA PositionParts ==
    ASSUME Setting, NEW p \in Positions
    PROVE  /\ BucketAt(p) \in 1..2 /\ PlaceAt(p) \in 1..SLOTS
           /\ p = (BucketAt(p) - 1) * SLOTS + PlaceAt(p)
<1>0. SLOTS \in Nat /\ SLOTS > 0 /\ p \in Nat /\ 1 <= p /\ p <= 2 * SLOTS
    BY DEF Setting, Positions
<1> DEFINE q == (p - 1) \div SLOTS
           r == (p - 1) % SLOTS
<1>1. q \in Int /\ r \in 0 .. SLOTS - 1 /\ p - 1 = q * SLOTS + r
    BY <1>0, Z3
<1> HIDE DEF q, r
<1>2. q = 0 \/ q = 1
  <2>1. q * SLOTS < 2 * SLOTS /\ q * SLOTS > (-1) * SLOTS
      BY <1>0, <1>1
  <2>2. ~(q >= 2)
      BY <1>0, <1>1, <2>1, Z3
  <2>3. ~(q <= -1)
      BY <1>0, <1>1, <2>1, Z3
  <2> QED
      BY <1>1, <2>2, <2>3
<1>3. BucketAt(p) = q + 1 /\ PlaceAt(p) = r + 1
    BY DEF BucketAt, PlaceAt, q, r
<1> QED
    BY <1>0, <1>1, <1>2, <1>3

\* Every place in the buffer has a position.
LEMMA PositionOf ==
    ASSUME Setting, NEW i \in 1..2, NEW s \in 1..SLOTS
    PROVE  \E p \in Positions : /\ BucketAt(p) = i /\ PlaceAt(p) = s
                                 /\ p = (i - 1) * SLOTS + s
<1> DEFINE p == (i - 1) * SLOTS + s
<1>0. SLOTS \in Nat /\ SLOTS > 0 /\ s \in Nat /\ 1 <= s /\ s <= SLOTS /\ (i = 1 \/ i = 2)
    BY DEF Setting
<1>1. p \in Positions
    BY <1>0 DEF Positions
<1> DEFINE j == BucketAt(p)
           u == PlaceAt(p)
<1>2. j \in 1..2 /\ u \in 1..SLOTS /\ p = (j - 1) * SLOTS + u
    BY <1>1, PositionParts
<1>3. (i - 1) * SLOTS + s = (j - 1) * SLOTS + u
    BY <1>2
<1> HIDE DEF j, u
<1>4. j = i /\ u = s
    BY <1>0, <1>2, <1>3
<1> QED
    BY <1>1, <1>4 DEF j, u

\* The server fills the first free slot of the first bucket that has one.
LEMMA InsertSound ==
    ASSUME Setting, hashOf \in HashChoices, table \in [Buckets -> BucketSet],
           \A b \in Buckets : Ordered(table[b]) /\ Housed(b, table[b]),
           NEW k \in Keys, NEW a \in Addrs
    PROVE  LET new == insert(table, hashOf, k, a)
           IN  /\ new \in [Buckets -> BucketSet]
               /\ \A b \in Buckets : Ordered(new[b]) /\ Housed(b, new[b])
<1> DEFINE cand == Candidates(hashOf, k)
           Open == {i \in 1..4 : FreeSlots(table[cand[i]]) # {}}
           i == CHOOSE i \in Open : \A j \in Open : i <= j
           b == cand[i]
           f == FirstFree(table[b])
           new == insert(table, hashOf, k, a)
<1>1. CASE Open = {}
  <2>1. new = table
      BY <1>1 DEF insert
  <2> QED
      BY <2>1
<1>2. CASE Open # {}
  <2>1. \E j \in Open : \A l \in Open : j <= l
    <3>1. Open \subseteq Nat
        OBVIOUS
    <3> HIDE DEF Open
    <3> QED
        BY <1>2, <3>1, NatMin
  <2>2. i \in Open
      BY <2>1
  <2>3. new = [table EXCEPT ![b][f] = Filled(hashOf, k, a)]
      BY <1>2 DEF insert
  <2>4. i \in 1..4 /\ FreeSlots(table[b]) # {}
      BY <2>2
  <2> HIDE DEF i, new
  <2>5. b \in Buckets
      BY <2>4, CandidatesInTable
  <2>6. \E s \in FreeSlots(table[b]) : \A x \in FreeSlots(table[b]) : s <= x
    <3>1. FreeSlots(table[b]) \subseteq Nat
        BY DEF FreeSlots
    <3> QED
        BY <2>4, <3>1, NatMin
  <2>7. f \in FreeSlots(table[b]) /\ \A x \in FreeSlots(table[b]) : f <= x
      BY <2>6 DEF FirstFree
  <2> HIDE DEF f
  <2>8. f \in 1..SLOTS /\ \A s \in 1..(f - 1) : table[b][s].occ
    <3>1. f \in 1..SLOTS /\ SLOTS \in Nat
        BY <2>7 DEF FreeSlots, Setting
    <3>2. ASSUME NEW s \in 1..(f - 1), ~table[b][s].occ PROVE FALSE
      <4>1. s \in 1..SLOTS /\ ~(f <= s)
          BY <3>1
      <4> QED
          BY <2>7, <3>2, <4>1 DEF FreeSlots
    <3> QED
        BY <3>1, <3>2
  <2> DEFINE n == [table[b] EXCEPT ![f] = Filled(hashOf, k, a)]
  <2>9. n \in BucketSet /\ Ordered(n) /\ Housed(b, n)
    <3>1. table[b] \in BucketSet /\ Ordered(table[b]) /\ Housed(b, table[b])
        BY <2>5
    <3>2. \E j \in 1..4 : Candidates(hashOf, k)[j] = b
        BY <2>4
    <3> HIDE DEF b
    <3> QED
        BY <2>8, <3>1, <3>2, FillFirst
  <2>10. new = [table EXCEPT ![b] = n]
      BY <2>3
  <2> HIDE DEF n, b
  <2> QED
      BY <2>5, <2>9, <2>10 DEF new
<1> QED
    BY <1>1, <1>2

\* A client fills the first free slot of the first bucket of its copy that has
\* one.
LEMMA ChoiceSound ==
    ASSUME Setting, NEW buf \in Seq(BucketSet), Len(buf) = 2, FreePositions(buf) # {}
    PROVE  LET p == FreeChoice(buf)
           IN  /\ BucketAt(p) \in 1..2 /\ PlaceAt(p) \in 1..SLOTS
               /\ ~buf[BucketAt(p)][PlaceAt(p)].occ
               /\ \A s \in 1..(PlaceAt(p) - 1) : buf[BucketAt(p)][s].occ
<1> DEFINE p == FreeChoice(buf)
           i == BucketAt(p)
           f == PlaceAt(p)
<1>1. FreePositions(buf) \subseteq Nat
    BY DEF FreePositions, Positions
<1>2. \E x \in FreePositions(buf) : \A y \in FreePositions(buf) : x <= y
    BY <1>1, NatMin
<1>3. p \in FreePositions(buf) /\ \A y \in FreePositions(buf) : p <= y
    BY <1>2 DEF FreeChoice
<1> HIDE DEF p
<1>4. p \in Positions /\ ~buf[i][f].occ
    BY <1>3 DEF FreePositions, SlotAt
<1>5. i \in 1..2 /\ f \in 1..SLOTS /\ p = (i - 1) * SLOTS + f
    BY <1>4, PositionParts
<1> HIDE DEF i, f
<1>6. ASSUME NEW s \in 1..(f - 1), ~buf[i][s].occ PROVE FALSE
  <2>1. SLOTS \in Nat /\ s \in 1..SLOTS /\ s < f /\ s \in Nat /\ f \in Nat
      BY <1>5 DEF Setting
  <2>2. PICK q \in Positions : BucketAt(q) = i /\ PlaceAt(q) = s /\ q = (i - 1) * SLOTS + s
      BY <1>5, <2>1, PositionOf
  <2>3. q \in FreePositions(buf)
      BY <1>6, <2>2 DEF FreePositions, SlotAt
  <2>4. p <= q
      BY <1>3, <2>3
  <2> QED
      BY <1>5, <2>1, <2>2, <2>4
<1> QED
    BY <1>4, <1>5, <1>6 DEF i, f, p

(***************************************************************************)
(* The steps of any number of threads.                                     *)
(***************************************************************************)
\* What a thread with record r counts for in Busy.
Weight(r) == IF r.pc = "idle" THEN 0 ELSE 1

\* How many operations are under way when one thread goes on to record r.
LEMMA BusyCount ==
    ASSUME Setting, NEW t \in Threads, NEW r, thr'[t] = r,
           \A u \in Threads : u # t => thr'[u] = thr[u]
    PROVE  /\ Cardinality(Busy) \in Nat /\ Cardinality(Busy') \in Nat
           /\ Cardinality(Busy') + Weight(thr[t]) = Cardinality(Busy) + Weight(r)
           /\ thr[t].pc # "idle" => Cardinality(Busy) >= 1
<1>1. IsFiniteSet(Busy) /\ IsFiniteSet(Busy')
  <2>1. Busy \subseteq Threads /\ Busy' \subseteq Threads
      BY DEF Busy
  <2> QED
      BY <2>1, FS_Subset DEF Setting
<1>2. Cardinality(Busy) \in Nat /\ Cardinality(Busy') \in Nat
    BY <1>1, FS_CardinalityType
<1>4. thr[t].pc # "idle" => Cardinality(Busy) >= 1
  <2>1. Cardinality(Busy) = 0 <=> Busy = {}
      BY <1>1, FS_EmptySet
  <2> QED
      BY <1>2, <2>1 DEF Busy
<1>5. CASE thr[t].pc = "idle" /\ r.pc # "idle"
  <2>1. Busy' = Busy \cup {t} /\ t \notin Busy
      BY <1>5 DEF Busy
  <2>2. Cardinality(Busy') = Cardinality(Busy) + 1
      BY <1>1, <2>1, FS_AddElement
  <2> QED
      BY <1>2, <1>4, <1>5, <2>2 DEF Weight
<1>6. CASE thr[t].pc # "idle" /\ r.pc = "idle"
  <2>1. Busy' = Busy \ {t} /\ t \in Busy
      BY <1>6 DEF Busy
  <2>2. Cardinality(Busy') = Cardinality(Busy) - 1
      BY <1>1, <2>1, FS_RemoveElement
  <2> QED
      BY <1>2, <1>4, <1>6, <2>2 DEF Weight
<1>7. CASE (thr[t].pc = "idle") = (r.pc = "idle")
  <2>1. Busy' = Busy
      BY <1>7 DEF Busy
  <2> QED
      BY <1>2, <1>4, <1>7, <2>1 DEF Weight
<1> QED
    BY <1>5, <1>6, <1>7

\* What copies are worth does not change.
LEMMA CopyKept ==
    ASSUME NEW u \in Threads, hashOf' = hashOf, CopyInv(thr'[u])
    PROVE  CopyInv(thr[u])'
<1> SUFFICES ASSUME NEW i \in 1..Len(thr'[u].buf)
             PROVE  /\ Ordered(thr'[u].buf[i])
                    /\ \A s \in 1..SLOTS : thr'[u].buf[i][s].occ =>
                         /\ thr'[u].buf[i][s].key \in Keys
                         /\ \E j \in 1..4 :
                              Candidates(hashOf', thr'[u].buf[i][s].key)[j]
                                = remote_lookup(hashOf', thr'[u].key)[i]
    BY DEF CopyInv, Ordered, Housed
<1>1. /\ Ordered(thr'[u].buf[i])
      /\ Housed(remote_lookup(hashOf, thr'[u].key)[i], thr'[u].buf[i])
    BY DEF CopyInv
<1>2. Housed(remote_lookup(hashOf', thr'[u].key)[i], thr'[u].buf[i])
    BY <1>1
<1> QED
    BY <1>1, <1>2 DEF Housed

\* A step outside the threads.
LEMMA ThreadsKept ==
    ASSUME IInv, hashOf' = hashOf, thr' = thr, TypeInv', TableInv'
    PROVE  IInv'
<1> SUFFICES ASSUME NEW u \in Threads
             PROVE  StageInv(thr[u])' /\ CopyInv(thr[u])'
    BY DEF IInv
<1>1. StageInv(thr[u]) /\ CopyInv(thr'[u])
    BY DEF IInv
<1>2. StageInv(thr[u])'
    BY <1>1 DEF StageInv
<1> QED
    BY <1>1, <1>2, CopyKept

\* A step of one thread keeps the invariant if its new record and the new table
\* are sound and it counts in num no more than it counted in ops.
LEMMA ThreadMoves ==
    ASSUME Setting, IInv, NEW t \in Threads, NEW r \in ThreadSet,
           thr' = [thr EXCEPT ![t] = r], hashOf' = hashOf, loaded' = loaded,
           table' \in [Buckets -> BucketSet],
           \A b \in Buckets : Ordered(table'[b]) /\ Housed(b, table'[b]),
           packed' \in [Addrs -> EntrySet], done' \subseteq NewKeys,
           num' \in Nat, ops' \in 0..MaxOps,
           num' + ops + Weight(r) <= num + ops' + Weight(thr[t]),
           StageInv(r), CopyInv(r)
    PROVE  IInv'
<1>1. /\ thr \in [Threads -> ThreadSet] /\ num \in Nat /\ ops \in 0..MaxOps
      /\ num + Cardinality(Busy) <= ops /\ hashOf \in HashChoices
      /\ loaded \in (-1)..Len(ExistKeys)
    BY DEF IInv, TypeInv
<1>2. thr' \in [Threads -> ThreadSet] /\ thr'[t] = r
      /\ \A u \in Threads : u # t => thr'[u] = thr[u]
    BY <1>1
<1>3. num' + Cardinality(Busy') <= ops'
  <2>1. /\ Cardinality(Busy) \in Nat /\ Cardinality(Busy') \in Nat
        /\ Cardinality(Busy') + Weight(thr[t]) = Cardinality(Busy) + Weight(r)
      BY <1>2, BusyCount
  <2>2. Weight(thr[t]) \in Nat /\ Weight(r) \in Nat
      BY DEF Weight
  <2>3. ops \in Nat /\ ops' \in Nat
      BY <1>1 DEF Setting
  <2>4. \A n, m, o, p, c, d, x, y \in Nat :
          d + x = c + y /\ m + o + y <= n + p + x /\ n + c <= o => m + d <= p
      OBVIOUS
  <2> QED
      BY <1>1, <2>1, <2>2, <2>3, <2>4
<1>4. TypeInv'
    BY <1>1, <1>2, <1>3 DEF TypeInv
<1>5. TableInv'
    BY DEF TableInv, Housed
<1>6. ASSUME NEW u \in Threads PROVE StageInv(thr'[u]) /\ CopyInv(thr'[u])
    BY <1>2 DEF IInv
<1>7. \A u \in Threads : StageInv(thr[u])' /\ CopyInv(thr[u])'
  <2> TAKE u \in Threads
  <2>1. StageInv(thr[u])'
      BY <1>6 DEF StageInv
  <2>2. CopyInv(thr[u])'
    <3>1. CopyInv(thr'[u])
        BY <1>6
    <3> QED
        BY <3>1, CopyKept
  <2> QED
      BY <2>1, <2>2
<1> QED
    BY <1>4, <1>5, <1>7 DEF IInv

\* A step inside an operation that changes nothing but the thread's record.
LEMMA LocalMove ==
    ASSUME Setting, IInv, NEW t \in Threads, NEW r \in ThreadSet, thr[t].pc # "idle",
           thr' = [thr EXCEPT ![t] = r],
           UNCHANGED <<hashOf, table, packed, num, done, ops, loaded>>,
           StageInv(r), CopyInv(r)
    PROVE  IInv'
<1>1. /\ table \in [Buckets -> BucketSet] /\ packed \in [Addrs -> EntrySet]
      /\ num \in Nat /\ ops \in 0..MaxOps /\ done \subseteq NewKeys
    BY DEF IInv, TypeInv
<1>2. \A b \in Buckets : Ordered(table'[b]) /\ Housed(b, table'[b])
    BY DEF IInv, TableInv
<1>3. num' + ops + Weight(r) <= num + ops' + Weight(thr[t])
    BY <1>1 DEF Weight, Setting
<1> QED
    BY <1>1, <1>2, <1>3, ThreadMoves

\* The record of an idle thread ...
LEMMA IdleType ==
    ASSUME Setting
    PROVE  /\ Idle \in ThreadSet /\ 0 \in Addrs
           /\ Idle.pc = "idle" /\ Idle.buf = <<>> /\ Idle.must = FALSE /\ Idle.found = TRUE
<1>1. 0 \in Addrs
    BY LenProperties DEF Addrs, Setting
<1>2. Idle \in ThreadSet
    BY <1>1 DEF Idle, ThreadSet, Points, EntrySet, Names
<1> QED
    BY <1>1, <1>2 DEF Idle

\* ... that has just left an operation.
LEMMA IdleSound ==
    ASSUME Setting, NEW m \in BOOLEAN, NEW f \in BOOLEAN
    PROVE  LET r == [Idle EXCEPT !.must = m, !.found = f]
           IN  /\ r \in ThreadSet /\ StageInv(r) /\ CopyInv(r)
               /\ r.pc = "idle" /\ r.must = m /\ r.found = f
<1> DEFINE r == [Idle EXCEPT !.must = m, !.found = f]
<1>1. /\ r \in ThreadSet /\ r.pc = "idle" /\ r.buf = <<>>
      /\ r.must = m /\ r.found = f
    BY IdleType DEF ThreadSet
<1> HIDE DEF r
<1>2. StageInv(r) /\ CopyInv(r)
    BY <1>1 DEF StageInv, CopyInv
<1> QED
    BY <1>1, <1>2 DEF r

\* A new operation starts with an empty buffer.
LEMMA BeginStep ==
    ASSUME Setting, IInv, NEW t \in Threads, NEW op \in {"search", "insert", "update"},
           NEW k \in Keys, Begin(t, op, k)
    PROVE  IInv'
<1> DEFINE m == k \in done
           r == [Idle EXCEPT !.op = op, !.key = k, !.pc = "read", !.must = m]
<1>1. thr' = [thr EXCEPT ![t] = r]
    BY DEF Begin
<1>2. m \in BOOLEAN
    OBVIOUS
<1> HIDE DEF m
<1>3. /\ r \in ThreadSet /\ r.op = op /\ r.key = k /\ r.pc = "read" /\ r.buf = <<>>
    BY <1>2, IdleType DEF ThreadSet, Names, Points
<1> HIDE DEF r
<1>4. StageInv(r) /\ CopyInv(r)
    BY <1>3 DEF StageInv, CopyInv, Begin
<1>5. Weight(r) = 1 /\ Weight(thr[t]) = 0
    BY <1>3 DEF Weight, Begin
<1>6. /\ table \in [Buckets -> BucketSet] /\ packed \in [Addrs -> EntrySet]
      /\ num \in Nat /\ ops \in 0..MaxOps /\ done \subseteq NewKeys
    BY DEF IInv, TypeInv
<1>7. /\ UNCHANGED <<hashOf, table, packed, num, done, loaded>>
      /\ ops' = ops + 1 /\ ops < MaxOps
    BY DEF Begin
<1>8. ops' \in 0..MaxOps /\ num' + ops + Weight(r) <= num + ops' + Weight(thr[t])
    BY <1>5, <1>6, <1>7 DEF Setting
<1>9. \A b \in Buckets : Ordered(table'[b]) /\ Housed(b, table'[b])
    BY <1>7 DEF IInv, TableInv
<1> QED
    BY <1>1, <1>3, <1>4, <1>6, <1>7, <1>8, <1>9, ThreadMoves

\* What the invariant says of a thread inside an operation.
LEMMA InOperation ==
    ASSUME Setting, IInv, NEW t \in Threads, thr[t].pc # "idle"
    PROVE  /\ thr \in [Threads -> ThreadSet] /\ thr[t] \in ThreadSet
           /\ thr[t].buf \in Seq(BucketSet) /\ thr[t].key \in Keys
           /\ StageInv(thr[t]) /\ CopyInv(thr[t]) /\ hashOf \in HashChoices
           /\ \A i \in 1..2 : remote_lookup(hashOf, thr[t].key)[i] \in Buckets
<1>1. thr \in [Threads -> ThreadSet] /\ StageInv(thr[t]) /\ CopyInv(thr[t])
      /\ hashOf \in HashChoices
    BY DEF IInv, TypeInv
<1>2. thr[t] \in ThreadSet
    BY <1>1
<1>3. thr[t].buf \in Seq(BucketSet) /\ thr[t].key \in Keys
    BY <1>1, <1>2 DEF ThreadSet, StageInv
<1> QED
    BY <1>1, <1>2, <1>3, GroupOfKey

\* A bucket is copied as it is in the table.
LEMMA ReadBucketStep ==
    ASSUME Setting, IInv, NEW t \in Threads, ReadBucket(t)
    PROVE  IInv'
<1> DEFINE q == thr[t]
           i == Len(q.buf) + 1
           b == remote_lookup(hashOf, q.key)[i]
           new == Append(q.buf, table[b])
           p == IF i < 2 THEN "read" ELSE IF q.op = "insert" THEN "match" ELSE "pick"
           r == [q EXCEPT !.buf = new, !.pc = p]
<1>1. q.pc = "read" /\ UNCHANGED <<hashOf, table, packed, num, done, ops, loaded>>
    BY DEF ReadBucket
<1>2. /\ thr \in [Threads -> ThreadSet] /\ q \in ThreadSet /\ q.buf \in Seq(BucketSet)
      /\ q.key \in Keys /\ StageInv(q) /\ CopyInv(q)
      /\ \A j \in 1..2 : remote_lookup(hashOf, q.key)[j] \in Buckets
    BY <1>1, InOperation
<1>3. thr' = [thr EXCEPT ![t] = r]
    BY <1>2 DEF ReadBucket, ThreadSet
<1>4. i \in 1..2 /\ b \in Buckets
  <2>1. Len(q.buf) \in {0, 1}
      BY <1>1, <1>2 DEF StageInv
  <2>2. \A n \in {0, 1} : n + 1 \in 1..2
      OBVIOUS
  <2>3. i \in 1..2
      BY <2>1, <2>2
  <2> QED
      BY <1>2, <2>3
<1>5. table[b] \in BucketSet /\ Ordered(table[b]) /\ Housed(b, table[b])
    BY <1>4 DEF IInv, TypeInv, TableInv
<1>6. /\ new \in Seq(BucketSet) /\ Len(new) = i /\ new[i] = table[b]
      /\ \A j \in 1..(i - 1) : new[j] = q.buf[j]
  <2> DEFINE e == table[b]
             c == q.buf
  <2>1. e \in BucketSet /\ c \in Seq(BucketSet) /\ Len(c) \in Nat /\ i = Len(c) + 1
      BY <1>2, <1>5, LenProperties
  <2> HIDE DEF e, c
  <2>2. /\ Append(c, e) \in Seq(BucketSet) /\ Len(Append(c, e)) = Len(c) + 1
        /\ \A j \in 1..Len(c) : Append(c, e)[j] = c[j]
        /\ Append(c, e)[Len(c) + 1] = e
      BY <2>1, AppendProperties
  <2>3. i - 1 = Len(c)
      BY <2>1
  <2> QED
      BY <2>1, <2>2, <2>3 DEF c, e
<1>7. /\ p \in Points /\ (i = 1 => p = "read")
      /\ i = 2 => p = (IF q.op = "insert" THEN "match" ELSE "pick")
    BY <1>4 DEF Points
<1> HIDE DEF new, p
<1>8. r \in ThreadSet /\ r.buf = new /\ r.pc = p /\ r.op = q.op /\ r.key = q.key
    BY <1>2, <1>6, <1>7 DEF ThreadSet
<1> HIDE DEF r, i
<1>9. StageInv(r)
    BY <1>1, <1>2, <1>4, <1>6, <1>7, <1>8 DEF StageInv
<1>10. CopyInv(r)
  <2> SUFFICES ASSUME NEW j \in 1..i
               PROVE  /\ Ordered(new[j])
                      /\ Housed(remote_lookup(hashOf, q.key)[j], new[j])
      BY <1>6, <1>8 DEF CopyInv
  <2>1. CASE j = i
      BY <1>5, <1>6, <2>1
  <2>2. CASE j # i
    <3>1. j \in 1..Len(q.buf) /\ j \in 1..(i - 1)
        BY <1>2, <1>4, <2>2, LenProperties DEF i
    <3> QED
        BY <1>2, <1>6, <3>1 DEF CopyInv
  <2> QED
      BY <2>1, <2>2
<1> QED
    BY <1>1, <1>3, <1>8, <1>9, <1>10, LocalMove

\* A search or an update has looked through its copies ...
LEMMA PickStep ==
    ASSUME Setting, IInv, NEW t \in Threads, Pick(t)
    PROVE  IInv'
<1> DEFINE q == thr[t]
           M == PickMatches(hashOf, q.key, q.buf)
           first == CHOOSE p \in M : \A x \in M : p <= x
           a == SlotAt(q.buf, first).addr
<1>1. q.pc = "pick" /\ UNCHANGED <<hashOf, table, packed, num, done, ops, loaded>>
    BY DEF Pick
<1>2. /\ thr \in [Threads -> ThreadSet] /\ q \in ThreadSet /\ q.buf \in Seq(BucketSet)
      /\ q.key \in Keys /\ StageInv(q) /\ CopyInv(q)
    BY <1>1, InOperation
<1>3. CASE M = {}
  <2> DEFINE r == [Idle EXCEPT !.must = q.must, !.found = FALSE]
  <2>1. thr' = [thr EXCEPT ![t] = r]
      BY <1>3 DEF Pick
  <2>2. q.must \in BOOLEAN
      BY <1>2 DEF ThreadSet
  <2>3. r \in ThreadSet /\ StageInv(r) /\ CopyInv(r)
      BY <2>2, IdleSound
  <2> HIDE DEF r
  <2> QED
      BY <1>1, <2>1, <2>3, LocalMove
<1>4. CASE M # {}
  <2> DEFINE r == [q EXCEPT !.addr = a, !.pc = "fetch"]
  <2>1. thr' = [thr EXCEPT ![t] = r]
      BY <1>2, <1>4 DEF Pick, ThreadSet
  <2>2. first \in Positions
    <3>1. M \subseteq Nat /\ M \subseteq Positions
        BY DEF PickMatches, Positions
    <3>2. \E x \in M : \A y \in M : x <= y
        BY <1>4, <3>1, NatMin
    <3> QED
        BY <3>1, <3>2
  <2> HIDE DEF first
  <2>3. BucketAt(first) \in 1..2 /\ PlaceAt(first) \in 1..SLOTS
      BY <2>2, PositionParts
  <2>4. Len(q.buf) = 2
      BY <1>1, <1>2 DEF StageInv
  <2>5. q.buf[BucketAt(first)] \in BucketSet
      BY <1>2, <2>3, <2>4, ElementOfSeq
  <2>6. a \in Addrs
      BY <2>3, <2>5 DEF SlotAt, BucketSet, SlotSet
  <2> HIDE DEF a
  <2>7. /\ r \in ThreadSet /\ r.pc = "fetch" /\ r.buf = q.buf /\ r.op = q.op
        /\ r.key = q.key
      BY <1>2, <2>6 DEF ThreadSet, Points
  <2> HIDE DEF r
  <2>8. StageInv(r) /\ CopyInv(r)
      BY <1>1, <1>2, <2>7 DEF StageInv, CopyInv
  <2> QED
      BY <1>1, <2>1, <2>7, <2>8, LocalMove
<1> QED
    BY <1>3, <1>4

\* ... and has read the entry it chose.
LEMMA FetchStep ==
    ASSUME Setting, IInv, NEW t \in Threads, Fetch(t)
    PROVE  IInv'
<1> DEFINE q == thr[t]
<1>1. q.pc = "fetch" /\ UNCHANGED <<hashOf, table, packed, num, done, ops, loaded>>
    BY DEF Fetch
<1>2. /\ thr \in [Threads -> ThreadSet] /\ q \in ThreadSet
      /\ q.key \in Keys /\ StageInv(q) /\ CopyInv(q)
    BY <1>1, InOperation
<1>3. CASE q.op = "search"
  <2> DEFINE m == q.must
             r == [Idle EXCEPT !.must = m, !.found = TRUE]
  <2>1. m \in BOOLEAN
      BY <1>2 DEF ThreadSet
  <2> HIDE DEF m
  <2>2. [Idle EXCEPT !.must = m] = r
      BY <2>1, IdleType DEF ThreadSet
  <2>3. thr' = [thr EXCEPT ![t] = [Idle EXCEPT !.must = m]]
      BY <1>3 DEF Fetch, m
  <2>4. r \in ThreadSet /\ StageInv(r) /\ CopyInv(r)
      BY <2>1, IdleSound
  <2> HIDE DEF r
  <2> QED
      BY <1>1, <2>2, <2>3, <2>4, LocalMove
<1>4. CASE q.op # "search"
  <2> DEFINE e == packed[q.addr]
             r == [q EXCEPT !.entry = e, !.pc = "store"]
  <2>1. thr' = [thr EXCEPT ![t] = r]
      BY <1>4 DEF Fetch
  <2>2. e \in EntrySet
      BY <1>2 DEF IInv, TypeInv, ThreadSet
  <2> HIDE DEF e
  <2>3. /\ r \in ThreadSet /\ r.pc = "store" /\ r.buf = q.buf /\ r.op = q.op
        /\ r.key = q.key
      BY <1>2, <2>2 DEF ThreadSet, Points
  <2> HIDE DEF r
  <2>4. StageInv(r) /\ CopyInv(r)
      BY <1>1, <1>2, <1>4, <2>3 DEF StageInv, CopyInv
  <2> QED
      BY <1>1, <2>1, <2>3, <2>4, LocalMove
<1> QED
    BY <1>3, <1>4

\* An insert compares the key behind the next slot with its fingerprint.
LEMMA MatchStep ==
    ASSUME Setting, IInv, NEW t \in Threads, Match(t)
    PROVE  IInv'
<1> DEFINE q == thr[t]
           M == InsertMatches(hashOf, q.key, q.buf, q.at)
           first == CHOOSE p \in M : \A x \in M : p <= x
           a == SlotAt(q.buf, first).addr
<1>1. q.pc = "match" /\ UNCHANGED <<hashOf, table, packed, num, done, ops, loaded>>
    BY DEF Match
<1>2. /\ thr \in [Threads -> ThreadSet] /\ q \in ThreadSet /\ q.buf \in Seq(BucketSet)
      /\ q.key \in Keys /\ StageInv(q) /\ CopyInv(q)
    BY <1>1, InOperation
<1>3. CASE M = {}
  <2> DEFINE r == [q EXCEPT !.pc = "compose"]
  <2>1. thr' = [thr EXCEPT ![t] = r]
      BY <1>2, <1>3 DEF Match, Goto, ThreadSet
  <2>2. /\ r \in ThreadSet /\ r.pc = "compose" /\ r.buf = q.buf /\ r.op = q.op
        /\ r.key = q.key
      BY <1>2 DEF ThreadSet, Points
  <2> HIDE DEF r
  <2>3. StageInv(r) /\ CopyInv(r)
      BY <1>1, <1>2, <2>2 DEF StageInv, CopyInv
  <2> QED
      BY <1>1, <2>1, <2>2, <2>3, LocalMove
<1>4. CASE M # {}
  <2> DEFINE e == packed[a]
             p == IF e.key = q.key THEN "store" ELSE "match"
             r == [q EXCEPT !.at = first, !.addr = a, !.entry = e, !.pc = p]
  <2>1. thr' = [thr EXCEPT ![t] = r]
      BY <1>2, <1>4 DEF Match, ThreadSet
  <2>2. first \in Positions
    <3>1. M \subseteq Nat /\ M \subseteq Positions
        BY DEF InsertMatches, Positions
    <3>2. \E x \in M : \A y \in M : x <= y
        BY <1>4, <3>1, NatMin
    <3> QED
        BY <3>1, <3>2
  <2> HIDE DEF first
  <2>3. BucketAt(first) \in 1..2 /\ PlaceAt(first) \in 1..SLOTS /\ first \in Nat
      BY <2>2, PositionParts DEF Positions
  <2>4. Len(q.buf) = 2
      BY <1>1, <1>2 DEF StageInv
  <2>5. q.buf[BucketAt(first)] \in BucketSet
      BY <1>2, <2>3, <2>4, ElementOfSeq
  <2>6. a \in Addrs
      BY <2>3, <2>5 DEF SlotAt, BucketSet, SlotSet
  <2> HIDE DEF a
  <2>7. e \in EntrySet
      BY <2>6 DEF IInv, TypeInv
  <2>8. p \in {"store", "match"}
      OBVIOUS
  <2> HIDE DEF e, p
  <2>9. /\ r \in ThreadSet /\ r.pc = p /\ r.buf = q.buf /\ r.op = q.op
        /\ r.key = q.key
      BY <1>2, <2>3, <2>6, <2>7, <2>8 DEF ThreadSet, Points
  <2> HIDE DEF r
  <2>10. StageInv(r) /\ CopyInv(r)
      BY <1>1, <1>2, <2>8, <2>9 DEF StageInv, CopyInv
  <2> QED
      BY <1>1, <2>1, <2>9, <2>10, LocalMove
<1> QED
    BY <1>3, <1>4

\* While an operation is under way num is the address of an entry.
LEMMA NumInArray ==
    ASSUME Setting, IInv, NEW t \in Threads, thr[t].pc # "idle"
    PROVE  num \in Addrs /\ num < ops
<1>1. IsFiniteSet(Busy)
  <2>1. Busy \subseteq Threads
      BY DEF Busy
  <2> QED
      BY <2>1, FS_Subset DEF Setting
<1>2. Cardinality(Busy) \in Nat /\ Cardinality(Busy) # 0
    BY <1>1, FS_CardinalityType, FS_EmptySet DEF Busy
<1>3. num \in Nat /\ ops \in Nat /\ ops <= MaxOps /\ num + Cardinality(Busy) <= ops
    BY DEF IInv, TypeInv, Setting
<1>4. Len(ExistKeys) \in Nat /\ MaxOps \in Nat
    BY LenProperties DEF Setting
<1>5. num < ops
    BY <1>2, <1>3
<1> QED
    BY <1>3, <1>4, <1>5 DEF Addrs

\* The address taken for the entry is in the array.
LEMMA PdAddrStep ==
    ASSUME Setting, IInv, NEW t \in Threads, PdAddr(t)
    PROVE  IInv'
<1> DEFINE q == thr[t]
           r == [q EXCEPT !.addr = num, !.pc = "entry"]
<1>1. q.pc = "pdaddr" /\ UNCHANGED <<hashOf, table, packed, num, done, ops, loaded>>
    BY DEF PdAddr
<1>2. /\ thr \in [Threads -> ThreadSet] /\ q \in ThreadSet
      /\ StageInv(q) /\ CopyInv(q) /\ num \in Addrs
    BY <1>1, InOperation, NumInArray
<1>3. thr' = [thr EXCEPT ![t] = r]
    BY <1>2 DEF PdAddr, ThreadSet
<1>4. /\ r \in ThreadSet /\ r.pc = "entry" /\ r.buf = q.buf /\ r.op = q.op
      /\ r.key = q.key
    BY <1>2 DEF ThreadSet, Points
<1> HIDE DEF r
<1>5. StageInv(r) /\ CopyInv(r)
    BY <1>1, <1>2, <1>4 DEF StageInv, CopyInv
<1> QED
    BY <1>1, <1>3, <1>4, <1>5, LocalMove

\* A pair of buckets with one of them replaced.
LEMMA ExceptPair ==
    ASSUME NEW S, NEW d \in Seq(S), Len(d) = 2, NEW i \in 1..2, NEW e \in S
    PROVE  /\ [d EXCEPT ![i] = e] \in Seq(S) /\ Len([d EXCEPT ![i] = e]) = 2
           /\ [d EXCEPT ![i] = e][i] = e
           /\ \A j \in 1..2 : j # i => [d EXCEPT ![i] = e][j] = d[j]
<1>1. [d EXCEPT ![i] = e] \in Seq(S)
    BY ExceptSeq, SMT
<1>2. Len([d EXCEPT ![i] = e]) = 2
    BY ExceptSeq, SMT
<1>3. DOMAIN d = 1..2
    BY SMT
<1>4. [d EXCEPT ![i] = e][i] = e
    BY <1>3, Zenon
<1>5. \A j \in 1..2 : j # i => [d EXCEPT ![i] = e][j] = d[j]
    BY <1>3, Zenon
<1> QED
    BY <1>1, <1>2, <1>4, <1>5

\* The copy is filled, or both buckets are full.
LEMMA ComposeStep ==
    ASSUME Setting, IInv, NEW t \in Threads, Compose(t)
    PROVE  IInv'
<1> DEFINE q == thr[t]
           p == FreeChoice(q.buf)
           i == BucketAt(p)
           f == PlaceAt(p)
           e == Filled(hashOf, q.key, num)
<1>1. q.pc = "compose" /\ UNCHANGED <<hashOf, table, packed, num, done, ops, loaded>>
    BY DEF Compose
<1>2. /\ thr \in [Threads -> ThreadSet] /\ q \in ThreadSet /\ q.buf \in Seq(BucketSet)
      /\ q.key \in Keys /\ StageInv(q) /\ CopyInv(q) /\ num \in Addrs
      /\ hashOf \in HashChoices
    BY <1>1, InOperation, NumInArray
<1>3. Len(q.buf) = 2 /\ q.op = "insert"
    BY <1>1, <1>2 DEF StageInv
<1>4. CASE FreePositions(q.buf) = {}
  <2> DEFINE r == [q EXCEPT !.pc = "bump", !.found = FALSE]
  <2>1. thr' = [thr EXCEPT ![t] = r]
      BY <1>2, <1>4 DEF Compose, ThreadSet
  <2>2. /\ r \in ThreadSet /\ r.pc = "bump" /\ r.buf = q.buf /\ r.op = q.op
        /\ r.key = q.key
      BY <1>2 DEF ThreadSet, Points
  <2> HIDE DEF r
  <2>3. StageInv(r) /\ CopyInv(r)
      BY <1>1, <1>2, <2>2 DEF StageInv, CopyInv
  <2> QED
      BY <1>1, <2>1, <2>2, <2>3, LocalMove
<1>5. CASE FreePositions(q.buf) # {}
  <2> DEFINE new == [q.buf[i] EXCEPT ![f] = e]
             c == [q.buf EXCEPT ![i] = new]
             r == [q EXCEPT !.buf = c, !.at = 1, !.pc = "write"]
  <2>1. i \in 1..2 /\ f \in 1..SLOTS /\ \A s \in 1..(f - 1) : q.buf[i][s].occ
      BY <1>2, <1>3, <1>5, ChoiceSound
  <2>2. thr' = [thr EXCEPT ![t].buf[i][f] = e, ![t].at = 1, ![t].pc = "write"]
      BY <1>5 DEF Compose
  <2> HIDE DEF p, i, f, e
  <2>3. q.buf[i] \in BucketSet
      BY <1>2, <1>3, <2>1, ElementOfSeq
  <2>4. thr' = [thr EXCEPT ![t] = r]
      BY <1>2, <2>2 DEF ThreadSet
  <2>5. new \in BucketSet /\ Ordered(new) /\ Housed(remote_lookup(hashOf, q.key)[i], new)
    <3>1. /\ Ordered(q.buf[i])
          /\ Housed(remote_lookup(hashOf, q.key)[i], q.buf[i])
        BY <1>2, <1>3, <2>1 DEF CopyInv
    <3>2. \E j \in 1..4 :
            Candidates(hashOf, q.key)[j] = remote_lookup(hashOf, q.key)[i]
        BY <1>2, <2>1, GroupOfKey
    <3> DEFINE g == remote_lookup(hashOf, q.key)[i]
               k == q.key
    <3>3. /\ Ordered(q.buf[i]) /\ Housed(g, q.buf[i]) /\ k \in Keys
          /\ \E j \in 1..4 : Candidates(hashOf, k)[j] = g
        BY <1>2, <3>1, <3>2
    <3> HIDE DEF g, k
    <3>4. LET n == [q.buf[i] EXCEPT ![f] = Filled(hashOf, k, num)]
          IN  n \in BucketSet /\ Ordered(n) /\ Housed(g, n)
        BY <1>2, <2>1, <2>3, <3>3, FillFirst
    <3> QED
        BY <3>4 DEF g, k, e
  <2> HIDE DEF new
  <2>6. /\ c \in Seq(BucketSet) /\ Len(c) = 2 /\ c[i] = new
        /\ \A j \in 1..2 : j # i => c[j] = q.buf[j]
    <3> DEFINE d == q.buf
    <3>1. d \in Seq(BucketSet) /\ Len(d) = 2
        BY <1>2, <1>3
    <3>2. i \in 1..2 /\ new \in BucketSet
        BY <2>1, <2>5
    <3> HIDE DEF d, i
    <3> QED
        BY <3>1, <3>2, ExceptPair DEF d
  <2> HIDE DEF c
  <2>7. /\ r \in ThreadSet /\ r.pc = "write" /\ r.buf = c /\ r.op = q.op
        /\ r.key = q.key /\ r.at = 1
      BY <1>2, <2>6 DEF ThreadSet, Points
  <2> HIDE DEF r
  <2>8. StageInv(r)
      BY <1>1, <1>2, <1>3, <2>6, <2>7 DEF StageInv
  <2>9. CopyInv(r)
    <3> SUFFICES ASSUME NEW j \in 1..2
                 PROVE  Ordered(c[j]) /\ Housed(remote_lookup(hashOf, q.key)[j], c[j])
        BY <2>6, <2>7 DEF CopyInv
    <3>1. CASE j = i
        BY <2>5, <2>6, <3>1
    <3>2. CASE j # i
        BY <1>2, <1>3, <2>6, <3>2 DEF CopyInv
    <3> QED
        BY <3>1, <3>2
  <2> QED
      BY <1>1, <2>4, <2>7, <2>8, <2>9, LocalMove
<1> QED
    BY <1>4, <1>5

\* One of the copies, sound as it is, replaces a bucket of its own group.
LEMMA WriteBucketStep ==
    ASSUME Setting, IInv, NEW t \in Threads, WriteBucket(t)
    PROVE  IInv'
<1> DEFINE q == thr[t]
           i == q.at
           b == remote_lookup(hashOf, q.key)[i]
           c == q.buf[i]
           p == IF i < 2 THEN "write" ELSE "pdaddr"
           n == i + 1
           r == [q EXCEPT !.at = n, !.pc = p]
<1>1. q.pc = "write" /\ UNCHANGED <<hashOf, packed, num, done, ops, loaded>>
    BY DEF WriteBucket
<1>2. /\ thr \in [Threads -> ThreadSet] /\ q \in ThreadSet /\ q.buf \in Seq(BucketSet)
      /\ q.key \in Keys /\ StageInv(q) /\ CopyInv(q)
      /\ \A j \in 1..2 : remote_lookup(hashOf, q.key)[j] \in Buckets
    BY <1>1, InOperation
<1>3. i \in 1..2 /\ Len(q.buf) = 2 /\ (i = 1 \/ i = 2) /\ q.op = "insert"
    BY <1>1, <1>2 DEF StageInv
<1>4. thr' = [thr EXCEPT ![t] = r]
    BY <1>2 DEF WriteBucket, ThreadSet
<1>5. table' = [table EXCEPT ![b] = c]
    BY DEF WriteBucket
<1>6. b \in Buckets /\ c \in BucketSet /\ Ordered(c) /\ Housed(b, c)
  <2>1. c \in BucketSet
      BY <1>2, <1>3, ElementOfSeq
  <2> QED
      BY <1>2, <1>3, <2>1 DEF CopyInv
<1>7. p \in Points /\ (i = 1 => p = "write") /\ (i = 2 => p = "pdaddr")
      /\ n \in Nat /\ (i = 1 => n = 2)
    BY <1>3 DEF Points
<1> HIDE DEF b, c, p, i, n
<1>8. /\ r \in ThreadSet /\ r.pc = p /\ r.buf = q.buf /\ r.op = q.op
      /\ r.key = q.key /\ r.at = n
    BY <1>2, <1>7 DEF ThreadSet
<1> HIDE DEF r
<1>9. StageInv(r) /\ CopyInv(r)
    BY <1>1, <1>2, <1>3, <1>7, <1>8 DEF StageInv, CopyInv
<1>10. /\ table \in [Buckets -> BucketSet] /\ packed \in [Addrs -> EntrySet]
       /\ num \in Nat /\ ops \in 0..MaxOps /\ done \subseteq NewKeys
    BY DEF IInv, TypeInv
<1>11. /\ table' \in [Buckets -> BucketSet]
       /\ \A x \in Buckets : Ordered(table'[x]) /\ Housed(x, table'[x])
    BY <1>5, <1>6, <1>10 DEF IInv, TableInv
<1>12. num' + ops + Weight(r) <= num + ops' + Weight(thr[t])
  <2>1. Weight(r) = 1 /\ Weight(thr[t]) = 1
      BY <1>1, <1>3, <1>7, <1>8 DEF Weight
  <2> QED
      BY <1>1, <1>10, <2>1 DEF Setting
<1> QED
    BY <1>1, <1>4, <1>8, <1>9, <1>10, <1>11, <1>12, ThreadMoves

\* The table stays as it is while an entry is written or num counted.
LEMMA EntryMove ==
    ASSUME Setting, IInv, NEW t \in Threads, NEW r \in ThreadSet, thr[t].pc # "idle",
           thr' = [thr EXCEPT ![t] = r], UNCHANGED <<hashOf, table, ops, loaded>>,
           packed' \in [Addrs -> EntrySet], done' \subseteq NewKeys, num' \in Nat,
           num' + Weight(r) <= num + 1, StageInv(r), CopyInv(r)
    PROVE  IInv'
<1>1. /\ table \in [Buckets -> BucketSet] /\ num \in Nat /\ ops \in 0..MaxOps
    BY DEF IInv, TypeInv
<1>2. \A b \in Buckets : Ordered(table'[b]) /\ Housed(b, table'[b])
    BY DEF IInv, TableInv
<1>3. num' + ops + Weight(r) <= num + ops' + Weight(thr[t])
  <2>1. Weight(thr[t]) = 1 /\ Weight(r) \in Nat
      BY DEF Weight
  <2> QED
      BY <1>1, <2>1 DEF Setting
<1> QED
    BY <1>1, <1>2, <1>3, ThreadMoves

\* An update ends; the entry keeps its shape.
LEMMA StoreStep ==
    ASSUME Setting, IInv, NEW t \in Threads, Store(t)
    PROVE  IInv'
<1> DEFINE q == thr[t]
           a == q.addr
           e == [q.entry EXCEPT !.data = q.key]
<1>1. /\ q.pc = "store" /\ UNCHANGED <<hashOf, table, num, ops, loaded>>
      /\ packed' = [packed EXCEPT ![a] = e] /\ thr' = [thr EXCEPT ![t] = Idle]
      /\ done' = IF q.op = "insert" THEN done \cup {q.key} ELSE done
    BY DEF Store
<1>2. q \in ThreadSet /\ q.key \in Keys /\ StageInv(q)
    BY <1>1, InOperation
<1>3. /\ packed \in [Addrs -> EntrySet] /\ num \in Nat /\ done \subseteq NewKeys
    BY DEF IInv, TypeInv
<1>4. e \in EntrySet
    BY <1>2 DEF ThreadSet, EntrySet, Names
<1> HIDE DEF e
<1>5. packed' \in [Addrs -> EntrySet]
    BY <1>1, <1>3, <1>4
<1>6. done' \subseteq NewKeys
    BY <1>1, <1>2, <1>3 DEF StageInv
<1>7. /\ Idle \in ThreadSet /\ StageInv(Idle) /\ CopyInv(Idle) /\ Weight(Idle) = 0
    BY IdleType DEF StageInv, CopyInv, Weight
<1>8. num' + Weight(Idle) <= num + 1 /\ num' \in Nat
    BY <1>1, <1>3, <1>7
<1> QED
    BY <1>1, <1>5, <1>6, <1>7, <1>8, EntryMove

\* The entry of an insert is written.
LEMMA WriteEntryStep ==
    ASSUME Setting, IInv, NEW t \in Threads, WriteEntry(t)
    PROVE  IInv'
<1> DEFINE q == thr[t]
           a == q.addr
           e == [key |-> q.key, data |-> q.key]
           r == [q EXCEPT !.pc = "bump"]
<1>1. /\ q.pc = "entry" /\ UNCHANGED <<hashOf, table, num, done, ops, loaded>>
      /\ packed' = [packed EXCEPT ![a] = e]
    BY DEF WriteEntry
<1>2. /\ thr \in [Threads -> ThreadSet] /\ q \in ThreadSet /\ q.key \in Keys
      /\ StageInv(q) /\ CopyInv(q)
    BY <1>1, InOperation
<1>3. /\ packed \in [Addrs -> EntrySet] /\ num \in Nat /\ done \subseteq NewKeys
    BY DEF IInv, TypeInv
<1>4. thr' = [thr EXCEPT ![t] = r]
    BY <1>2 DEF WriteEntry, Goto, ThreadSet
<1>5. packed' \in [Addrs -> EntrySet]
    BY <1>1, <1>2, <1>3 DEF EntrySet, Names
<1>6. /\ r \in ThreadSet /\ r.pc = "bump" /\ r.buf = q.buf /\ r.op = q.op
      /\ r.key = q.key
    BY <1>2 DEF ThreadSet, Points
<1> HIDE DEF r
<1>7. StageInv(r) /\ CopyInv(r) /\ Weight(r) = 1
    BY <1>1, <1>2, <1>6 DEF StageInv, CopyInv, Weight
<1>8. num' + Weight(r) <= num + 1 /\ num' \in Nat /\ done' \subseteq NewKeys
    BY <1>1, <1>3, <1>7
<1> QED
    BY <1>1, <1>4, <1>5, <1>6, <1>7, <1>8, EntryMove

\* An insert ends and counts in num in place of its thread.
LEMMA BumpStep ==
    ASSUME Setting, IInv, NEW t \in Threads, Bump(t)
    PROVE  IInv'
<1> DEFINE q == thr[t]
<1>1. /\ q.pc = "bump" /\ UNCHANGED <<hashOf, table, packed, ops, loaded>>
      /\ num' = num + 1 /\ thr' = [thr EXCEPT ![t] = Idle]
      /\ done' = IF q.found THEN done \cup {q.key} ELSE done
    BY DEF Bump
<1>2. q \in ThreadSet /\ StageInv(q)
    BY <1>1, InOperation
<1>3. /\ packed \in [Addrs -> EntrySet] /\ num \in Nat /\ done \subseteq NewKeys
    BY DEF IInv, TypeInv
<1>4. q.key \in NewKeys
    BY <1>1, <1>2 DEF StageInv
<1>5. done' \subseteq NewKeys
    BY <1>1, <1>3, <1>4
<1>6. /\ Idle \in ThreadSet /\ StageInv(Idle) /\ CopyInv(Idle) /\ Weight(Idle) = 0
    BY IdleType DEF StageInv, CopyInv, Weight
<1>7. num' + Weight(Idle) <= num + 1 /\ num' \in Nat
    BY <1>1, <1>3, <1>6
<1> QED
    BY <1>1, <1>3, <1>5, <1>6, <1>7, EntryMove

\* The load, before any thread works.
LEMMA LoadStep ==
    ASSUME Setting, IInv, Load
    PROVE  IInv'
<1> DEFINE k == ExistKeys[loaded + 1]
<1>1. /\ loaded >= 0 /\ loaded < Len(ExistKeys) /\ loaded' = loaded + 1
      /\ packed' = [packed EXCEPT ![loaded] = [key |-> k, data |-> k]]
      /\ table' = insert(table, hashOf, k, loaded)
      /\ UNCHANGED <<hashOf, num, thr, done, ops>>
    BY DEF Load
<1>2. /\ table \in [Buckets -> BucketSet] /\ packed \in [Addrs -> EntrySet]
      /\ hashOf \in HashChoices /\ loaded \in (-1)..Len(ExistKeys)
      /\ \A b \in Buckets : Ordered(table[b]) /\ Housed(b, table[b])
    BY DEF IInv, TypeInv, TableInv
<1>3. /\ Len(ExistKeys) \in Nat /\ MaxOps \in Nat /\ ExistKeys \in Seq(ExistSet)
    BY LenProperties DEF Setting
<1>4. loaded \in Addrs /\ loaded + 1 \in 1..Len(ExistKeys)
      /\ loaded' \in (-1)..Len(ExistKeys)
    BY <1>1, <1>2, <1>3 DEF Addrs
<1>5. k \in Keys
    BY <1>3, <1>4, ElementOfSeq DEF Keys
<1> HIDE DEF k
<1>6. packed' \in [Addrs -> EntrySet]
    BY <1>1, <1>2, <1>5 DEF EntrySet, Names
<1>7. /\ table' \in [Buckets -> BucketSet]
      /\ \A b \in Buckets : Ordered(table'[b]) /\ Housed(b, table'[b])
    BY <1>1, <1>2, <1>4, <1>5, InsertSound
<1>8. TypeInv'
    BY <1>1, <1>4, <1>6, <1>7 DEF IInv, TypeInv, Busy
<1>9. TableInv'
    BY <1>1, <1>7 DEF TableInv, Housed
<1> QED
    BY <1>1, <1>8, <1>9, ThreadsKept

\* An empty table.
LEMMA InitInv ==
    ASSUME Setting, Init
    PROVE  IInv
<1>1. Idle \in ThreadSet /\ 0 \in Addrs /\ Idle.pc = "idle" /\ Idle.buf = <<>>
    BY IdleType
<1>2. EmptySlot \in SlotSet /\ EmptySlot.occ = FALSE
    BY <1>1 DEF EmptySlot, SlotSet, Fps, Names
<1>3. EmptyBucket \in BucketSet /\ \A s \in 1..SLOTS : EmptyBucket[s].occ = FALSE
    BY <1>2 DEF EmptyBucket, BucketSet
<1>4. table \in [Buckets -> BucketSet] /\ TableInv
  <2>1. Ordered(EmptyBucket)
    <3>1. \A s \in 1..(SLOTS - 1) : s + 1 \in 1..SLOTS
        BY DEF Setting
    <3> QED
        BY <1>3, <3>1 DEF Ordered
  <2>2. \A b \in Buckets : Housed(b, EmptyBucket)
      BY <1>3 DEF Housed
  <2> QED
      BY <1>3, <2>1, <2>2 DEF Init, TableInv
<1>5. packed \in [Addrs -> EntrySet]
    BY DEF Init, EntrySet, Names
<1>6. thr \in [Threads -> ThreadSet] /\ \A t \in Threads : thr[t] = Idle
    BY <1>1 DEF Init
<1>7. num + Cardinality(Busy) <= ops
  <2>1. Busy = {}
      BY <1>1, <1>6 DEF Busy
  <2>2. Cardinality({}) = 0
      BY FS_EmptySet
  <2> QED
      BY <2>1, <2>2 DEF Init
<1>8. loaded \in (-1)..Len(ExistKeys)
    BY LenProperties DEF Init, Setting
<1>9. TypeInv
    BY <1>4, <1>5, <1>6, <1>7, <1>8 DEF TypeInv, Init, Setting
<1>10. \A t \in Threads : StageInv(thr[t]) /\ CopyInv(thr[t])
    BY <1>1, <1>6 DEF StageInv, CopyInv
<1> QED
    BY <1>4, <1>9, <1>10 DEF IInv

\* One case per action.
LEMMA Steps ==
    ASSUME Setting, IInv, [Next]_vars
    PROVE  IInv'
<1>1. CASE Load
    BY <1>1, LoadStep
<1>2. CASE StartDaemon
  <2>1. UNCHANGED <<hashOf, table, packed, num, thr, done, ops>> /\ loaded' = -1
      BY <1>2 DEF StartDaemon
  <2>2. loaded' \in (-1)..Len(ExistKeys)
      BY <2>1, LenProperties DEF Setting
  <2>3. TypeInv' /\ TableInv'
      BY <2>1, <2>2 DEF IInv, TypeInv, TableInv, Housed, Busy
  <2> QED
      BY <2>1, <2>3, ThreadsKept
<1>3. CASE \E t \in Threads : ThreadStep(t)
  <2>1. PICK t \in Threads : ThreadStep(t)
      BY <1>3
  <2> QED
      BY <2>1, BeginStep, ReadBucketStep, PickStep, FetchStep, MatchStep, StoreStep,
         ComposeStep, WriteBucketStep, PdAddrStep, WriteEntryStep, BumpStep DEF ThreadStep
<1>4. CASE UNCHANGED vars \/ Stop
  <2>1. UNCHANGED <<hashOf, table, packed, num, thr, done, ops, loaded>>
      BY <1>4 DEF Stop, vars
  <2>2. TypeInv' /\ TableInv'
      BY <2>1 DEF IInv, TypeInv, TableInv, Housed, Busy
  <2> QED
      BY <2>1, <2>2, ThreadsKept
<1> QED
    BY <1>1, <1>2, <1>3, <1>4 DEF Next

\* The invariant holds for any number of writers.
LEMMA Invariance ==
    ASSUME Setting
    PROVE  Spec => []IInv
<1>1. Init => IInv
    BY InitInv
<1>2. IInv /\ [Next]_vars => IInv'
    BY Steps
<1> QED
    BY <1>1, <1>2, PTL DEF Spec

\* However many clients write back stale copies of a bucket whole, its slots
\* stay filled from the first on, which the "occupied & 0x0F" test of a search
\* depends on.
THEOREM SlotsFillInOrder ==
    ASSUME Setting
    PROVE  Spec => []SlotsFilledInOrder
<1>1. IInv => SlotsFilledInOrder
    BY DEF IInv, TableInv, Ordered, SlotsFilledInOrder
<1> QED
    BY <1>1, Invariance, PTL

\* A write-back never leaves a slot in a bucket where RaceHashTable would not
\* look for the key it was filled for.
THEOREM SlotsStayHome ==
    ASSUME Setting
    PROVE  Spec => []SlotsAtHome
<1>1. IInv => SlotsAtHome
    BY DEF IInv, TableInv, Housed, SlotsAtHome
<1> QED
    BY <1>1, Invariance, PTL

(***************************************************************************)
(* One thread that writes.  ReachInv follows an insert from the buckets it *)
(* reads to the entry it counts, and a search from its first read to its   *)
(* pick.                                                                   *)
(***************************************************************************)

Writes(t) == OpsOf[t] # {"search"}
OneWriter == \A t, u \in Threads : Writes(t) /\ Writes(u) => t = u

\* The slot makes clients that look for k stop, ...
Fits(slot, k) == slot.occ /\ slot.fp = hashOf[k].fp

\* ... and one of those they read leads to entry a.
HasSlot(k, a) ==
    \E i \in 1..2 : \E s \in 1..SLOTS :
        LET slot == table[remote_lookup(hashOf, k)[i]][s]
        IN  Fits(slot, k) /\ slot.addr = a

\* The copies of an insert are up to date when it composes its slot, ...
FreshInv(r) ==
    r.op = "insert" /\ r.pc \in {"read", "match", "compose"} =>
        \A i \in 1..Len(r.buf) : r.buf[i] = table[remote_lookup(hashOf, r.key)[i]]

\* ... so that writing them back loses no slot ...
KeepInv(r) ==
    r.pc = "write" =>
        \A i \in 1..2 : \A s \in 1..SLOTS :
            LET slot == table[remote_lookup(hashOf, r.key)[i]][s]
            IN  slot.occ => r.buf[i][s] = slot

\* ... and adds the one for entry num.
AddInv(r) ==
    r.pc = "write" =>
        \E i \in 1..2 : \E s \in 1..SLOTS :
            /\ Fits(r.buf[i][s], r.key) /\ r.buf[i][s].addr = num
            /\ i < r.at => table[remote_lookup(hashOf, r.key)[i]][s] = r.buf[i][s]

\* Then it writes entry num, and counts it.
PlacedInv(r) ==
    /\ r.pc \in {"pdaddr", "entry"} \/ (r.pc = "bump" /\ r.found) => HasSlot(r.key, num)
    /\ r.pc = "entry" => r.addr = num
    /\ r.pc = "bump" /\ r.found => packed[num].key = r.key

\* An update writes the key back that is there.
StoreInv(r) ==
    r.pc = "store" =>
        /\ r.entry.key = packed[r.addr].key
        /\ r.op = "insert" =>
             r.entry.key = r.key /\ r.addr < num /\ HasSlot(r.key, r.addr)

WriterInv(t) ==
    /\ thr[t].pc # "idle" /\ thr[t].op # "search" => Writes(t)
    /\ FreshInv(thr[t]) /\ KeepInv(thr[t]) /\ AddInv(thr[t])
    /\ PlacedInv(thr[t]) /\ StoreInv(thr[t])

\* Entries of inserted keys are those below num, and one that is not yet counted.
EntryInv ==
    \A a \in Addrs : a >= num /\ packed[a].key \in NewKeys =>
        a = num /\ \E t \in Threads : thr[t].pc = "bump" /\ thr[t].found

DoneInv == \A k \in done : \E a \in 0..(num - 1) : HasSlot(k, a) /\ packed[a].key = k

\* What a search of an inserted key finds, from its first read on.
SearchInv(r) ==
    /\ r.pc # "idle" /\ r.must => r.key \in done
    /\ r.pc # "bump" => r.found \/ (r.pc = "idle" /\ ~r.must)
    /\ r.pc \in {"read", "pick"} /\ r.must =>
         \E i \in 1..2 : \E s \in 1..SLOTS :
             /\ Fits(table[remote_lookup(hashOf, r.key)[i]][s], r.key)
             /\ i <= Len(r.buf) => Fits(r.buf[i][s], r.key)

ReachInv ==
    /\ \A t \in Threads : WriterInv(t)
    /\ \A t \in Threads : SearchInv(thr[t])
    /\ EntryInv
    /\ DoneInv
    /\ loaded # -1 => \A t \in Threads : thr[t].pc = "idle"
    /\ loaded # -1 => done = {}

\* No slot that is in use changes.
Grown == \A b \in Buckets : \A s \in 1..SLOTS :
             table[b][s].occ => table'[b][s] = table[b][s]

\* What leads to an entry then still does, ...
LEMMA SlotKept ==
    ASSUME Setting, hashOf \in HashChoices, hashOf' = hashOf, Grown,
           NEW k \in Keys, NEW a, HasSlot(k, a)
    PROVE  HasSlot(k, a)'
<1> DEFINE g == remote_lookup(hashOf, k)
<1>1. PICK i \in 1..2 : \E s \in 1..SLOTS : Fits(table[g[i]][s], k) /\ table[g[i]][s].addr = a
    BY DEF HasSlot
<1>2. PICK s \in 1..SLOTS : Fits(table[g[i]][s], k) /\ table[g[i]][s].addr = a
    BY <1>1
<1>3. g[i] \in Buckets
    BY GroupOfKey
<1>4. table'[g[i]][s] = table[g[i]][s]
    BY <1>2, <1>3 DEF Grown, Fits
<1>5. /\ table'[g[i]][s].occ /\ table'[g[i]][s].fp = hashOf[k].fp
      /\ table'[g[i]][s].addr = a
    BY <1>2, <1>4 DEF Fits
<1>6. \E j \in 1..2 : \E x \in 1..SLOTS :
        /\ table'[remote_lookup(hashOf', k)[j]][x].occ
        /\ table'[remote_lookup(hashOf', k)[j]][x].fp = hashOf'[k].fp
        /\ table'[remote_lookup(hashOf', k)[j]][x].addr = a
    BY <1>5
<1> QED
    BY <1>6 DEF HasSlot, Fits

\* ... and a search under way finds what it would have found.
LEMMA SearchKept ==
    ASSUME Setting, IInv, Grown, hashOf' = hashOf, done \subseteq done',
           NEW u \in Threads, thr'[u] = thr[u], SearchInv(thr[u])
    PROVE  SearchInv(thr[u])'
<1> DEFINE q == thr[u]
           k == q.key
           g == remote_lookup(hashOf, k)
<1>1. /\ thr'[u].pc # "idle" /\ thr'[u].must => thr'[u].key \in done'
      /\ thr'[u].pc # "bump" => thr'[u].found \/ (thr'[u].pc = "idle" /\ ~thr'[u].must)
    BY DEF SearchInv
<1>2. ASSUME q.pc \in {"read", "pick"}, q.must
      PROVE  \E i \in 1..2 : \E s \in 1..SLOTS :
               /\ table'[remote_lookup(hashOf', k)[i]][s].occ
               /\ table'[remote_lookup(hashOf', k)[i]][s].fp = hashOf'[k].fp
               /\ i <= Len(q.buf) => q.buf[i][s].occ /\ q.buf[i][s].fp = hashOf'[k].fp
  <2>1. k \in Keys /\ \A i \in 1..2 : g[i] \in Buckets
      BY <1>2, InOperation
  <2>2. PICK i \in 1..2 : \E s \in 1..SLOTS :
          Fits(table[g[i]][s], k) /\ (i <= Len(q.buf) => Fits(q.buf[i][s], k))
      BY <1>2 DEF SearchInv
  <2>3. PICK s \in 1..SLOTS :
          Fits(table[g[i]][s], k) /\ (i <= Len(q.buf) => Fits(q.buf[i][s], k))
      BY <2>2
  <2>4. table'[g[i]][s] = table[g[i]][s]
      BY <2>1, <2>3 DEF Grown, Fits
  <2>5. /\ table'[g[i]][s].occ /\ table'[g[i]][s].fp = hashOf[k].fp
        /\ i <= Len(q.buf) => q.buf[i][s].occ /\ q.buf[i][s].fp = hashOf[k].fp
      BY <2>3, <2>4 DEF Fits
  <2> QED
      BY <2>5
<1>3. thr'[u].pc \in {"read", "pick"} /\ thr'[u].must =>
        \E i \in 1..2 : \E s \in 1..SLOTS :
          /\ Fits(table[remote_lookup(hashOf, thr[u].key)[i]][s], thr[u].key)'
          /\ i <= Len(thr'[u].buf) => Fits(thr[u].buf[i][s], thr[u].key)'
    BY <1>2 DEF Fits
<1> QED
    BY <1>1, <1>3 DEF SearchInv

\* A thread that is not writing has no part in what is said of the writer.
LEMMA Spectator ==
    ASSUME NEW u \in Threads, StageInv(thr'[u]), thr'[u].pc = "idle" \/ thr'[u].op = "search"
    PROVE  WriterInv(u)'
BY DEF StageInv, WriterInv, FreshInv, KeepInv, AddInv, PlacedInv, StoreInv

\* The writer's record changes and nothing it refers to.
LEMMA WriterKept ==
    ASSUME UNCHANGED <<hashOf, table, packed, num>>, NEW u \in Threads,
           thr'[u].pc # "idle" /\ thr'[u].op # "search" => Writes(u),
           FreshInv(thr'[u]), KeepInv(thr'[u]), AddInv(thr'[u]),
           PlacedInv(thr'[u]), StoreInv(thr'[u])
    PROVE  WriterInv(u)'
<1>1. \A k, a : HasSlot(k, a) => HasSlot(k, a)'
    BY DEF HasSlot, Fits
<1>2. FreshInv(thr[u])'
    BY DEF FreshInv
<1>3. KeepInv(thr[u])' /\ AddInv(thr[u])'
  <2> DEFINE r == thr'[u]
             g == remote_lookup(hashOf, r.key)
             G == remote_lookup(hashOf', r.key)
  <2>1. \A i \in 1..2 : \A s \in 1..SLOTS : table'[G[i]][s] = table[g[i]][s]
      OBVIOUS
  <2>2. ASSUME r.pc = "write"
        PROVE  \A i \in 1..2 : \A s \in 1..SLOTS :
                 table'[G[i]][s].occ => r.buf[i][s] = table'[G[i]][s]
      BY <2>1, <2>2 DEF KeepInv
  <2>3. ASSUME r.pc = "write"
        PROVE  \E i \in 1..2 : \E s \in 1..SLOTS :
                 /\ r.buf[i][s].occ /\ r.buf[i][s].fp = hashOf'[r.key].fp
                 /\ r.buf[i][s].addr = num'
                 /\ i < r.at => table'[G[i]][s] = r.buf[i][s]
    <3>1. PICK i \in 1..2, s \in 1..SLOTS :
            /\ r.buf[i][s].occ /\ r.buf[i][s].fp = hashOf[r.key].fp
            /\ r.buf[i][s].addr = num
            /\ i < r.at => table[g[i]][s] = r.buf[i][s]
        BY <2>3 DEF AddInv, Fits
    <3>2. /\ r.buf[i][s].occ /\ r.buf[i][s].fp = hashOf'[r.key].fp
          /\ r.buf[i][s].addr = num'
          /\ i < r.at => table'[G[i]][s] = r.buf[i][s]
        BY <2>1, <3>1
    <3> HIDE DEF r, g, G
    <3> QED
        BY <3>2
  <2>4. KeepInv(thr[u])'
      BY <2>2 DEF KeepInv
  <2>5. AddInv(thr[u])'
      BY <2>3 DEF AddInv, Fits
  <2> QED
      BY <2>4, <2>5
<1>4. PlacedInv(thr[u])'
    BY <1>1 DEF PlacedInv
<1>5. StoreInv(thr[u])'
    BY <1>1 DEF StoreInv
<1> QED
    BY <1>2, <1>3, <1>4, <1>5 DEF WriterInv, Writes

\* So it is with a search whose record changes.
LEMMA SearchMoved ==
    ASSUME UNCHANGED <<hashOf, table, done>>, NEW u \in Threads, SearchInv(thr'[u])
    PROVE  SearchInv(thr[u])'
<1> DEFINE r == thr'[u]
           g == remote_lookup(hashOf, r.key)
<1>1. /\ r.pc # "idle" /\ r.must => r.key \in done'
      /\ r.pc # "bump" => r.found \/ (r.pc = "idle" /\ ~r.must)
    BY DEF SearchInv
<1>2. ASSUME r.pc \in {"read", "pick"}, r.must
      PROVE  \E i \in 1..2 : \E s \in 1..SLOTS :
               /\ table'[remote_lookup(hashOf', r.key)[i]][s].occ
               /\ table'[remote_lookup(hashOf', r.key)[i]][s].fp = hashOf'[r.key].fp
               /\ i <= Len(r.buf) => r.buf[i][s].occ /\ r.buf[i][s].fp = hashOf'[r.key].fp
  <2>1. PICK i \in 1..2, s \in 1..SLOTS :
          /\ table[g[i]][s].occ /\ table[g[i]][s].fp = hashOf[r.key].fp
          /\ i <= Len(r.buf) => r.buf[i][s].occ /\ r.buf[i][s].fp = hashOf[r.key].fp
      BY <1>2 DEF SearchInv, Fits
  <2>2. table'[remote_lookup(hashOf', r.key)[i]][s] = table[g[i]][s]
      OBVIOUS
  <2> QED
      BY <2>1, <2>2
<1>3. thr'[u].pc \in {"read", "pick"} /\ thr'[u].must =>
        \E i \in 1..2 : \E s \in 1..SLOTS :
          /\ Fits(table[remote_lookup(hashOf, thr[u].key)[i]][s], thr[u].key)'
          /\ i <= Len(thr'[u].buf) => Fits(thr[u].buf[i][s], thr[u].key)'
    BY <1>2 DEF Fits
<1> QED
    BY <1>1, <1>3 DEF SearchInv

\* A step that changes nothing but the record of one thread.
LEMMA LocalReach ==
    ASSUME Setting, IInv, ReachInv, NEW t \in Threads,
           UNCHANGED <<hashOf, table, packed, num, done, loaded>>,
           \A u \in Threads : u # t => thr'[u] = thr[u],
           loaded = -1, thr[t].pc # "bump",
           thr'[t].pc # "idle" /\ thr'[t].op # "search" => Writes(t),
           FreshInv(thr'[t]), KeepInv(thr'[t]), AddInv(thr'[t]),
           PlacedInv(thr'[t]), StoreInv(thr'[t]), SearchInv(thr'[t])
    PROVE  ReachInv'
<1>1. ASSUME NEW u \in Threads PROVE WriterInv(u)'
  <2>1. CASE u = t
      BY <2>1, WriterKept
  <2>2. CASE u # t
    <3>1. thr'[u] = thr[u] /\ WriterInv(u)
        BY <2>2 DEF ReachInv
    <3>2. /\ thr'[u].pc # "idle" /\ thr'[u].op # "search" => Writes(u)
          /\ FreshInv(thr'[u]) /\ KeepInv(thr'[u]) /\ AddInv(thr'[u])
          /\ PlacedInv(thr'[u]) /\ StoreInv(thr'[u])
        BY <3>1 DEF WriterInv
    <3> QED
        BY <3>2, WriterKept
  <2> QED
      BY <2>1, <2>2
<1>2. ASSUME NEW u \in Threads PROVE SearchInv(thr[u])'
  <2>1. SearchInv(thr'[u])
      BY DEF ReachInv
  <2> QED
      BY <2>1, SearchMoved
<1>3. EntryInv'
  <2> SUFFICES ASSUME NEW a \in Addrs, a >= num, packed[a].key \in NewKeys
               PROVE  a = num /\ \E u \in Threads : thr'[u].pc = "bump" /\ thr'[u].found
      BY DEF EntryInv
  <2>1. a = num /\ \E u \in Threads : thr[u].pc = "bump" /\ thr[u].found
      BY DEF ReachInv, EntryInv
  <2> QED
      BY <2>1
<1>4. DoneInv'
  <2>1. \A k, a : HasSlot(k, a) => HasSlot(k, a)'
      BY DEF HasSlot, Fits
  <2> QED
      BY <2>1 DEF ReachInv, DoneInv
<1> QED
    BY <1>1, <1>2, <1>3, <1>4 DEF ReachInv

\* Clients run once the load is over.
LEMMA Running ==
    ASSUME ReachInv, NEW t \in Threads, thr[t].pc # "idle"
    PROVE  loaded = -1
BY DEF ReachInv

\* A search that begins for an inserted key has its slot before it.
LEMMA BeginReach ==
    ASSUME Setting, IInv, ReachInv, NEW t \in Threads,
           NEW op \in {"search", "insert", "update"}, NEW k \in Keys, Begin(t, op, k)
    PROVE  ReachInv'
<1> DEFINE m == k \in done
           r == [Idle EXCEPT !.op = op, !.key = k, !.pc = "read", !.must = m]
<1>1. /\ thr' = [thr EXCEPT ![t] = r] /\ thr \in [Threads -> ThreadSet] /\ loaded = -1
      /\ UNCHANGED <<hashOf, table, packed, num, done, loaded>>
      /\ thr[t].pc = "idle" /\ op \in OpsOf[t]
    BY DEF Begin, IInv, TypeInv
<1>2. m \in BOOLEAN
    OBVIOUS
<1> HIDE DEF m
<1>3. /\ r.op = op /\ r.key = k /\ r.pc = "read" /\ r.buf = <<>>
      /\ r.must = m /\ r.found = TRUE
    BY <1>2, IdleType DEF ThreadSet
<1>4. thr'[t] = r /\ \A u \in Threads : u # t => thr'[u] = thr[u]
    BY <1>1
<1> HIDE DEF r
<1>5. r.pc # "idle" /\ r.op # "search" => Writes(t)
    BY <1>1, <1>3 DEF Writes
<1>6. FreshInv(r) /\ KeepInv(r) /\ AddInv(r) /\ PlacedInv(r) /\ StoreInv(r)
  <2>1. Len(r.buf) = 0
      BY <1>3
  <2>2. FreshInv(r)
      BY <2>1 DEF FreshInv
  <2> QED
      BY <1>3, <2>2 DEF KeepInv, AddInv, PlacedInv, StoreInv
<1>7. SearchInv(r)
  <2>1. m => k \in done
      BY DEF m
  <2>2. ASSUME m PROVE \E i \in 1..2 : \E s \in 1..SLOTS :
                         Fits(table[remote_lookup(hashOf, k)[i]][s], k)
      BY <2>1, <2>2 DEF ReachInv, DoneInv, HasSlot
  <2>3. Len(r.buf) = 0
      BY <1>3
  <2> QED
      BY <1>3, <2>1, <2>2, <2>3 DEF SearchInv
<1> QED
    BY <1>1, <1>4, <1>5, <1>6, <1>7, LocalReach

\* The copies are those of the table; a slot to be found is copied or still ahead.
LEMMA ReadBucketReach ==
    ASSUME Setting, IInv, ReachInv, NEW t \in Threads, ReadBucket(t)
    PROVE  ReachInv'
<1> DEFINE q == thr[t]
           r == thr'[t]
           n == Len(q.buf)
           g == remote_lookup(hashOf, q.key)
           e == table[g[n + 1]]
<1>1. /\ q.pc = "read" /\ loaded = -1 /\ q.buf \in Seq(BucketSet) /\ q \in ThreadSet
      /\ UNCHANGED <<hashOf, table, packed, num, done, loaded>>
      /\ thr \in [Threads -> ThreadSet] /\ StageInv(q) /\ q.key \in Keys
      /\ \A j \in 1..2 : g[j] \in Buckets
    BY InOperation, Running DEF ReadBucket
<1>2. /\ r.buf = Append(q.buf, e) /\ r.op = q.op /\ r.key = q.key
      /\ r.must = q.must /\ r.found = q.found /\ r.pc \in {"read", "match", "pick"}
      /\ \A u \in Threads : u # t => thr'[u] = thr[u]
    BY <1>1 DEF ReadBucket, ThreadSet
<1>3. n \in {0, 1} /\ n + 1 \in 1..2 /\ n \in Nat
  <2>1. n \in {0, 1}
      BY <1>1 DEF StageInv
  <2>2. \A x \in {0, 1} : x + 1 \in 1..2 /\ x \in Nat
      OBVIOUS
  <2> QED
      BY <2>1, <2>2
<1>4. e \in BucketSet
    BY <1>1, <1>3 DEF IInv, TypeInv
<1> HIDE DEF q, r, n
<1>5. Len(r.buf) = n + 1 /\ r.buf[n + 1] = e /\ \A i \in 1..n : r.buf[i] = q.buf[i]
  <2> DEFINE c == q.buf
  <2>1. c \in Seq(BucketSet) /\ n = Len(c)
      BY <1>1 DEF n
  <2> HIDE DEF c, e
  <2>2. /\ Len(Append(c, e)) = Len(c) + 1 /\ Append(c, e)[Len(c) + 1] = e
        /\ \A j \in 1..Len(c) : Append(c, e)[j] = c[j]
      BY <1>4, <2>1, AppendProperties
  <2> QED
      BY <1>2, <2>1, <2>2 DEF c
<1>6. WriterInv(t) /\ SearchInv(q)
    BY DEF ReachInv, q
<1>7. r.pc # "idle" /\ r.op # "search" => Writes(t)
    BY <1>1, <1>2, <1>6 DEF WriterInv, q
<1>8. FreshInv(r)
  <2> SUFFICES ASSUME r.op = "insert", NEW i \in 1..(n + 1)
               PROVE  r.buf[i] = table[g[i]]
      BY <1>2, <1>5 DEF FreshInv
  <2>1. CASE i = n + 1
      BY <1>5, <2>1
  <2>2. CASE i # n + 1
    <3>1. i \in 1..n
        BY <1>3, <2>2
    <3>2. q.buf[i] = table[g[i]]
        BY <1>1, <1>2, <1>6, <3>1 DEF WriterInv, FreshInv, q, n
    <3> QED
        BY <1>5, <3>1, <3>2
  <2> QED
      BY <2>1, <2>2
<1>9. KeepInv(r) /\ AddInv(r) /\ PlacedInv(r) /\ StoreInv(r)
    BY <1>2 DEF KeepInv, AddInv, PlacedInv, StoreInv
<1>10. SearchInv(r)
  <2>1. /\ r.pc # "idle" /\ r.must => r.key \in done
        /\ r.found
      BY <1>1, <1>2, <1>6 DEF SearchInv
  <2>2. ASSUME r.must
        PROVE  \E i \in 1..2 : \E s \in 1..SLOTS :
                 /\ Fits(table[g[i]][s], q.key)
                 /\ i <= n + 1 => Fits(r.buf[i][s], q.key)
    <3>1. PICK i \in 1..2, s \in 1..SLOTS :
            Fits(table[g[i]][s], q.key) /\ (i <= n => Fits(q.buf[i][s], q.key))
        BY <1>1, <1>2, <1>6, <2>2 DEF SearchInv, n
    <3>2. CASE i = n + 1
      <4>1. r.buf[i][s] = table[g[i]][s]
          BY <1>5, <3>2
      <4> QED
          BY <3>1, <4>1
    <3>3. CASE i # n + 1
      <4>1. i <= n + 1 => i \in 1..n /\ i <= n
          BY <1>3, <3>3
      <4>2. i <= n + 1 => r.buf[i] = q.buf[i]
          BY <1>5, <4>1
      <4> QED
          BY <3>1, <4>1, <4>2
    <3> QED
        BY <3>2, <3>3
  <2> QED
      BY <1>2, <1>5, <2>1, <2>2 DEF SearchInv
<1> QED
    BY <1>1, <1>2, <1>7, <1>8, <1>9, <1>10, LocalReach DEF q, r

\* A bucket with any slot in use has its first slot in use.
LEMMA FirstInUse ==
    ASSUME Setting, NEW bucket, Ordered(bucket), NEW s \in 1..SLOTS, bucket[s].occ
    PROVE  bucket[1].occ
<1> DEFINE T == {x \in 1..SLOTS : bucket[x].occ}
<1>1. T \subseteq Nat /\ T # {}
    OBVIOUS
<1>2. PICK x \in T : \A y \in T : x <= y
    BY <1>1, NatMin
<1>3. SUFFICES ASSUME x # 1 PROVE FALSE
    BY <1>2
<1>4. x \in 1..SLOTS /\ SLOTS \in Nat /\ bucket[x].occ
    BY DEF Setting
<1>5. x - 1 \in 1..(SLOTS - 1) /\ x - 1 \in 1..SLOTS /\ (x - 1) + 1 = x /\ ~(x <= x - 1)
    BY <1>3, <1>4
<1>6. bucket[x - 1].occ
    BY <1>4, <1>5 DEF Ordered
<1> QED
    BY <1>2, <1>5, <1>6

\* The first slot of its bucket is in use, so the slot to be found counts.
LEMMA PickReach ==
    ASSUME Setting, IInv, ReachInv, NEW t \in Threads, Pick(t)
    PROVE  ReachInv'
<1> DEFINE q == thr[t]
           r == thr'[t]
           M == PickMatches(hashOf, q.key, q.buf)
<1>1. /\ q.pc = "pick" /\ loaded = -1 /\ q \in ThreadSet
      /\ UNCHANGED <<hashOf, table, packed, num, done, loaded>>
      /\ thr \in [Threads -> ThreadSet] /\ StageInv(q) /\ CopyInv(q)
    BY InOperation, Running DEF Pick
<1>2. \A u \in Threads : u # t => thr'[u] = thr[u]
    BY <1>1 DEF Pick
<1>3. WriterInv(t) /\ SearchInv(q)
    BY DEF ReachInv
<1>4. CASE M = {}
  <2>1. ~q.must
    <3> SUFFICES ASSUME q.must PROVE FALSE
        OBVIOUS
    <3>1. PICK i \in 1..2, s \in 1..SLOTS : i <= Len(q.buf) => Fits(q.buf[i][s], q.key)
        BY <1>1, <1>3 DEF SearchInv
    <3>2. Len(q.buf) = 2 /\ i \in 1..Len(q.buf)
        BY <1>1 DEF StageInv
    <3>3. q.buf[i][s].occ /\ q.buf[i][s].fp = hashOf[q.key].fp /\ Ordered(q.buf[i])
      <4>1. Fits(q.buf[i][s], q.key)
          BY <3>1, <3>2
      <4>2. Ordered(q.buf[i])
          BY <1>1, <3>2 DEF CopyInv
      <4> QED
          BY <4>1, <4>2 DEF Fits
    <3>4. q.buf[i][1].occ
        BY <3>3, FirstInUse
    <3>5. PICK p \in Positions : BucketAt(p) = i /\ PlaceAt(p) = s
        BY PositionOf
    <3> QED
        BY <1>4, <3>3, <3>4, <3>5 DEF PickMatches, SlotAt
  <2> DEFINE m == q.must
  <2>2. m \in BOOLEAN /\ ~m
      BY <1>1, <2>1 DEF ThreadSet
  <2>3. r = [Idle EXCEPT !.must = m, !.found = FALSE]
      BY <1>1, <1>4 DEF Pick
  <2> HIDE DEF m
  <2>4. r.pc = "idle" /\ r.must = m /\ StageInv(r)
      BY <2>2, <2>3, IdleSound
  <2> HIDE DEF r
  <2>5. FreshInv(r) /\ KeepInv(r) /\ AddInv(r) /\ PlacedInv(r) /\ StoreInv(r)
      BY <2>4 DEF FreshInv, KeepInv, AddInv, PlacedInv, StoreInv
  <2>6. SearchInv(r)
      BY <2>2, <2>4 DEF SearchInv
  <2> QED
      BY <1>1, <1>2, <2>4, <2>5, <2>6, LocalReach DEF r
<1>5. CASE M # {}
  <2>1. /\ r.pc = "fetch" /\ r.op = q.op /\ r.key = q.key /\ r.must = q.must
        /\ r.found = q.found
      BY <1>1, <1>5 DEF Pick, ThreadSet
  <2> HIDE DEF r
  <2>2. FreshInv(r) /\ KeepInv(r) /\ AddInv(r) /\ PlacedInv(r) /\ StoreInv(r)
      BY <2>1 DEF FreshInv, KeepInv, AddInv, PlacedInv, StoreInv
  <2>3. SearchInv(r) /\ (r.pc # "idle" /\ r.op # "search" => Writes(t))
      BY <1>1, <1>3, <2>1 DEF SearchInv, WriterInv
  <2> QED
      BY <1>1, <1>2, <2>2, <2>3, LocalReach DEF r
<1> QED
    BY <1>4, <1>5

\* An update keeps the key of the entry it has read.
LEMMA FetchReach ==
    ASSUME Setting, IInv, ReachInv, NEW t \in Threads, Fetch(t)
    PROVE  ReachInv'
<1> DEFINE q == thr[t]
           r == thr'[t]
<1>1. /\ q.pc = "fetch" /\ loaded = -1 /\ q \in ThreadSet
      /\ UNCHANGED <<hashOf, table, packed, num, done, loaded>>
      /\ thr \in [Threads -> ThreadSet] /\ StageInv(q)
    BY InOperation, Running DEF Fetch
<1>2. \A u \in Threads : u # t => thr'[u] = thr[u]
    BY <1>1 DEF Fetch
<1>3. WriterInv(t) /\ SearchInv(q)
    BY DEF ReachInv
<1>4. CASE q.op = "search"
  <2> DEFINE m == q.must
  <2>1. m \in BOOLEAN
      BY <1>1 DEF ThreadSet
  <2>2. r = [Idle EXCEPT !.must = m]
      BY <1>1, <1>4 DEF Fetch
  <2> HIDE DEF m
  <2>3. r.pc = "idle" /\ r.found = TRUE
      BY <2>1, <2>2, IdleType DEF ThreadSet
  <2> HIDE DEF r
  <2>4. FreshInv(r) /\ KeepInv(r) /\ AddInv(r) /\ PlacedInv(r) /\ StoreInv(r)
      BY <2>3 DEF FreshInv, KeepInv, AddInv, PlacedInv, StoreInv
  <2>5. SearchInv(r)
      BY <2>3 DEF SearchInv
  <2> QED
      BY <1>1, <1>2, <2>3, <2>4, <2>5, LocalReach DEF r
<1>5. CASE q.op # "search"
  <2> DEFINE e == packed[q.addr]
  <2>1. r = [q EXCEPT !.entry = e, !.pc = "store"]
      BY <1>1, <1>5 DEF Fetch
  <2>2. /\ r.pc = "store" /\ r.op = q.op /\ r.key = q.key /\ r.must = q.must
        /\ r.found = q.found /\ r.entry = packed[r.addr]
      BY <1>1, <2>1 DEF ThreadSet
  <2> HIDE DEF r
  <2>3. q.op # "insert"
      BY <1>1 DEF StageInv
  <2>4. FreshInv(r) /\ KeepInv(r) /\ AddInv(r) /\ PlacedInv(r) /\ StoreInv(r)
      BY <2>2, <2>3 DEF FreshInv, KeepInv, AddInv, PlacedInv, StoreInv
  <2>5. SearchInv(r) /\ (r.pc # "idle" /\ r.op # "search" => Writes(t))
      BY <1>1, <1>3, <2>2 DEF SearchInv, WriterInv
  <2> QED
      BY <1>1, <1>2, <2>4, <2>5, LocalReach DEF r
<1> QED
    BY <1>4, <1>5

\* While one thread writes, no other counts an entry.
LEMMA NoOtherBump ==
    ASSUME IInv, ReachInv, OneWriter, NEW t \in Threads, thr[t].pc \notin {"idle", "bump"},
           thr[t].op # "search", NEW a \in Addrs, packed[a].key \in NewKeys
    PROVE  a < num
<1>1. SUFFICES ASSUME a >= num PROVE FALSE
  <2>1. a \in Int /\ num \in Int
      BY DEF IInv, TypeInv, Addrs
  <2> QED
      BY <2>1
<1>2. PICK u \in Threads : thr[u].pc = "bump"
    BY <1>1 DEF ReachInv, EntryInv
<1>3. thr[u].op = "insert"
    BY <1>2 DEF IInv, StageInv
<1>4. Writes(u) /\ Writes(t)
    BY <1>2, <1>3 DEF ReachInv, WriterInv
<1> QED
    BY <1>2, <1>4 DEF OneWriter

\* An insert that finds its key has found an entry that is counted.
LEMMA MatchReach ==
    ASSUME Setting, IInv, ReachInv, OneWriter, NEW t \in Threads, Match(t)
    PROVE  ReachInv'
<1> DEFINE q == thr[t]
           r == thr'[t]
           k == q.key
           g == remote_lookup(hashOf, k)
           M == InsertMatches(hashOf, k, q.buf, q.at)
           first == CHOOSE p \in M : \A x \in M : p <= x
           a == SlotAt(q.buf, first).addr
<1>1. /\ q.pc = "match" /\ loaded = -1 /\ q \in ThreadSet /\ q.buf \in Seq(BucketSet)
      /\ UNCHANGED <<hashOf, table, packed, num, done, loaded>>
      /\ thr \in [Threads -> ThreadSet] /\ StageInv(q)
    BY InOperation, Running DEF Match
<1>2. \A u \in Threads : u # t => thr'[u] = thr[u]
    BY <1>1 DEF Match, Goto
<1>3. WriterInv(t) /\ SearchInv(q)
    BY DEF ReachInv
<1>4. /\ Len(q.buf) = 2 /\ q.op = "insert" /\ k \in NewKeys /\ Writes(t) /\ q.found
      /\ \A i \in 1..2 : q.buf[i] = table[g[i]]
  <2>1. Len(q.buf) = 2 /\ q.op = "insert" /\ k \in NewKeys
      BY <1>1 DEF StageInv
  <2> QED
      BY <1>1, <1>3, <2>1 DEF WriterInv, FreshInv, SearchInv
<1>5. CASE M = {}
  <2>1. /\ r.pc = "compose" /\ r.op = q.op /\ r.key = k /\ r.must = q.must
        /\ r.found = q.found /\ r.buf = q.buf
      BY <1>1, <1>5 DEF Match, Goto, ThreadSet
  <2> HIDE DEF r
  <2>2. FreshInv(r)
      BY <1>4, <2>1 DEF FreshInv
  <2>3. KeepInv(r) /\ AddInv(r) /\ PlacedInv(r) /\ StoreInv(r)
      BY <2>1 DEF KeepInv, AddInv, PlacedInv, StoreInv
  <2>4. SearchInv(r)
      BY <1>1, <1>3, <2>1 DEF SearchInv
  <2> QED
      BY <1>1, <1>2, <1>4, <2>2, <2>3, <2>4, LocalReach DEF r
<1>6. CASE M # {}
  <2>1. /\ r.addr = a /\ r.entry = packed[a] /\ r.op = q.op /\ r.key = k
        /\ r.must = q.must /\ r.found = q.found /\ r.buf = q.buf
        /\ r.pc = IF packed[a].key = k THEN "store" ELSE "match"
    <3> DEFINE e == packed[a]
               p == IF e.key = k THEN "store" ELSE "match"
    <3>1. thr' = [thr EXCEPT ![t] = [q EXCEPT !.at = first, !.addr = a, !.entry = e, !.pc = p]]
        BY <1>1, <1>6 DEF Match, ThreadSet
    <3> HIDE DEF first, a, e, p
    <3>2. /\ r.addr = a /\ r.entry = e /\ r.op = q.op /\ r.key = k
          /\ r.must = q.must /\ r.found = q.found /\ r.buf = q.buf /\ r.pc = p
        BY <1>1, <3>1 DEF ThreadSet
    <3> QED
        BY <3>2 DEF e, p
  <2>2. first \in M
    <3>1. M \subseteq Nat
        BY DEF InsertMatches, Positions
    <3>2. \E x \in M : \A y \in M : x <= y
        BY <1>6, <3>1, NatMin
    <3> QED
        BY <3>2
  <2> DEFINE i == BucketAt(first)
             s == PlaceAt(first)
  <2>3. first \in Positions /\ Fits(q.buf[i][s], k) /\ q.buf[i][s].addr = a
      BY <2>2 DEF InsertMatches, SlotAt, Fits
  <2>4. i \in 1..2 /\ s \in 1..SLOTS
      BY <2>3, PositionParts
  <2>5. q.buf[i] \in BucketSet
      BY <1>1, <1>4, <2>4, ElementOfSeq
  <2>6. a \in Addrs
      BY <2>3, <2>4, <2>5 DEF BucketSet, SlotSet
  <2> HIDE DEF first, i, s, a, r
  <2>7. HasSlot(k, a)
    <3>1. Fits(table[g[i]][s], k) /\ table[g[i]][s].addr = a
        BY <1>4, <2>3, <2>4
    <3> QED
        BY <2>4, <3>1 DEF HasSlot
  <2>8. packed[a].key = k => a < num
      BY <1>1, <1>4, <2>6, NoOtherBump
  <2>9. FreshInv(r)
      BY <1>4, <2>1 DEF FreshInv
  <2>10. StoreInv(r)
      BY <2>1, <2>7, <2>8 DEF StoreInv
  <2>11. KeepInv(r) /\ AddInv(r) /\ PlacedInv(r)
      BY <2>1 DEF KeepInv, AddInv, PlacedInv
  <2>12. SearchInv(r)
      BY <1>1, <1>3, <2>1 DEF SearchInv
  <2> QED
      BY <1>1, <1>2, <1>4, <2>9, <2>10, <2>11, <2>12, LocalReach DEF r
<1> QED
    BY <1>5, <1>6

\* num is what it was when the slot was filled.
LEMMA PdAddrReach ==
    ASSUME Setting, IInv, ReachInv, NEW t \in Threads, PdAddr(t)
    PROVE  ReachInv'
<1> DEFINE q == thr[t]
           r == thr'[t]
<1>1. /\ q.pc = "pdaddr" /\ loaded = -1 /\ q \in ThreadSet
      /\ UNCHANGED <<hashOf, table, packed, num, done, loaded>>
      /\ thr \in [Threads -> ThreadSet]
    BY InOperation, Running DEF PdAddr
<1>2. /\ r.pc = "entry" /\ r.op = q.op /\ r.key = q.key /\ r.must = q.must
      /\ r.found = q.found /\ r.addr = num
      /\ \A u \in Threads : u # t => thr'[u] = thr[u]
    BY <1>1 DEF PdAddr, ThreadSet
<1>3. WriterInv(t) /\ SearchInv(q)
    BY DEF ReachInv
<1> HIDE DEF r
<1>4. PlacedInv(r)
    BY <1>1, <1>2, <1>3 DEF WriterInv, PlacedInv
<1>5. FreshInv(r) /\ KeepInv(r) /\ AddInv(r) /\ StoreInv(r)
    BY <1>2 DEF FreshInv, KeepInv, AddInv, StoreInv
<1>6. SearchInv(r) /\ (r.pc # "idle" /\ r.op # "search" => Writes(t))
    BY <1>1, <1>2, <1>3 DEF SearchInv, WriterInv
<1> QED
    BY <1>1, <1>2, <1>4, <1>5, <1>6, LocalReach DEF r

\* The slot that is filled was free in the table.
LEMMA ComposeReach ==
    ASSUME Setting, IInv, ReachInv, NEW t \in Threads, Compose(t)
    PROVE  ReachInv'
<1> DEFINE q == thr[t]
           r == thr'[t]
           k == q.key
           g == remote_lookup(hashOf, k)
           p == FreeChoice(q.buf)
           i == BucketAt(p)
           f == PlaceAt(p)
           e == Filled(hashOf, k, num)
<1>1. /\ q.pc = "compose" /\ loaded = -1 /\ q \in ThreadSet /\ q.buf \in Seq(BucketSet)
      /\ UNCHANGED <<hashOf, table, packed, num, done, loaded>>
      /\ thr \in [Threads -> ThreadSet] /\ StageInv(q)
    BY InOperation, Running DEF Compose
<1>2. \A u \in Threads : u # t => thr'[u] = thr[u]
    BY <1>1 DEF Compose
<1>3. WriterInv(t) /\ SearchInv(q)
    BY DEF ReachInv
<1>4. /\ Len(q.buf) = 2 /\ q.op = "insert" /\ Writes(t) /\ q.found
      /\ \A j \in 1..2 : q.buf[j] = table[g[j]]
  <2>1. Len(q.buf) = 2 /\ q.op = "insert"
      BY <1>1 DEF StageInv
  <2> QED
      BY <1>1, <1>3, <2>1 DEF WriterInv, FreshInv, SearchInv
<1>5. CASE FreePositions(q.buf) = {}
  <2>1. r.pc = "bump" /\ r.found = FALSE /\ r.op = q.op /\ r.key = k /\ r.must = q.must
      BY <1>1, <1>5 DEF Compose, ThreadSet
  <2> HIDE DEF r
  <2>2. FreshInv(r) /\ KeepInv(r) /\ AddInv(r) /\ PlacedInv(r) /\ StoreInv(r)
      BY <2>1 DEF FreshInv, KeepInv, AddInv, PlacedInv, StoreInv
  <2>3. SearchInv(r)
      BY <1>1, <1>3, <2>1 DEF SearchInv
  <2> QED
      BY <1>1, <1>2, <1>4, <2>2, <2>3, LocalReach DEF r
<1>6. CASE FreePositions(q.buf) # {}
  <2>1. i \in 1..2 /\ f \in 1..SLOTS /\ ~q.buf[i][f].occ
      BY <1>1, <1>4, <1>6, ChoiceSound
  <2>2. thr' = [thr EXCEPT ![t].buf[i][f] = e, ![t].at = 1, ![t].pc = "write"]
      BY <1>6 DEF Compose
  <2>3. Fits(e, k) /\ e.addr = num
      BY DEF Filled, Fits
  <2> HIDE DEF p, i, f, e
  <2>4. q.buf[i] \in BucketSet
      BY <1>1, <1>4, <2>1, ElementOfSeq
  <2> DEFINE new == [q.buf[i] EXCEPT ![f] = e]
             c == [q.buf EXCEPT ![i] = new]
  <2>5. new[f] = e /\ \A s \in 1..SLOTS : s # f => new[s] = q.buf[i][s]
      BY <2>1, <2>4 DEF BucketSet
  <2>6. /\ r.pc = "write" /\ r.at = 1 /\ r.buf = c /\ r.op = q.op /\ r.key = k
        /\ r.must = q.must /\ r.found = q.found
      BY <1>1, <2>2 DEF ThreadSet
  <2> HIDE DEF new
  <2>7. c[i] = new /\ \A j \in 1..2 : j # i => c[j] = q.buf[j]
    <3>1. DOMAIN q.buf = 1..2
        BY <1>1, <1>4, LenProperties
    <3> QED
        BY <2>1, <3>1
  <2> HIDE DEF c, r
  <2>8. KeepInv(r)
    <3> SUFFICES ASSUME NEW j \in 1..2, NEW s \in 1..SLOTS, table[g[j]][s].occ
                 PROVE  c[j][s] = table[g[j]][s]
      <4>1. remote_lookup(hashOf, r.key) = g
          BY <2>6
      <4> HIDE DEF g
      <4> QED
          BY <2>6, <4>1 DEF KeepInv
    <3>1. q.buf[j][s] = table[g[j]][s]
        BY <1>4
    <3>2. c[j][s] = q.buf[j][s]
      <4>1. CASE j # i
          BY <2>7, <4>1
      <4>2. CASE j = i
        <5>1. s # f
            BY <2>1, <3>1, <4>2
        <5> QED
            BY <2>5, <2>7, <4>2, <5>1
      <4> QED
          BY <4>1, <4>2
    <3> QED
        BY <3>1, <3>2
  <2>9. AddInv(r)
    <3>1. Fits(c[i][f], k) /\ c[i][f].addr = num /\ ~(i < r.at)
        BY <2>1, <2>3, <2>5, <2>6, <2>7
    <3> QED
        BY <2>1, <2>6, <3>1 DEF AddInv
  <2>10. FreshInv(r) /\ PlacedInv(r) /\ StoreInv(r)
      BY <2>6 DEF FreshInv, PlacedInv, StoreInv
  <2>11. SearchInv(r)
      BY <1>1, <1>3, <2>6 DEF SearchInv
  <2> QED
      BY <1>1, <1>2, <1>4, <2>8, <2>9, <2>10, <2>11, LocalReach DEF r
<1> QED
    BY <1>5, <1>6

\* A step of the writer that takes no slot away: what is left to show is how it
\* and the entries fare.
LEMMA WriterReach ==
    ASSUME Setting, IInv, ReachInv, OneWriter, NEW t \in Threads,
           thr[t].pc # "idle", thr[t].op # "search",
           hashOf' = hashOf, loaded' = loaded, Grown, done \subseteq done',
           \A u \in Threads : u # t => thr'[u] = thr[u],
           WriterInv(t)', SearchInv(thr[t])', EntryInv', DoneInv'
    PROVE  ReachInv'
<1>1. loaded = -1
    BY Running
<1>2. ASSUME NEW u \in Threads PROVE WriterInv(u)'
  <2>1. CASE u # t
    <3>1. WriterInv(t) /\ WriterInv(u) /\ thr'[u] = thr[u] /\ StageInv(thr[u])
        BY <2>1 DEF ReachInv, IInv
    <3>2. thr[u].pc = "idle" \/ thr[u].op = "search"
        BY <2>1, <3>1 DEF WriterInv, OneWriter
    <3>3. StageInv(thr'[u]) /\ (thr'[u].pc = "idle" \/ thr'[u].op = "search")
        BY <3>1, <3>2
    <3> QED
        BY <3>3, Spectator
  <2> QED
      BY <2>1
<1>3. ASSUME NEW u \in Threads PROVE SearchInv(thr[u])'
  <2>1. CASE u # t
    <3>1. SearchInv(thr[u]) /\ thr'[u] = thr[u]
        BY <2>1 DEF ReachInv
    <3> QED
        BY <3>1, SearchKept
  <2> QED
      BY <2>1
<1> QED
    BY <1>1, <1>2, <1>3 DEF ReachInv

\* A bucket is written back with all the slots it has.
LEMMA WriteBucketReach ==
    ASSUME Setting, IInv, ReachInv, OneWriter, NEW t \in Threads, WriteBucket(t)
    PROVE  ReachInv'
<1> DEFINE q == thr[t]
           r == thr'[t]
           k == q.key
           i == q.at
           g == remote_lookup(hashOf, k)
           c == q.buf
           n == i + 1
           p == IF i < 2 THEN "write" ELSE "pdaddr"
<1>1. /\ q.pc = "write" /\ UNCHANGED <<hashOf, packed, num, done, loaded>>
      /\ table' = [table EXCEPT ![g[i]] = c[i]]
    BY DEF WriteBucket
<1>2. /\ thr \in [Threads -> ThreadSet] /\ q \in ThreadSet /\ k \in Keys /\ StageInv(q)
      /\ hashOf \in HashChoices /\ \A j \in 1..2 : g[j] \in Buckets
    BY <1>1, InOperation
<1>3. i \in 1..2 /\ (i = 1 \/ i = 2) /\ q.op = "insert"
    BY <1>1, <1>2 DEF StageInv
<1>4. g[1] # g[2]
    BY <1>2, GroupOfKey
<1>5. WriterInv(t) /\ SearchInv(q)
    BY DEF ReachInv
<1>6. /\ n \in Nat /\ (i = 1 => n = 2 /\ p = "write") /\ (i = 2 => n = 3 /\ p = "pdaddr")
      /\ p \in {"write", "pdaddr"}
    BY <1>3
<1>7. thr' = [thr EXCEPT ![t] = [q EXCEPT !.at = n, !.pc = p]]
    BY <1>2 DEF WriteBucket, ThreadSet
<1> HIDE DEF n, p
<1>8. /\ r.pc = p /\ r.at = n /\ r.buf = c /\ r.op = "insert" /\ r.key = k
      /\ r.must = q.must /\ r.found = q.found
      /\ \A u \in Threads : u # t => thr'[u] = thr[u]
    BY <1>2, <1>3, <1>7 DEF ThreadSet
<1> HIDE DEF r, c, i, g
<1>9. /\ \A b \in Buckets : b # g[i] => table'[b] = table[b]
      /\ table'[g[i]] = c[i]
    BY <1>1, <1>2, <1>3 DEF IInv, TypeInv
<1>10. \A j \in 1..2 : j # i => table'[g[j]] = table[g[j]]
  <2>1. \A j \in 1..2 : j # i => g[j] # g[i]
      BY <1>3, <1>4
  <2> QED
      BY <1>2, <1>9, <2>1
<1>11. \A j \in 1..2 : \A s \in 1..SLOTS : table[g[j]][s].occ => c[j][s] = table[g[j]][s]
    BY <1>1, <1>5 DEF WriterInv, KeepInv, c, g
<1>12. Grown
  <2> SUFFICES ASSUME NEW b \in Buckets, NEW s \in 1..SLOTS, table[b][s].occ
               PROVE  table'[b][s] = table[b][s]
      BY DEF Grown
  <2>1. CASE b = g[i]
      BY <1>3, <1>9, <1>11, <2>1
  <2>2. CASE b # g[i]
      BY <1>9, <2>2
  <2> QED
      BY <2>1, <2>2
<1>13. PICK j \in 1..2, s \in 1..SLOTS :
         /\ Fits(c[j][s], k) /\ c[j][s].addr = num
         /\ j < i => table[g[j]][s] = c[j][s]
    BY <1>1, <1>5 DEF WriterInv, AddInv, c, g, i
<1>14. j < n => table'[g[j]][s] = c[j][s]
  <2>1. CASE j = i
      BY <1>9, <2>1
  <2>2. CASE j # i
    <3>1. j < n => j < i
        BY <1>3, <1>6, <2>2
    <3> QED
        BY <1>10, <1>13, <2>2, <3>1
  <2> QED
      BY <2>1, <2>2
<1>15. remote_lookup(hashOf', k) = g /\ num' = num /\ hashOf' = hashOf
    BY <1>1 DEF g
<1>16. KeepInv(thr[t])'
  <2>1. \A x \in 1..2 : \A y \in 1..SLOTS : table'[g[x]][y].occ => c[x][y] = table'[g[x]][y]
    <3> SUFFICES ASSUME NEW x \in 1..2, NEW y \in 1..SLOTS, table'[g[x]][y].occ
                 PROVE  c[x][y] = table'[g[x]][y]
        OBVIOUS
    <3>1. CASE x = i
        BY <1>9, <3>1
    <3>2. CASE x # i
        BY <1>10, <1>11, <3>2
    <3> QED
        BY <3>1, <3>2
  <2>2. thr'[t].buf = c /\ remote_lookup(hashOf', thr'[t].key) = g
      BY <1>8, <1>15 DEF r
  <2> QED
      BY <2>1, <2>2 DEF KeepInv
<1>17. AddInv(thr[t])'
  <2>1. /\ c[j][s].occ /\ c[j][s].fp = hashOf'[k].fp /\ c[j][s].addr = num'
        /\ j < n => table'[g[j]][s] = c[j][s]
      BY <1>13, <1>14, <1>15 DEF Fits
  <2> QED
      BY <1>8, <1>15, <2>1 DEF AddInv, Fits, r
<1>18. PlacedInv(thr[t])'
  <2>1. ASSUME r.pc = "pdaddr" PROVE HasSlot(k, num)'
    <3>1. n = 3
        BY <1>3, <1>6, <1>8, <2>1
    <3>2. table'[g[j]][s] = c[j][s]
        BY <1>14, <3>1
    <3>3. /\ table'[g[j]][s].occ /\ table'[g[j]][s].fp = hashOf'[k].fp
          /\ table'[g[j]][s].addr = num'
        BY <1>13, <1>15, <3>2 DEF Fits
    <3>4. \E x \in 1..2 : \E y \in 1..SLOTS :
            /\ table'[remote_lookup(hashOf', k)[x]][y].occ
            /\ table'[remote_lookup(hashOf', k)[x]][y].fp = hashOf'[k].fp
            /\ table'[remote_lookup(hashOf', k)[x]][y].addr = num'
        BY <1>15, <3>3
    <3>5. k' = k
        BY <1>8 DEF r
    <3> QED
        BY <3>4, <3>5 DEF HasSlot, Fits
  <2>2. r.pc = "pdaddr" => HasSlot(thr[t].key, num)'
    <3>1. thr'[t].key = k
        BY <1>8 DEF r
    <3> QED
        BY <2>1, <3>1
  <2>3. r.pc # "entry" /\ r.pc # "bump"
      BY <1>6, <1>8
  <2> QED
      BY <2>2, <2>3 DEF PlacedInv, r
<1>19. WriterInv(t)'
  <2>1. FreshInv(thr[t])' /\ StoreInv(thr[t])'
      BY <1>6, <1>8 DEF FreshInv, StoreInv, r
  <2>2. Writes(t)
      BY <1>1, <1>3, <1>5 DEF WriterInv
  <2> QED
      BY <1>16, <1>17, <1>18, <2>1, <2>2 DEF WriterInv, Writes
<1>20. SearchInv(thr[t])'
  <2>1. /\ r.must => r.key \in done'
        /\ r.found /\ r.pc \notin {"read", "pick"}
      BY <1>1, <1>5, <1>6, <1>8 DEF SearchInv
  <2> QED
      BY <2>1 DEF SearchInv, r
<1>21. EntryInv'
  <2> SUFFICES ASSUME NEW a \in Addrs, a >= num, packed[a].key \in NewKeys
               PROVE  a = num /\ \E u \in Threads : thr'[u].pc = "bump" /\ thr'[u].found
      BY <1>1 DEF EntryInv
  <2>1. a = num /\ \E u \in Threads : thr[u].pc = "bump" /\ thr[u].found
      BY DEF ReachInv, EntryInv
  <2> QED
      BY <1>1, <1>8, <2>1
<1>22. DoneInv'
  <2> SUFFICES ASSUME NEW x \in done
               PROVE  \E a \in 0..(num - 1) : HasSlot(x, a)' /\ packed[a].key = x
      BY <1>1 DEF DoneInv
  <2>1. PICK a \in 0..(num - 1) : HasSlot(x, a) /\ packed[a].key = x
      BY DEF ReachInv, DoneInv
  <2>2. x \in Keys
      BY DEF IInv, TypeInv, Keys
  <2>3. HasSlot(x, a)'
      BY <1>2, <1>12, <1>15, <2>1, <2>2, SlotKept
  <2> QED
      BY <2>1, <2>3
<1> QED
    BY <1>1, <1>3, <1>8, <1>12, <1>19, <1>20, <1>21, <1>22, WriterReach

\* While the table stays as it is, every slot still leads where it led, ...
LEMMA SameTable ==
    ASSUME UNCHANGED <<hashOf, table>>
    PROVE  Grown /\ \A k, a : HasSlot(k, a) => HasSlot(k, a)'
BY DEF Grown, HasSlot, Fits

\* ... and a thread that ends its operation with success leaves nothing open.
LEMMA IdleReach ==
    ASSUME Setting, NEW t \in Threads, thr'[t] = Idle
    PROVE  WriterInv(t)' /\ SearchInv(thr[t])'
<1>1. Idle.pc = "idle" /\ Idle.buf = <<>> /\ Idle.found = TRUE
    BY IdleType
<1>2. StageInv(thr'[t]) /\ thr'[t].pc = "idle" /\ thr'[t].found
    BY <1>1 DEF StageInv
<1> QED
    BY <1>2, Spectator DEF SearchInv

\* The entries that are counted are in the array.
LEMMA BelowNum ==
    ASSUME Setting, IInv, NEW t \in Threads, thr[t].pc # "idle"
    PROVE  num \in Nat /\ \A x \in 0..(num - 1) : x \in Addrs /\ x # num
<1> DEFINE N == Len(ExistKeys) + MaxOps
<1>1. N \in Nat /\ Addrs = 0..N
    BY LenProperties DEF Setting, Addrs
<1>2. num \in Nat /\ num \in Addrs
    BY NumInArray DEF IInv, TypeInv
<1> HIDE DEF N
<1> QED
    BY <1>1, <1>2

\* The entry that is written back is the one of the key that was there.
LEMMA StoreReach ==
    ASSUME Setting, IInv, ReachInv, OneWriter, NEW t \in Threads, Store(t)
    PROVE  ReachInv'
<1> DEFINE q == thr[t]
           a == q.addr
           k == q.key
           e == [q.entry EXCEPT !.data = k]
<1>1. /\ q.pc = "store" /\ UNCHANGED <<hashOf, table, num, loaded>>
      /\ packed' = [packed EXCEPT ![a] = e] /\ thr' = [thr EXCEPT ![t] = Idle]
      /\ done' = IF q.op = "insert" THEN done \cup {k} ELSE done
    BY DEF Store
<1>2. /\ thr \in [Threads -> ThreadSet] /\ q \in ThreadSet /\ StageInv(q)
    BY <1>1, InOperation
<1>3. /\ thr'[t] = Idle /\ \A u \in Threads : u # t => thr'[u] = thr[u]
    BY <1>1, <1>2
<1>4. a \in Addrs /\ e.key = q.entry.key /\ q.op # "search"
    BY <1>1, <1>2 DEF ThreadSet, EntrySet, StageInv
<1>5. StoreInv(q)
    BY DEF ReachInv, WriterInv
<1>6. e.key = packed[a].key
    BY <1>1, <1>4, <1>5 DEF StoreInv
<1> HIDE DEF e
<1>7. \A x \in Addrs : packed'[x].key = packed[x].key
    BY <1>1, <1>4, <1>6 DEF IInv, TypeInv
<1>8. Grown /\ \A x, y : HasSlot(x, y) => HasSlot(x, y)'
    BY <1>1, SameTable
<1>9. WriterInv(t)' /\ SearchInv(thr[t])'
    BY <1>3, IdleReach
<1>10. EntryInv'
  <2> SUFFICES ASSUME NEW x \in Addrs, x >= num, packed[x].key \in NewKeys
               PROVE  x = num /\ \E u \in Threads : thr'[u].pc = "bump" /\ thr'[u].found
      BY <1>1, <1>7 DEF EntryInv
  <2>1. x = num /\ \E u \in Threads : thr[u].pc = "bump" /\ thr[u].found
      BY DEF ReachInv, EntryInv
  <2> QED
      BY <1>1, <1>3, <2>1
<1>11. num \in Nat /\ \A x \in 0..(num - 1) : x \in Addrs
    BY <1>1, BelowNum
<1>12. DoneInv'
  <2> SUFFICES ASSUME NEW y \in done'
               PROVE  \E x \in 0..(num - 1) : HasSlot(y, x)' /\ packed'[x].key = y
      BY <1>1 DEF DoneInv
  <2>1. CASE y \in done
    <3>1. PICK x \in 0..(num - 1) : HasSlot(y, x) /\ packed[x].key = y
        BY <2>1 DEF ReachInv, DoneInv
    <3> QED
        BY <1>7, <1>8, <1>11, <3>1
  <2>2. CASE y \notin done
    <3>1. q.op = "insert" /\ y = k
        BY <1>1, <2>2
    <3>2. q.entry.key = k /\ a < num /\ HasSlot(k, a)
        BY <1>1, <1>5, <3>1 DEF StoreInv
    <3>3. a \in 0..(num - 1) /\ packed'[a].key = k
      <4>1. a \in 0..(num - 1)
          BY <1>4, <1>11, <3>2 DEF Addrs
      <4> QED
          BY <1>4, <1>6, <1>7, <3>2, <4>1
    <3>4. PICK x \in 0..(num - 1) : x = a
        BY <3>3
    <3>5. HasSlot(y, x) /\ packed'[x].key = y
        BY <3>1, <3>2, <3>3, <3>4
    <3> QED
        BY <1>8, <3>5
  <2> QED
      BY <2>1, <2>2
<1>13. done \subseteq done'
    BY <1>1
<1> QED
    BY <1>1, <1>3, <1>4, <1>8, <1>9, <1>10, <1>12, <1>13, WriterReach

\* The entry of a new slot is written where the slot says.
LEMMA WriteEntryReach ==
    ASSUME Setting, IInv, ReachInv, OneWriter, NEW t \in Threads, WriteEntry(t)
    PROVE  ReachInv'
<1> DEFINE q == thr[t]
           r == thr'[t]
           k == q.key
<1>1. /\ q.pc = "entry" /\ UNCHANGED <<hashOf, table, num, done, loaded>>
      /\ packed' = [packed EXCEPT ![q.addr] = [key |-> k, data |-> k]]
    BY DEF WriteEntry
<1>2. /\ thr \in [Threads -> ThreadSet] /\ q \in ThreadSet /\ StageInv(q)
      /\ num \in Addrs /\ num \in Nat
    BY <1>1, InOperation, NumInArray DEF IInv, TypeInv
<1>3. /\ r.pc = "bump" /\ r.op = q.op /\ r.key = k /\ r.must = q.must /\ r.found = q.found
      /\ \A u \in Threads : u # t => thr'[u] = thr[u]
    BY <1>2 DEF WriteEntry, Goto, ThreadSet
<1>4. WriterInv(t) /\ SearchInv(q) /\ q.op = "insert"
    BY <1>1, <1>2 DEF ReachInv, StageInv
<1>5. q.addr = num /\ HasSlot(k, num) /\ Writes(t)
    BY <1>1, <1>4 DEF WriterInv, PlacedInv
<1>6. packed'[num].key = k /\ \A x \in Addrs : x # num => packed'[x] = packed[x]
    BY <1>1, <1>2, <1>5 DEF IInv, TypeInv
<1>7. Grown /\ \A x, y : HasSlot(x, y) => HasSlot(x, y)'
    BY <1>1, SameTable
<1> HIDE DEF r
<1>8. r.found
    BY <1>1, <1>3, <1>4 DEF SearchInv
<1>9. PlacedInv(thr[t])'
  <2>1. HasSlot(thr[t].key, num)'
    <3>1. thr'[t].key = k /\ num' = num
        BY <1>1, <1>3 DEF r
    <3>2. HasSlot(thr'[t].key, num')
        BY <1>5, <3>1
    <3> QED
        BY <1>1, <3>2 DEF HasSlot, Fits
  <2>2. packed'[num'].key = thr'[t].key
      BY <1>1, <1>3, <1>6 DEF r
  <2> QED
      BY <1>3, <2>1, <2>2 DEF PlacedInv, r
<1>10. WriterInv(t)'
  <2>1. FreshInv(thr[t])' /\ KeepInv(thr[t])' /\ AddInv(thr[t])' /\ StoreInv(thr[t])'
      BY <1>3 DEF FreshInv, KeepInv, AddInv, StoreInv, r
  <2> QED
      BY <1>5, <1>9, <2>1 DEF WriterInv, Writes
<1>11. SearchInv(thr[t])'
  <2>1. r.must => r.key \in done'
      BY <1>1, <1>3, <1>4 DEF SearchInv
  <2> QED
      BY <1>3, <2>1 DEF SearchInv, r
<1>12. EntryInv'
  <2> SUFFICES ASSUME NEW x \in Addrs, x >= num, packed'[x].key \in NewKeys
               PROVE  x = num /\ \E u \in Threads : thr'[u].pc = "bump" /\ thr'[u].found
      BY <1>1 DEF EntryInv
  <2>1. thr'[t].pc = "bump" /\ thr'[t].found
      BY <1>3, <1>8 DEF r
  <2>2. CASE x # num
      BY <1>6, <2>2 DEF ReachInv, EntryInv
  <2> QED
      BY <2>1, <2>2
<1>13. DoneInv'
  <2> SUFFICES ASSUME NEW y \in done
               PROVE  \E x \in 0..(num - 1) : HasSlot(y, x)' /\ packed'[x].key = y
      BY <1>1 DEF DoneInv
  <2>1. PICK x \in 0..(num - 1) : HasSlot(y, x) /\ packed[x].key = y
      BY DEF ReachInv, DoneInv
  <2>2. x \in Addrs /\ x # num
      BY <1>1, BelowNum
  <2> QED
      BY <1>6, <1>7, <2>1, <2>2
<1> QED
    BY <1>1, <1>3, <1>4, <1>7, <1>10, <1>11, <1>12, <1>13, WriterReach

\* Counted, the entry belongs to the key.
LEMMA BumpReach ==
    ASSUME Setting, IInv, ReachInv, OneWriter, NEW t \in Threads, Bump(t)
    PROVE  ReachInv'
<1> DEFINE q == thr[t]
           k == q.key
<1>1. /\ q.pc = "bump" /\ UNCHANGED <<hashOf, table, packed, loaded>>
      /\ num' = num + 1 /\ thr' = [thr EXCEPT ![t] = Idle]
      /\ done' = IF q.found THEN done \cup {k} ELSE done
    BY DEF Bump
<1>2. thr \in [Threads -> ThreadSet] /\ q.op = "insert" /\ num \in Nat
    BY <1>1, InOperation DEF StageInv, IInv, TypeInv
<1>3. /\ thr'[t] = Idle /\ \A u \in Threads : u # t => thr'[u] = thr[u]
    BY <1>1, <1>2
<1>4. q.found => HasSlot(k, num) /\ packed[num].key = k
    BY <1>1 DEF ReachInv, WriterInv, PlacedInv
<1>5. Grown /\ \A x, y : HasSlot(x, y) => HasSlot(x, y)'
    BY <1>1, SameTable
<1>6. WriterInv(t)' /\ SearchInv(thr[t])'
    BY <1>3, IdleReach
<1>7. EntryInv'
  <2> SUFFICES ASSUME NEW a \in Addrs, a >= num + 1, packed[a].key \in NewKeys
               PROVE  FALSE
      BY <1>1 DEF EntryInv
  <2>1. a \in Int
      BY DEF Addrs
  <2>2. a >= num /\ a # num
      BY <1>2, <2>1
  <2> QED
      BY <2>2 DEF ReachInv, EntryInv
<1>8. DoneInv'
  <2> SUFFICES ASSUME NEW y \in done'
               PROVE  \E x \in 0..num : HasSlot(y, x)' /\ packed[x].key = y
    <3>1. num' - 1 = num
        BY <1>1, <1>2
    <3> QED
        BY <1>1, <3>1 DEF DoneInv
  <2>1. CASE y \in done
    <3>1. PICK x \in 0..(num - 1) : HasSlot(y, x) /\ packed[x].key = y
        BY <2>1 DEF ReachInv, DoneInv
    <3>2. x \in 0..num
        BY <1>2
    <3> QED
        BY <1>5, <3>1, <3>2
  <2>2. CASE y \notin done
    <3>1. q.found /\ y = k
        BY <1>1, <2>2
    <3>2. PICK x \in 0..num : x = num
        BY <1>2
    <3>3. HasSlot(y, x) /\ packed[x].key = y
        BY <1>4, <3>1, <3>2
    <3> QED
        BY <1>5, <3>3
  <2> QED
      BY <2>1, <2>2
<1>9. done \subseteq done'
    BY <1>1
<1> QED
    BY <1>1, <1>2, <1>3, <1>5, <1>6, <1>7, <1>8, <1>9, WriterReach

\* The server loads other keys than the clients insert.
LEMMA LoadReach ==
    ASSUME Setting, IInv, ReachInv, Load
    PROVE  ReachInv'
<1> DEFINE k == ExistKeys[loaded + 1]
<1>1. /\ loaded >= 0 /\ loaded < Len(ExistKeys) /\ loaded' = loaded + 1
      /\ packed' = [packed EXCEPT ![loaded] = [key |-> k, data |-> k]]
      /\ UNCHANGED <<hashOf, num, thr, done>>
    BY DEF Load
<1>2. loaded # -1 /\ \A u \in Threads : thr[u].pc = "idle"
    BY <1>1 DEF ReachInv
<1>3. done = {}
    BY <1>2 DEF ReachInv
<1>4. k \notin NewKeys
  <2>1. loaded + 1 \in 1..Len(ExistKeys)
    <3>1. Len(ExistKeys) \in Nat
        BY LenProperties DEF Setting
    <3>2. loaded \in Int
        BY <3>1 DEF IInv, TypeInv
    <3> QED
        BY <1>1, <3>1, <3>2
  <2>2. k \in ExistSet
      BY <2>1, ElementOfSeq DEF Setting
  <2> QED
      BY <2>2 DEF Setting
<1> HIDE DEF k
<1>5. ASSUME NEW u \in Threads PROVE WriterInv(u)' /\ SearchInv(thr[u])'
  <2>1. StageInv(thr'[u]) /\ thr'[u].pc = "idle"
      BY <1>1, <1>2 DEF IInv
  <2>2. SearchInv(thr[u])
      BY DEF ReachInv
  <2> QED
      BY <1>1, <2>1, <2>2, Spectator DEF SearchInv
<1>6. EntryInv'
  <2> SUFFICES ASSUME NEW a \in Addrs, a >= num, packed'[a].key \in NewKeys
               PROVE  FALSE
      BY <1>1 DEF EntryInv
  <2>1. a # loaded
      BY <1>1, <1>4 DEF IInv, TypeInv
  <2>2. packed'[a] = packed[a]
      BY <1>1, <2>1 DEF IInv, TypeInv
  <2> QED
      BY <1>2, <2>2 DEF ReachInv, EntryInv
<1>7. DoneInv' /\ done' = {}
    BY <1>1, <1>3 DEF DoneInv
<1> QED
    BY <1>1, <1>2, <1>5, <1>6, <1>7 DEF ReachInv

\* Nothing changes but, perhaps, that clients may begin.
LEMMA QuietReach ==
    ASSUME ReachInv, UNCHANGED <<hashOf, table, packed, num, thr, done>>,
           loaded' \in {loaded, -1}
    PROVE  ReachInv'
<1>1. ASSUME NEW u \in Threads PROVE WriterInv(u)' /\ SearchInv(thr[u])'
  <2>1. WriterInv(u) /\ SearchInv(thr[u])
      BY DEF ReachInv
  <2>2. /\ thr'[u].pc # "idle" /\ thr'[u].op # "search" => Writes(u)
        /\ FreshInv(thr'[u]) /\ KeepInv(thr'[u]) /\ AddInv(thr'[u])
        /\ PlacedInv(thr'[u]) /\ StoreInv(thr'[u]) /\ SearchInv(thr'[u])
      BY <2>1 DEF WriterInv
  <2> QED
      BY <2>2, WriterKept, SearchMoved
<1>2. EntryInv'
    BY DEF ReachInv, EntryInv
<1>3. DoneInv'
    BY SameTable DEF ReachInv, DoneInv
<1> QED
    BY <1>1, <1>2, <1>3 DEF ReachInv

\* Nothing is inserted yet.
LEMMA InitReach ==
    ASSUME Setting, Init
    PROVE  ReachInv
<1>1. \A t \in Threads : thr[t].pc = "idle" /\ ~thr[t].must /\ thr[t].found
    BY IdleType DEF Init
<1>2. \A t \in Threads : WriterInv(t)
    BY <1>1 DEF WriterInv, FreshInv, KeepInv, AddInv, PlacedInv, StoreInv
<1>3. \A t \in Threads : SearchInv(thr[t])
    BY <1>1 DEF SearchInv
<1>4. EntryInv
  <2>1. \A a \in Addrs : packed[a].key = "none"
      BY DEF Init
  <2>2. "none" \notin NewKeys
      BY DEF Setting, Keys
  <2> QED
      BY <2>1, <2>2 DEF EntryInv
<1>5. DoneInv /\ done = {}
    BY DEF DoneInv, Init
<1> QED
    BY <1>1, <1>2, <1>3, <1>4, <1>5 DEF ReachInv

\* One case per action.
LEMMA ReachSteps ==
    ASSUME Setting, OneWriter, IInv, ReachInv, [Next]_vars
    PROVE  ReachInv'
<1>1. CASE Load
    BY <1>1, LoadReach
<1>2. CASE StartDaemon
    BY <1>2, QuietReach DEF StartDaemon
<1>3. CASE \E t \in Threads : ThreadStep(t)
  <2>1. PICK t \in Threads : ThreadStep(t)
      BY <1>3
  <2> QED
      BY <2>1, BeginReach, ReadBucketReach, PickReach, FetchReach, MatchReach, StoreReach,
         ComposeReach, WriteBucketReach, PdAddrReach, WriteEntryReach, BumpReach
      DEF ThreadStep
<1>4. CASE UNCHANGED vars \/ Stop
    BY <1>4, QuietReach DEF Stop, vars
<1> QED
    BY <1>1, <1>2, <1>3, <1>4 DEF Next

\* The invariant holds with one writer.
LEMMA Reachability ==
    ASSUME Setting, OneWriter
    PROVE  Spec => []ReachInv
<1>1. Init => ReachInv
    BY InitReach
<1>2. IInv /\ ReachInv /\ [Next]_vars => ReachInv'
    BY ReachSteps
<1> QED
    BY <1>1, <1>2, Invariance, PTL DEF Spec

\* At most one thread that writes, as the run's properties say it.
LEMMA AtMostOne ==
    ASSUME Setting, Cardinality({t \in Threads : OpsOf[t] # {"search"}}) <= 1
    PROVE  OneWriter
<1> DEFINE W == {t \in Threads : OpsOf[t] # {"search"}}
<1> SUFFICES ASSUME NEW t \in W, NEW u \in W, t # u PROVE FALSE
    BY DEF OneWriter, Writes
<1>1. IsFiniteSet(W) /\ {t, u} \subseteq W
  <2>1. W \subseteq Threads
      OBVIOUS
  <2> QED
      BY <2>1, FS_Subset DEF Setting
<1> HIDE DEF W
<1>2. Cardinality({t, u}) = 2
  <2>1. IsFiniteSet({u}) /\ Cardinality({u}) = 1
      BY FS_Singleton
  <2>2. {t, u} = {u} \cup {t} /\ t \notin {u}
      OBVIOUS
  <2> QED
      BY <2>1, <2>2, FS_AddElement
<1>3. Cardinality({t, u}) <= Cardinality(W) /\ Cardinality(W) \in Nat
    BY <1>1, FS_Subset, FS_CardinalityType
<1> QED
    BY <1>2, <1>3 DEF W

\* With one thread that inserts and updates, however many that search, and any
\* keys, hash values and fingerprints: once an insert has finished, the key's
\* slot and the entry behind it are there for good.
THEOREM InsertsStayReachable ==
    ASSUME Setting
    PROVE  Spec => []InsertedReachable
<1>1. CASE Cardinality({t \in Threads : OpsOf[t] # {"search"}}) <= 1
  <2>1. OneWriter
      BY <1>1, AtMostOne
  <2>2. ReachInv => InsertedReachable
    <3> SUFFICES ASSUME ReachInv, NEW k \in done
                 PROVE  \E i \in 1..2 : \E s \in 1..SLOTS :
                          LET slot == table[remote_lookup(hashOf, k)[i]][s]
                          IN  /\ slot.occ /\ slot.fp = hashOf[k].fp
                              /\ packed[slot.addr].key = k
        BY DEF InsertedReachable
    <3>1. PICK a \in 0..(num - 1) : HasSlot(k, a) /\ packed[a].key = k
        BY DEF ReachInv, DoneInv
    <3> QED
        BY <3>1 DEF HasSlot, Fits
  <2>3. Spec => []ReachInv
      BY <2>1, Reachability
  <2> QED
      BY <2>2, <2>3, PTL
<1>2. CASE ~(Cardinality({t \in Threads : OpsOf[t] # {"search"}}) <= 1)
  <2>1. InsertedReachable
      BY <1>2 DEF InsertedReachable
  <2> QED
      BY <2>1, PTL
<1> QED
    BY <1>1, <1>2

\* A search that began after the insert of its key had finished finds a slot for
\* it, between whichever of the writer's bucket writes it reads its two buckets.
THEOREM SearchesFindInserted ==
    ASSUME Setting
    PROVE  Spec => []SearchFindsInserted
<1>1. CASE Cardinality({t \in Threads : OpsOf[t] # {"search"}}) <= 1
  <2>1. OneWriter
      BY <1>1, AtMostOne
  <2>2. ReachInv => SearchFindsInserted
      BY DEF ReachInv, SearchInv, SearchFindsInserted
  <2>3. Spec => []ReachInv
      BY <2>1, Reachability
  <2> QED
      BY <2>2, <2>3, PTL
<1>2. CASE ~(Cardinality({t \in Threads : OpsOf[t] # {"search"}}) <= 1)
  <2>1. SearchFindsInserted
      BY <1>2 DEF SearchFindsInserted
  <2> QED
      BY <2>1, PTL
<1> QED
    BY <1>1, <1>2
=============================================================================
