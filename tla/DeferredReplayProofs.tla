------------------------ MODULE DeferredReplayProofs ------------------------
(***************************************************************************)
(* Theorems about the data side of a resize, for any number of handler     *)
(* threads, keys, slots, regions and operations, and any queue depth:      *)
(* slots lead into their arrays and the row's mutex has the holder it      *)
(* says, every deferred operation is replayed once, in the order of its    *)
(* queue, and a drain takes all that was accepted before it.               *)
(*                                                                         *)
(* The slot a put is about to write is checked when the entry is stored    *)
(* and used in a later step, with the monitor's steps in between; the      *)
(* inductive invariant IInv says what still holds of it then (HandlerInv)  *)
(* and what do_copy has built of the next region (RegionInv).  DrainInv    *)
(* says what defer_mu_ keeps out of the queues while they are replayed.    *)
(* What DeferredConserved and DrainTakesPrefix say is about a recursive    *)
(* function of the history, whose equations come from the least-number     *)
(* principle.                                                              *)
(***************************************************************************)
EXTENDS DeferredReplay, FiniteSetTheorems, SequenceTheorems, WellFoundedInduction, TLAPS

\* Most leaves are first-order, so Zenon is tried before the SMT solver.
USE ZenonT(10), SMTT(30)

\* The least-number principle, which stands in for induction.
LEMMA NatMin ==
  ASSUME NEW T, T \subseteq Nat, T # {}
  PROVE  \E x \in T : \A y \in T : x <= y
<1> DEFINE R == OpToRel(<, Nat)
<1>1. IsWellFoundedOn(R, Nat)
  BY NatLessThanWellFounded, Zenon
<1>2. \A x, y \in Nat : x < y => <<x, y>> \in R
  BY DEF OpToRel
<1> HIDE DEF R
<1>3. PICK x \in T : \A y \in T : ~(<<y, x>> \in R)
  BY <1>1, WFMin
<1>4. \A y \in T : x \in Nat /\ y \in Nat /\ ~(y < x)
  BY <1>2, <1>3
<1> QED BY <1>4

\* f is PrefixesOfKind(q, o) up to n.
PrefixesUpTo(f, q, o, n) ==
    f = [i \in 0 .. n |-> IF i = 0 THEN <<>>
                          ELSE IF q[i].op = o THEN Append(f[i - 1], q[i]) ELSE f[i - 1]]

\* There is such an f, by induction on n: extend the one for n - 1.
LEMMA PrefixesExist ==
  ASSUME NEW S, NEW q \in Seq(S), NEW o, NEW n \in 0 .. Len(q)
  PROVE  \E f : PrefixesUpTo(f, q, o, n)
<1> DEFINE T == {m \in 0 .. Len(q) : ~ \E f : PrefixesUpTo(f, q, o, m)}
<1>1. SUFFICES ASSUME T # {} PROVE FALSE
  OBVIOUS
<1>2. T \subseteq Nat /\ Len(q) \in Nat
  OBVIOUS
<1>3. PICK m \in T : \A k \in T : m <= k
  BY <1>1, <1>2, NatMin
<1>4. m \in 0 .. Len(q) /\ ~ \E f : PrefixesUpTo(f, q, o, m)
  OBVIOUS
<1>5. CASE m = 0
  <2> DEFINE g == [i \in 0 .. 0 |-> <<>>]
  <2>1. PrefixesUpTo(g, q, o, 0)
    BY DEF PrefixesUpTo
  <2> QED BY <1>4, <1>5, <2>1
<1>6. CASE m > 0
  <2>1. m - 1 \in 0 .. Len(q) /\ m - 1 \notin T
    BY <1>2, <1>3, <1>4, <1>6
  <2>2. PICK f : PrefixesUpTo(f, q, o, m - 1)
    BY <2>1
  <2> DEFINE e == IF q[m].op = o THEN Append(f[m - 1], q[m]) ELSE f[m - 1]
             g == [i \in 0 .. m |-> IF i = m THEN e ELSE f[i]]
  <2>3. \A i \in 0 .. m - 1 : g[i] = f[i]
    BY <1>2, <1>4, <1>6
  <2>4. \A i \in 0 .. m - 1 :
          f[i] = IF i = 0 THEN <<>>
                 ELSE IF q[i].op = o THEN Append(f[i - 1], q[i]) ELSE f[i - 1]
    BY <2>2 DEF PrefixesUpTo
  <2>5. g[m] = e /\ g[m - 1] = f[m - 1] /\ DOMAIN g = 0 .. m
    BY <1>2, <1>4, <1>6, <2>3
  <2> HIDE DEF e
  <2>6. \A i \in 0 .. m :
          g[i] = IF i = 0 THEN <<>>
                 ELSE IF q[i].op = o THEN Append(g[i - 1], q[i]) ELSE g[i - 1]
    <3> TAKE i \in 0 .. m
    <3>1. CASE i = m
      BY <1>6, <2>5, <3>1 DEF e
    <3>2. CASE i # m
      <4>1. i \in 0 .. m - 1 /\ (i # 0 => i - 1 \in 0 .. m - 1)
        BY <1>4, <1>6, <3>2
      <4> HIDE DEF g
      <4> QED BY <2>3, <2>4, <4>1
    <3> QED BY <3>1, <3>2
  <2>7. PrefixesUpTo(g, q, o, m)
    BY <2>6 DEF PrefixesUpTo
  <2> HIDE DEF g
  <2> QED BY <1>4, <2>7
<1> QED BY <1>2, <1>4, <1>5, <1>6

\* So the recursive definition means what it says.
LEMMA PrefixesDef ==
  ASSUME NEW S, NEW q \in Seq(S), NEW o
  PROVE  PrefixesUpTo(PrefixesOfKind(q, o), q, o, Len(q))
<1>0. Len(q) \in 0 .. Len(q)
  OBVIOUS
<1>1. \E f : PrefixesUpTo(f, q, o, Len(q))
  BY <1>0, PrefixesExist
<1>2. PrefixesOfKind(q, o) = CHOOSE f : PrefixesUpTo(f, q, o, Len(q))
  BY DEF PrefixesOfKind, PrefixesUpTo
<1> QED BY <1>1, <1>2

\* OfKind is a queue of requests of that kind.
LEMMA OfKindType ==
  ASSUME NEW S, NEW q \in Seq(S), NEW o
  PROVE  OfKind(q, o) \in Seq(S)
<1> DEFINE f == PrefixesOfKind(q, o)
           T == {i \in 0 .. Len(q) : f[i] \notin Seq(S)}
<1>1. PrefixesUpTo(f, q, o, Len(q))
  BY PrefixesDef
<1> HIDE DEF f
<1>2. \A i \in 0 .. Len(q) :
        f[i] = IF i = 0 THEN <<>>
               ELSE IF q[i].op = o THEN Append(f[i - 1], q[i]) ELSE f[i - 1]
  BY <1>1 DEF PrefixesUpTo
<1>3. T = {}
  <2>1. SUFFICES ASSUME T # {} PROVE FALSE
    OBVIOUS
  <2>2. T \subseteq Nat /\ Len(q) \in Nat
    OBVIOUS
  <2>3. PICK m \in T : \A k \in T : m <= k
    BY <2>1, <2>2, NatMin
  <2>4. m \in 0 .. Len(q) /\ f[m] \notin Seq(S)
    OBVIOUS
  <2>5. m # 0
    <3>1. f[0] = <<>>
      BY <1>2, <2>2
    <3>2. <<>> \in Seq(S)
      OBVIOUS
    <3> QED BY <2>4, <3>1, <3>2
  <2>6. m - 1 \in 0 .. Len(q) /\ m - 1 \notin T /\ q[m] \in S
    BY <2>2, <2>3, <2>4, <2>5
  <2>7. f[m - 1] \in Seq(S)
    BY <2>6
  <2>8. Append(f[m - 1], q[m]) \in Seq(S)
    BY <2>6, <2>7
  <2>9. f[m] = Append(f[m - 1], q[m]) \/ f[m] = f[m - 1]
    BY <1>2, <2>4, <2>5
  <2> QED BY <2>4, <2>7, <2>8, <2>9
<1>4. Len(q) \in 0 .. Len(q)
  OBVIOUS
<1> QED BY <1>3, <1>4 DEF OfKind, f

\* What OfKind is of an empty queue ...
LEMMA OfKindEmpty ==
  ASSUME NEW o
  PROVE  OfKind(<<>>, o) = <<>>
<1>1. <<>> \in Seq({}) /\ Len(<<>>) = 0
  OBVIOUS
<1>2. PrefixesUpTo(PrefixesOfKind(<<>>, o), <<>>, o, 0)
  BY <1>1, PrefixesDef
<1> QED BY <1>1, <1>2 DEF PrefixesUpTo, OfKind

\* ... and of a queue that has grown by one request.  The least index where
\* the prefixes of the two queues differ would follow one where they agree.
LEMMA OfKindAppend ==
  ASSUME NEW S, NEW q \in Seq(S), NEW e \in S, NEW o
  PROVE  OfKind(Append(q, e), o) = IF e.op = o THEN Append(OfKind(q, o), e)
                                   ELSE OfKind(q, o)
<1> DEFINE p == Append(q, e)
           f == PrefixesOfKind(q, o)
           g == PrefixesOfKind(p, o)
           T == {i \in 0 .. Len(q) : f[i] # g[i]}
<1>1. /\ p \in Seq(S) /\ Len(q) \in Nat /\ Len(p) = Len(q) + 1
      /\ p[Len(p)] = e /\ \A i \in 1 .. Len(q) : p[i] = q[i]
  OBVIOUS
<1>2. /\ PrefixesUpTo(f, q, o, Len(q))
      /\ PrefixesUpTo(g, p, o, Len(p))
  BY <1>1, PrefixesDef
<1> HIDE DEF p, f, g
<1>3. \A i \in 0 .. Len(q) :
        f[i] = IF i = 0 THEN <<>>
               ELSE IF q[i].op = o THEN Append(f[i - 1], q[i]) ELSE f[i - 1]
  BY <1>2 DEF PrefixesUpTo
<1>4. \A i \in 0 .. Len(p) :
        g[i] = IF i = 0 THEN <<>>
               ELSE IF p[i].op = o THEN Append(g[i - 1], p[i]) ELSE g[i - 1]
  BY <1>2 DEF PrefixesUpTo
<1>5. T = {}
  <2>1. SUFFICES ASSUME T # {} PROVE FALSE
    OBVIOUS
  <2>2. T \subseteq Nat
    BY <1>1
  <2>3. PICK m \in T : \A k \in T : m <= k
    BY <2>1, <2>2, NatMin
  <2>4. m \in 0 .. Len(q) /\ m \in 0 .. Len(p) /\ f[m] # g[m]
    BY <1>1
  <2>5. m # 0
    BY <1>3, <1>4, <2>4
  <2>6. m - 1 \in 0 .. Len(q) /\ m - 1 \notin T
    BY <1>1, <2>3, <2>4, <2>5
  <2>7. f[m - 1] = g[m - 1] /\ p[m] = q[m]
    BY <1>1, <2>4, <2>5, <2>6
  <2> QED BY <1>3, <1>4, <2>4, <2>5, <2>7
<1>6. f[Len(q)] = g[Len(q)]
  BY <1>1, <1>5
<1>7. Len(p) \in 0 .. Len(p) /\ Len(p) # 0 /\ Len(p) - 1 = Len(q)
  BY <1>1
<1>8. g[Len(p)] = IF e.op = o THEN Append(g[Len(q)], e) ELSE g[Len(q)]
  BY <1>1, <1>4, <1>7
<1> QED BY <1>6, <1>8 DEF OfKind, p, f, g

\* Where a handler can be, and where it holds mutexArray[row].
Points == {"idle", "check", "defer", "lock", "read", "apply", "write_slot", "clear_slot"}
Holding == {"apply", "write_slot", "clear_slot"}

\* Regions with an array of n entries.
RegionOf(n) == [bucket : [Slots -> Cell], array : [0 .. n - 1 -> Entry], num : 0 .. n]

\* A region whose slots all lead into its array.
Sound(r) ==
    /\ Size(r) \in Nat \ {0}
    /\ r \in RegionOf(Size(r))
    /\ \A s \in Slots : r.bucket[s].addr < Size(r)

\* The mapped regions, and what do_copy has built of the next one.
RegionInv ==
    /\ region = [v \in DOMAIN region |-> region[v]]
    /\ \A v \in DOMAIN region : Sound(region[v])
    /\ current \in Nat \ {0} /\ current \in DOMAIN region
    /\ pending_old \in Nat /\ pending_old < current
    /\ mpc \in {"copy_buckets", "switch"} => current + 1 \in DOMAIN region
    /\ mpc = "copy_buckets" =>
         Size(region[current]) <= Size(region[current + 1])

\* The handlers: who has the mutex, and where a put is about to write its slot.
HandlerInv ==
    /\ pc \in [Threads -> Points]
    /\ req \in [Threads -> Requests]
    /\ \A t \in Threads : mutex = t <=> pc[t] \in Holding
    /\ slot \in [Threads -> Slots]
    /\ addr \in [Threads -> Nat]
    /\ \A t \in Threads : pc[t] = "write_slot" /\ 1 \in DOMAIN region
                          => addr[t] < Size(region[1])
    /\ dead \in {"no", "exit", "fault"}

\* The queues hold requests of their own kind, no more than there is room for.
QueueInv ==
    /\ deferred_inserts \in Seq({r \in Requests : r.op = "put"})
    /\ deferred_deletes \in Seq({r \in Requests : r.op = "remove"})
    /\ Len(deferred_inserts) <= kMaxDeferredDepth
    /\ Len(deferred_deletes) <= kMaxDeferredDepth
    /\ accepted \in Seq(Requests)
    /\ replayed \in Seq(Requests)
    /\ DeferredConserved

\* A drain holds defer_mu_ from its first insert to its last delete, so that no
\* insert comes in behind it; every accepted request is replayed or queued.
DrainInv ==
    /\ Replaying => defer_mu = "monitor"
    /\ mpc = "replay_deletes" => deferred_inserts = <<>>
    /\ Len(accepted) = Len(replayed) + Len(deferred_inserts) + Len(deferred_deletes)
    /\ DrainTakesPrefix

\* The inductive invariant.
IInv == RegionInv /\ HandlerInv /\ QueueInv /\ DrainInv

(***************************************************************************)
(* The regions.                                                            *)
(***************************************************************************)

\* The constants, as the proofs use them.
LEMMA Constants ==
  /\ Slots \subseteq Nat /\ 0 \in Slots
  /\ \A k \in Keys : slot_of(k) \in Slots /\ fingerprint[k] \in Nat
  /\ ZeroCell \in Cell /\ ZeroEntry \in Entry
  /\ \A k \in Keys, a \in Nat : combine(k, a) \in Cell /\ combine(k, a).addr = a
  /\ \A k \in Keys, v \in Vals : [key |-> k, data |-> v] \in Entry
<1>1. 0 \in Seeds
  BY BucketAssumption DEF Seeds
<1> QED BY <1>1, BucketAssumption
        DEF Slots, slot_of, ZeroCell, Cell, ZeroEntry, Entry, combine

\* A request names a key and a value.
LEMMA RequestParts ==
  ASSUME NEW r \in Requests
  PROVE  r.key \in Keys /\ r.val \in Vals
BY BucketAssumption DEF Requests

\* The array has as many entries as it has indices.
LEMMA IntervalSize ==
  ASSUME NEW n \in Nat, NEW r, DOMAIN r.array = 0 .. n - 1
  PROVE  Size(r) = n
<1>1. 0 \in Int /\ n - 1 \in Int
  BY SMTT(30)
<1>2. Cardinality(0 .. n - 1) = IF 0 > n - 1 THEN 0 ELSE (n - 1) - 0 + 1
  BY <1>1, FS_Interval
<1>3. (IF 0 > n - 1 THEN 0 ELSE (n - 1) - 0 + 1) = n
  BY SMTT(30)
<1> QED BY <1>2, <1>3 DEF Size

\* A put goes to a slot of the bucket.
LEMMA TargetIsSlot ==
  ASSUME NEW bucket \in [Slots -> Cell], NEW k \in Keys
  PROVE  target(bucket, k, slot_of(k)) \in Slots
<1>1. CASE check_slots(bucket, k, slot_of(k)) = 2
  <2> DEFINE T == {s \in Slots : Free(bucket, s)}
  <2>1. T # {}
    BY <1>1 DEF check_slots
  <2>2. \E s \in T : \A i \in T : s <= i
    BY <2>1, Constants, NatMin
  <2>3. \E s \in Slots : Free(bucket, s) /\ \A i \in Slots : Free(bucket, i) => s <= i
    BY <2>2
  <2>4. first_free(bucket) \in Slots
    BY <2>3 DEF first_free
  <2> QED BY <1>1, <2>4 DEF target
<1>2. CASE check_slots(bucket, k, slot_of(k)) # 2
  BY <1>2, Constants DEF target
<1> QED BY <1>1, <1>2

\* Writing an entry, a slot or the count keeps a region sound.
LEMMA EntryWritten ==
  ASSUME NEW r, Sound(r), NEW a \in 0 .. Size(r) - 1, NEW e \in Entry
  PROVE  /\ Sound([r EXCEPT !.array[a] = e])
         /\ Size([r EXCEPT !.array[a] = e]) = Size(r)
<1> DEFINE q == [r EXCEPT !.array[a] = e]
           n == Size(r)
<1>1. n \in Nat \ {0} /\ r \in RegionOf(n) /\ \A s \in Slots : r.bucket[s].addr < n
  BY DEF Sound
<1> HIDE DEF n
<1>2. q \in RegionOf(n) /\ q.bucket = r.bucket /\ DOMAIN q.array = 0 .. n - 1
  BY <1>1 DEF RegionOf
<1> HIDE DEF q
<1>3. Size(q) = n
  BY <1>1, <1>2, IntervalSize
<1> QED BY <1>1, <1>2, <1>3 DEF Sound, q, n

\* A slot may be written with the address of any entry ...
LEMMA SlotWritten ==
  ASSUME NEW r, Sound(r), NEW s \in Slots, NEW c \in Cell, c.addr < Size(r)
  PROVE  /\ Sound([r EXCEPT !.bucket[s] = c])
         /\ Size([r EXCEPT !.bucket[s] = c]) = Size(r)
<1> DEFINE q == [r EXCEPT !.bucket[s] = c]
           n == Size(r)
<1>1. n \in Nat \ {0} /\ r \in RegionOf(n) /\ \A i \in Slots : r.bucket[i].addr < n
  BY DEF Sound
<1> HIDE DEF n
<1>2. q \in RegionOf(n) /\ DOMAIN q.array = 0 .. n - 1
  BY <1>1 DEF RegionOf
<1>3. \A i \in Slots : q.bucket[i].addr < n
  BY <1>1 DEF RegionOf, n
<1> HIDE DEF q
<1>4. Size(q) = n
  BY <1>1, <1>2, IntervalSize
<1> QED BY <1>1, <1>2, <1>3, <1>4 DEF Sound, q, n

\* ... and the count with anything up to the size.
LEMMA CountWritten ==
  ASSUME NEW r, Sound(r), NEW m \in 0 .. Size(r)
  PROVE  /\ Sound([r EXCEPT !.num = m])
         /\ Size([r EXCEPT !.num = m]) = Size(r)
<1> DEFINE q == [r EXCEPT !.num = m]
           n == Size(r)
<1>1. n \in Nat \ {0} /\ r \in RegionOf(n) /\ \A s \in Slots : r.bucket[s].addr < n
  BY DEF Sound
<1> HIDE DEF n
<1>2. q \in RegionOf(n) /\ q.bucket = r.bucket /\ DOMAIN q.array = 0 .. n - 1
  BY <1>1 DEF RegionOf, n
<1> HIDE DEF q
<1>3. Size(q) = n
  BY <1>1, <1>2, IntervalSize
<1> QED BY <1>1, <1>2, <1>3 DEF Sound, q, n

\* bulk_load_data, update_data and write_addr.
LEMMA RegionOperations ==
  ASSUME NEW r, Sound(r), NEW k \in Keys, NEW v \in Vals
  PROVE  /\ r.num < Size(r) =>
              /\ Sound(bulk_load_data(r, k, v)) /\ Size(bulk_load_data(r, k, v)) = Size(r)
              /\ bulk_load_data(r, k, v).bucket = r.bucket
              /\ r.num \in 0 .. Size(r) - 1
         /\ \A a \in 0 .. Size(r) - 1 :
              Sound(update_data(r, a, k, v)) /\ Size(update_data(r, a, k, v)) = Size(r)
         /\ \A s \in Slots, a \in 0 .. Size(r) - 1 :
              Sound(write_addr(r, s, k, a)) /\ Size(write_addr(r, s, k, a)) = Size(r)
<1> DEFINE e == [key |-> k, data |-> v]
<1>0. e \in Entry /\ Size(r) \in Nat \ {0} /\ r \in RegionOf(Size(r))
  BY Constants DEF Sound
<1>1. ASSUME r.num < Size(r)
      PROVE  /\ Sound(bulk_load_data(r, k, v)) /\ Size(bulk_load_data(r, k, v)) = Size(r)
             /\ bulk_load_data(r, k, v).bucket = r.bucket
             /\ r.num \in 0 .. Size(r) - 1
  <2>1. r.num \in 0 .. Size(r) - 1 /\ r.num + 1 \in 0 .. Size(r)
    BY <1>0, <1>1 DEF RegionOf
  <2> DEFINE q == [r EXCEPT !.array[r.num] = e]
  <2>2. Sound(q) /\ Size(q) = Size(r)
    BY <1>0, <2>1, EntryWritten
  <2>3. bulk_load_data(r, k, v) = [q EXCEPT !.num = r.num + 1]
    BY <1>0 DEF bulk_load_data, RegionOf
  <2>4. bulk_load_data(r, k, v).bucket = r.bucket
    BY <1>0 DEF bulk_load_data, RegionOf
  <2> HIDE DEF q
  <2> QED BY <2>1, <2>2, <2>3, <2>4, CountWritten
<1>2. \A a \in 0 .. Size(r) - 1 :
        Sound(update_data(r, a, k, v)) /\ Size(update_data(r, a, k, v)) = Size(r)
  BY <1>0, EntryWritten DEF update_data
<1>3. \A s \in Slots, a \in 0 .. Size(r) - 1 :
        Sound(write_addr(r, s, k, a)) /\ Size(write_addr(r, s, k, a)) = Size(r)
  <2> TAKE s \in Slots, a \in 0 .. Size(r) - 1
  <2>1. a \in Nat /\ a < Size(r)
    BY <1>0
  <2>2. combine(k, a) \in Cell /\ combine(k, a).addr < Size(r)
    BY <2>1, Constants
  <2> QED BY <2>2, SlotWritten DEF write_addr
<1> QED BY <1>1, <1>2, <1>3

\* The slots lead into the array.
LEMMA AddrInArray ==
  ASSUME NEW r, Sound(r), NEW s \in Slots
  PROVE  r.bucket[s].addr \in 0 .. Size(r) - 1
BY DEF Sound, RegionOf, Cell

\* Replaying an operation keeps a region sound.
LEMMA ReplayInsertSound ==
  ASSUME NEW r, Sound(r), NEW k \in Keys, NEW v \in Vals,
         ~(check_slots(r.bucket, k, slot_of(k)) \in {0, 2} /\ r.num = Size(r))
  PROVE  Sound(replay_insert(r, k, v)) /\ Size(replay_insert(r, k, v)) = Size(r)
<1> DEFINE st == check_slots(r.bucket, k, slot_of(k))
           a == r.bucket[slot_of(k)].addr
<1>0. /\ a \in 0 .. Size(r) - 1 /\ r.bucket \in [Slots -> Cell]
      /\ r.num \in 0 .. Size(r) /\ Size(r) \in Nat
  <2>1. slot_of(k) \in Slots
    BY Constants
  <2>2. r \in RegionOf(Size(r)) /\ Size(r) \in Nat
    BY DEF Sound
  <2> QED BY <2>1, <2>2, AddrInArray DEF RegionOf
<1>1. CASE st \in {0, 2}
  <2> DEFINE q == bulk_load_data(r, k, v)
             s == target(r.bucket, k, slot_of(k))
  <2>1. r.num < Size(r)
    BY <1>0, <1>1
  <2>2. Sound(q) /\ Size(q) = Size(r) /\ r.num \in 0 .. Size(r) - 1
    BY <2>1, RegionOperations
  <2>3. s \in Slots
    BY <1>0, TargetIsSlot
  <2>4. replay_insert(r, k, v) = write_addr(q, s, k, r.num)
    BY <1>1 DEF replay_insert
  <2> HIDE DEF q, s
  <2> QED BY <2>2, <2>3, <2>4, RegionOperations
<1>2. CASE st = 1 /\ r.array[a].key = k
  <2>1. replay_insert(r, k, v) = update_data(r, a, k, v)
    BY <1>2 DEF replay_insert
  <2> QED BY <1>0, <2>1, RegionOperations
<1>3. CASE st \notin {0, 2} /\ ~(st = 1 /\ r.array[a].key = k)
  <2>1. replay_insert(r, k, v) = r
    BY <1>3 DEF replay_insert
  <2> QED BY <2>1
<1> QED BY <1>1, <1>2, <1>3

\* replay_delete zeroes the entry and the slot that led to it.
LEMMA ReplayDeleteSound ==
  ASSUME NEW r, Sound(r), NEW k \in Keys
  PROVE  Sound(replay_delete(r, k)) /\ Size(replay_delete(r, k)) = Size(r)
<1> DEFINE found == DeleteCandidates(r, k)
           s == IF slot_of(k) \in found THEN slot_of(k)
                ELSE CHOOSE i \in found : \A j \in found : i <= j
           a == r.bucket[s].addr
<1>1. CASE found = {}
  BY <1>1 DEF replay_delete
<1>2. CASE found # {}
  <2>1. found \subseteq Slots /\ found \subseteq Nat
    BY Constants DEF DeleteCandidates
  <2> HIDE DEF found
  <2>2. \E i \in found : \A j \in found : i <= j
    BY <1>2, <2>1, NatMin
  <2>3. s \in Slots
    BY <2>1, <2>2
  <2>4. replay_delete(r, k) = [r EXCEPT !.array[a] = ZeroEntry, !.bucket[s] = ZeroCell]
    BY <1>2 DEF replay_delete, found
  <2> HIDE DEF s
  <2>5. a \in 0 .. Size(r) - 1
    BY <2>3, AddrInArray
  <2> DEFINE q == [r EXCEPT !.array[a] = ZeroEntry]
  <2>6. Sound(q) /\ Size(q) = Size(r)
    BY <2>5, Constants, EntryWritten
  <2>7. r \in RegionOf(Size(r))
    BY DEF Sound
  <2> HIDE DEF a
  <2>8. replay_delete(r, k) = [q EXCEPT !.bucket[s] = ZeroCell]
    BY <2>4, <2>7 DEF RegionOf
  <2> HIDE DEF q
  <2>9. ZeroCell \in Cell /\ ZeroCell.addr < Size(q)
    BY <2>6, Constants DEF ZeroCell, Sound
  <2> QED BY <2>3, <2>6, <2>8, <2>9, SlotWritten
<1> QED BY <1>1, <1>2

(***************************************************************************)
(* The steps.                                                              *)
(***************************************************************************)

\* At most region v is written, and its array keeps its size.
Rewritten(v) ==
    \/ UNCHANGED region
    \/ v \in DOMAIN region /\ \E r : /\ region' = [region EXCEPT ![v] = r]
                                     /\ Sound(r) /\ Size(r) = Size(region[v])

\* Such a step keeps the regions mapped and sound.
LEMMA RewrittenKeeps ==
  ASSUME RegionInv, NEW v, Rewritten(v)
  PROVE  /\ DOMAIN region' = DOMAIN region
         /\ region' = [u \in DOMAIN region' |-> region'[u]]
         /\ \A u \in DOMAIN region : Sound(region'[u]) /\ Size(region'[u]) = Size(region[u])
<1>1. CASE UNCHANGED region
  BY <1>1 DEF RegionInv
<1>2. ASSUME v \in DOMAIN region, NEW r, region' = [region EXCEPT ![v] = r],
             Sound(r), Size(r) = Size(region[v])
      PROVE  /\ DOMAIN region' = DOMAIN region
             /\ region' = [u \in DOMAIN region' |-> region'[u]]
             /\ \A u \in DOMAIN region :
                  Sound(region'[u]) /\ Size(region'[u]) = Size(region[u])
  <2>1. DOMAIN region' = DOMAIN region /\ region' = [u \in DOMAIN region' |-> region'[u]]
    BY <1>2
  <2>2. \A u \in DOMAIN region : region'[u] = IF u = v THEN r ELSE region[u]
    BY <1>2
  <2> QED BY <1>2, <2>1, <2>2 DEF RegionInv
<1> QED BY <1>1, <1>2 DEF Rewritten

\* A handler writes region 1 and leaves the monitor alone.
LEMMA HandlerWrites ==
  ASSUME RegionInv, HandlerInv, NEW t \in Threads, Begin(t) \/ Handler(t)
  PROVE  Rewritten(1) /\ UNCHANGED monitorVars
<1> DEFINE r == region[1]
           k == req[t].key
           v == req[t].val
           a == r.bucket[slot_of(k)].addr
<1>0. k \in Keys /\ v \in Vals /\ slot_of(k) \in Slots
  BY RequestParts, Constants DEF HandlerInv
<1>s. ASSUME 1 \in DOMAIN region
      PROVE  /\ Sound(r) /\ a \in 0 .. Size(r) - 1 /\ r.bucket \in [Slots -> Cell]
  <2>1. Sound(r)
    BY <1>s DEF RegionInv
  <2> QED BY <1>0, <2>1, AddrInArray DEF Sound, RegionOf
<1> HIDE DEF r, k, v, a
<1>w. ASSUME 1 \in DOMAIN region, NEW q, Sound(q), Size(q) = Size(r), ToRegion(1, q)
      PROVE  Rewritten(1)
  BY <1>w DEF Rewritten, ToRegion, r
<1>u. ASSUME UNCHANGED region PROVE Rewritten(1)
  BY <1>u DEF Rewritten
<1>1. CASE Begin(t) \/ CheckBlocked(t) \/ Defer(t) \/ Lock(t) \/ Fault(t) \/ Get(t)
           \/ PutOverflow(t)
  BY <1>1, <1>u DEF Begin, CheckBlocked, Defer, Lock, Fault, Get, PutOverflow
<1>2. CASE PutNew(t)
  <2>1. CASE r.num < Size(r)
    <3>1. 1 \in DOMAIN region /\ ToRegion(1, bulk_load_data(r, k, v)) /\ UNCHANGED monitorVars
      BY <1>2, <2>1 DEF PutNew, r, k, v
    <3>2. Sound(bulk_load_data(r, k, v)) /\ Size(bulk_load_data(r, k, v)) = Size(r)
      BY <1>0, <1>s, <2>1, <3>1, RegionOperations
    <3> QED BY <1>w, <3>1, <3>2
  <2>2. CASE ~(r.num < Size(r))
    BY <1>2, <1>u, <2>2 DEF PutNew, r
  <2> QED BY <2>1, <2>2
<1>3. CASE WriteSlot(t)
  <2>1. /\ 1 \in DOMAIN region /\ UNCHANGED monitorVars
        /\ ToRegion(1, write_addr(r, slot[t], k, addr[t]))
    BY <1>3 DEF WriteSlot, r, k
  <2>2. slot[t] \in Slots /\ addr[t] \in Nat /\ addr[t] < Size(r)
    BY <1>3, <2>1 DEF HandlerInv, WriteSlot, On, r
  <2>3. Size(r) \in Nat
    BY <1>s, <2>1 DEF Sound
  <2>4. addr[t] \in 0 .. Size(r) - 1
    BY <2>2, <2>3
  <2> QED BY <1>0, <1>s, <1>w, <2>1, <2>2, <2>4, RegionOperations
<1>4. CASE PutExisting(t) \/ Update(t)
  <2>1. /\ 1 \in DOMAIN region /\ UNCHANGED monitorVars
        /\ ToRegion(1, update_data(r, a, k, v)) \/ UNCHANGED region
    BY <1>4 DEF PutExisting, Update, r, k, v, a
  <2> QED BY <1>0, <1>s, <1>w, <1>u, <2>1, RegionOperations
<1>5. CASE Remove(t)
  <2>1. /\ 1 \in DOMAIN region /\ UNCHANGED monitorVars
        /\ ToRegion(1, [r EXCEPT !.array[a] = ZeroEntry]) \/ UNCHANGED region
    BY <1>5 DEF Remove, r, k, a
  <2> QED BY <1>s, <1>w, <1>u, <2>1, Constants, EntryWritten
<1>6. CASE ClearSlot(t)
  <2>1. /\ 1 \in DOMAIN region /\ UNCHANGED monitorVars
        /\ ToRegion(1, [r EXCEPT !.bucket[slot_of(k)] = ZeroCell])
    BY <1>6 DEF ClearSlot, r, k
  <2>2. ZeroCell \in Cell /\ ZeroCell.addr < Size(r)
    BY <1>s, <2>1, Constants DEF ZeroCell, Sound
  <2> QED BY <1>0, <1>s, <1>w, <2>1, <2>2, SlotWritten
<1> QED BY <1>1, <1>2, <1>3, <1>4, <1>5, <1>6 DEF Handler

\* CopyPacked maps a region of twice the size; the others stay as they are.
LEMMA CopyPackedKeeps ==
  ASSUME RegionInv, CopyPacked
  PROVE  /\ DOMAIN region' = DOMAIN region \union {current + 1}
         /\ region' = [u \in DOMAIN region' |-> region'[u]]
         /\ \A u \in DOMAIN region : u # current + 1 => region'[u] = region[u]
         /\ Sound(region'[current + 1])
         /\ Size(region[current]) <= Size(region'[current + 1])
<1> DEFINE r == region[current]
           n == Size(r)
           q == [bucket |-> [s \in Slots |-> ZeroCell],
                 array |-> [i \in 0 .. 2 * n - 1 |->
                              IF i < n THEN r.array[i] ELSE ZeroEntry],
                 num |-> 0]
<1>1. /\ DOMAIN region' = DOMAIN region \union {current + 1}
      /\ region' = [u \in DOMAIN region' |-> region'[u]]
      /\ \A u \in DOMAIN region : u # current + 1 => region'[u] = region[u]
      /\ region'[current + 1] = q
  BY DEF CopyPacked
<1>2. n \in Nat \ {0} /\ r.array \in [0 .. n - 1 -> Entry]
  BY DEF RegionInv, Sound, RegionOf
<1> HIDE DEF r, n
<1>3. 2 * n \in Nat \ {0} /\ n <= 2 * n
  BY <1>2
<1>4. q.array \in [0 .. 2 * n - 1 -> Entry]
  BY <1>2, Constants
<1>5. q \in RegionOf(2 * n) /\ \A s \in Slots : q.bucket[s].addr < 2 * n
  BY <1>3, <1>4, Constants DEF RegionOf, ZeroCell
<1>6. DOMAIN q.array = 0 .. 2 * n - 1
  OBVIOUS
<1> HIDE DEF q
<1>7. Size(q) = 2 * n
  BY <1>3, <1>6, IntervalSize
<1> QED BY <1>1, <1>3, <1>5, <1>7 DEF Sound, n, r

\* Region 1 keeps its size as long as it is mapped.
OneKept == 1 \in DOMAIN region' =>
             1 \in DOMAIN region /\ Size(region'[1]) = Size(region[1])

\* Every step keeps the regions sound: a handler and a replay write one of
\* them, CopyPacked adds one and Gc takes one away.
LEMMA RegionStep ==
  ASSUME RegionInv, HandlerInv, QueueInv, [Next]_vars
  PROVE  RegionInv' /\ OneKept
<1>0. /\ current \in Nat \ {0} /\ current \in DOMAIN region /\ pending_old \in Nat
      /\ pending_old < current
      /\ mpc \in {"copy_buckets", "switch"} => current + 1 \in DOMAIN region
      /\ mpc = "copy_buckets" => Size(region[current]) <= Size(region[current + 1])
      /\ Sound(region[current])
  BY DEF RegionInv
<1>w. ASSUME NEW v, Rewritten(v), UNCHANGED <<current, pending_old>>,
             \/ mpc' = mpc
             \/ mpc' \notin {"copy_buckets", "switch"}
             \/ mpc = "copy_buckets" /\ mpc' = "switch"
      PROVE  RegionInv' /\ OneKept
  <2>1. /\ DOMAIN region' = DOMAIN region
        /\ region' = [u \in DOMAIN region' |-> region'[u]]
        /\ \A u \in DOMAIN region : Sound(region'[u]) /\ Size(region'[u]) = Size(region[u])
    BY <1>w, RewrittenKeeps
  <2>2. RegionInv'
    BY <1>0, <1>w, <2>1 DEF RegionInv
  <2> QED BY <2>1, <2>2 DEF OneKept
<1>1. ASSUME NEW t \in Threads, Begin(t) \/ Handler(t) PROVE RegionInv' /\ OneKept
  BY <1>1, <1>w, HandlerWrites DEF monitorVars
<1>2. CASE StartCopy \/ CreateFails \/ EndWait \/ DrainBegin \/ InsertsReplayed
           \/ DrainUnlock \/ DrainEnd \/ Stop \/ UNCHANGED vars
  <2>1. Rewritten(1)
    BY <1>2 DEF StartCopy, CreateFails, EndWait, DrainBegin, InsertsReplayed,
                DrainUnlock, DrainEnd, Stop, vars, Rewritten
  <2>2. UNCHANGED <<current, pending_old>>
    BY <1>2 DEF StartCopy, CreateFails, EndWait, DrainBegin, InsertsReplayed,
                DrainUnlock, DrainEnd, Stop, vars, monitorVars
  <2>3. mpc' = mpc \/ mpc' \notin {"copy_buckets", "switch"}
    BY <1>2 DEF StartCopy, CreateFails, EndWait, DrainBegin, InsertsReplayed,
                DrainUnlock, DrainEnd, Stop, vars, monitorVars
  <2> QED BY <1>w, <2>1, <2>2, <2>3
<1>3. CASE CopyPacked
  <2>1. UNCHANGED <<current, pending_old>> /\ mpc' = "copy_buckets"
    BY <1>3 DEF CopyPacked
  <2>2. current + 1 # 1 /\ current # current + 1
    BY <1>0
  <2>3. /\ region' = [v \in DOMAIN region' |-> region'[v]]
        /\ DOMAIN region' = DOMAIN region \union {current + 1}
        /\ \A v \in DOMAIN region' : Sound(region'[v])
        /\ region'[current] = region[current]
        /\ Size(region[current]) <= Size(region'[current + 1])
    BY <1>0, <1>3, <2>2, CopyPackedKeeps DEF RegionInv
  <2>4. RegionInv'
    BY <1>0, <2>1, <2>3 DEF RegionInv
  <2>5. OneKept
    BY <1>3, <2>2, <2>3, CopyPackedKeeps DEF OneKept
  <2> QED BY <2>4, <2>5
<1>4. CASE CopyBuckets
  <2> DEFINE r == region[current + 1]
             q == [r EXCEPT !.bucket = region[current].bucket]
             n == Size(r)
             m == Size(region[current])
  <2>1. /\ ToRegion(current + 1, q) /\ mpc = "copy_buckets" /\ mpc' = "switch"
        /\ UNCHANGED <<current, pending_old>> /\ current + 1 \in DOMAIN region
        /\ m <= n
    BY <1>0, <1>4 DEF CopyBuckets, At
  <2>2. Sound(r)
    BY <2>1 DEF RegionInv
  <2>3. /\ n \in Nat \ {0} /\ m \in Nat \ {0} /\ r \in RegionOf(n)
        /\ region[current] \in RegionOf(m)
        /\ \A s \in Slots : region[current].bucket[s].addr < m
    BY <1>0, <2>2 DEF Sound
  <2> HIDE DEF n, m
  <2>4. q \in RegionOf(n) /\ q.bucket = region[current].bucket
        /\ DOMAIN q.array = 0 .. n - 1
    BY <2>3 DEF RegionOf
  <2>5. \A s \in Slots : q.bucket[s].addr < n
    <3> TAKE s \in Slots
    <3>1. region[current].bucket[s].addr \in Nat
      BY <2>3 DEF RegionOf, Cell
    <3> QED BY <2>1, <2>3, <2>4, <3>1
  <2> HIDE DEF q
  <2>6. Size(q) = n
    BY <2>3, <2>4, IntervalSize
  <2>7. Sound(q)
    BY <2>3, <2>4, <2>5, <2>6 DEF Sound
  <2>8. Rewritten(current + 1)
    BY <2>1, <2>6, <2>7 DEF Rewritten, ToRegion, n
  <2> QED BY <1>w, <2>1, <2>8
<1>5. CASE Switch
  <2>1. /\ UNCHANGED region /\ pending_old' = current /\ current' = current + 1
        /\ mpc = "switch" /\ mpc' = "wrap"
    BY <1>5 DEF Switch, At
  <2> QED BY <1>0, <2>1 DEF RegionInv, OneKept
<1>6. CASE Wrap
  <2> DEFINE r == region[current]
             n == Size(r)
  <2>1. PICK junk \in {r.array} \union {[i \in DOMAIN r.array |-> e] : e \in Entry} :
               ToRegion(current, [r EXCEPT !.array = junk, !.num = 0])
    BY <1>6 DEF Wrap
  <2> DEFINE q == [r EXCEPT !.array = junk, !.num = 0]
  <2>2. n \in Nat \ {0} /\ r \in RegionOf(n) /\ \A s \in Slots : r.bucket[s].addr < n
    BY <1>0 DEF Sound
  <2> HIDE DEF n
  <2>3. junk \in [0 .. n - 1 -> Entry]
    <3>1. r.array \in [0 .. n - 1 -> Entry]
      BY <2>2 DEF RegionOf
    <3> QED BY <2>1, <3>1
  <2> HIDE DEF r
  <2> DEFINE p == [r EXCEPT !.array = junk]
  <2>4. p \in RegionOf(n) /\ p.bucket = r.bucket /\ DOMAIN p.array = 0 .. n - 1
    BY <2>2, <2>3 DEF RegionOf
  <2>q. q = [p EXCEPT !.num = 0]
    BY <2>2 DEF RegionOf
  <2> HIDE DEF p, q
  <2>5. Size(q) = n /\ Sound(q)
    <3>1. Size(p) = n
      BY <2>2, <2>4, IntervalSize
    <3>2. Sound(p)
      BY <2>2, <2>4, <3>1 DEF Sound
    <3>3. 0 \in 0 .. n
      BY <2>2
    <3> QED BY <2>q, <3>1, <3>2, <3>3, CountWritten
  <2>6. Rewritten(current)
    BY <1>0, <2>1, <2>5 DEF Rewritten, ToRegion, n, q, r
  <2>7. UNCHANGED <<current, pending_old>> /\ mpc' = "poll"
    BY <1>6 DEF Wrap
  <2> QED BY <1>w, <2>6, <2>7
<1>7. CASE ReplayInsert
  <2> DEFINE r == region[current]
             d == Oldest(deferred_inserts)
  <2>1. d \in Requests
    <3>1. deferred_inserts # <<>> /\ deferred_inserts \in Seq({x \in Requests : x.op = "put"})
      BY <1>7 DEF ReplayInsert, QueueInv
    <3>2. Head(deferred_inserts) \in {x \in Requests : x.op = "put"}
      BY <3>1, HeadTailProperties
    <3> QED BY <3>2 DEF Oldest
  <2>2. d.key \in Keys /\ d.val \in Vals
    BY <2>1, RequestParts
  <2>3. UNCHANGED monitorVars
    BY <1>7 DEF ReplayInsert
  <2>4. \/ UNCHANGED region
        \/ /\ ~(check_slots(r.bucket, d.key, slot_of(d.key)) \in {0, 2} /\ r.num = Size(r))
           /\ ToRegion(current, replay_insert(r, d.key, d.val))
    BY <1>7 DEF ReplayInsert
  <2>5. Rewritten(current)
    <3>1. CASE UNCHANGED region
      BY <3>1 DEF Rewritten
    <3>2. CASE /\ ~(check_slots(r.bucket, d.key, slot_of(d.key)) \in {0, 2} /\ r.num = Size(r))
               /\ ToRegion(current, replay_insert(r, d.key, d.val))
      <4>1. /\ Sound(replay_insert(r, d.key, d.val))
            /\ Size(replay_insert(r, d.key, d.val)) = Size(r)
        BY <1>0, <2>2, <3>2, ReplayInsertSound
      <4> QED BY <1>0, <3>2, <4>1 DEF Rewritten, ToRegion
    <3> QED BY <2>4, <3>1, <3>2
  <2> QED BY <1>w, <2>3, <2>5 DEF monitorVars
<1>8. CASE ReplayDelete
  <2> DEFINE r == region[current]
             d == Oldest(deferred_deletes)
  <2>1. d \in Requests
    <3>1. deferred_deletes # <<>> /\ deferred_deletes \in Seq({x \in Requests : x.op = "remove"})
      BY <1>8 DEF ReplayDelete, QueueInv
    <3>2. Head(deferred_deletes) \in {x \in Requests : x.op = "remove"}
      BY <3>1, HeadTailProperties
    <3> QED BY <3>2 DEF Oldest
  <2>2. d.key \in Keys
    BY <2>1, RequestParts
  <2>3. UNCHANGED monitorVars /\ ToRegion(current, replay_delete(r, d.key))
    BY <1>8 DEF ReplayDelete
  <2>4. Sound(replay_delete(r, d.key)) /\ Size(replay_delete(r, d.key)) = Size(r)
    BY <1>0, <2>2, ReplayDeleteSound
  <2>5. Rewritten(current)
    BY <1>0, <2>3, <2>4 DEF Rewritten, ToRegion
  <2> QED BY <1>w, <2>3, <2>5 DEF monitorVars
<1>9. CASE Gc
  <2>1. /\ region' = [v \in DOMAIN region \ {pending_old} |-> region[v]]
        /\ pending_old' = 0 /\ UNCHANGED <<current, mpc>> /\ mpc = "poll"
    BY <1>9 DEF Gc, At
  <2>2. /\ DOMAIN region' = DOMAIN region \ {pending_old}
        /\ region' = [v \in DOMAIN region' |-> region'[v]]
        /\ \A v \in DOMAIN region' : region'[v] = region[v]
    BY <2>1
  <2>3. current \in DOMAIN region'
    BY <1>0, <2>2
  <2>4. \A v \in DOMAIN region' : Sound(region'[v])
    BY <2>2 DEF RegionInv
  <2>5. RegionInv'
    BY <1>0, <2>1, <2>2, <2>3, <2>4 DEF RegionInv
  <2> QED BY <2>2, <2>5 DEF OneKept
<1> QED BY <1>1, <1>2, <1>3, <1>4, <1>5, <1>6, <1>7, <1>8, <1>9 DEF Next, Copy, Drain

\* A queue whose head moves to what has left it.
LEMMA QueueShifts ==
  ASSUME NEW S, NEW p \in Seq(S), NEW q \in Seq(S), q # <<>>
  PROVE  p \o q = Append(p, Head(q)) \o Tail(q)
<1>1. Head(q) \in S /\ Tail(q) \in Seq(S) /\ <<Head(q)>> \in Seq(S)
  BY HeadTailProperties
<1>2. Append(p, Head(q)) = p \o <<Head(q)>>
  BY <1>1, AppendIsConcat
<1>3. q = <<Head(q)>> \o Tail(q)
  BY <1>1
<1> QED BY <1>1, <1>2, <1>3, ConcatAssociative

\* A deferral or a replay keeps the queues in step with the history.
LEMMA QueueStep ==
  ASSUME HandlerInv, QueueInv, [Next]_vars
  PROVE  QueueInv'
<1> DEFINE PutRequest == {r \in Requests : r.op = "put"}
           RemoveRequest == {r \in Requests : r.op = "remove"}
<1>0. /\ deferred_inserts \in Seq(PutRequest) /\ deferred_deletes \in Seq(RemoveRequest)
      /\ deferred_inserts \in Seq(Requests) /\ deferred_deletes \in Seq(Requests)
      /\ Len(deferred_inserts) <= kMaxDeferredDepth
      /\ Len(deferred_deletes) <= kMaxDeferredDepth
      /\ accepted \in Seq(Requests) /\ replayed \in Seq(Requests)
      /\ OfKind(accepted, "put") = OfKind(replayed, "put") \o deferred_inserts
      /\ OfKind(accepted, "remove") = OfKind(replayed, "remove") \o deferred_deletes
      /\ kMaxDeferredDepth \in Nat
  <2>1. PutRequest \subseteq Requests /\ RemoveRequest \subseteq Requests
    OBVIOUS
  <2> QED BY <2>1, SeqMonotonic, ReplayAssumption DEF QueueInv, DeferredConserved
<1>1. /\ OfKind(replayed, "put") \in Seq(Requests)
      /\ OfKind(replayed, "remove") \in Seq(Requests)
      /\ deferred_inserts \in Seq(Requests) /\ deferred_deletes \in Seq(Requests)
  BY <1>0, OfKindType
<1>u. CASE UNCHANGED queueVars
  BY <1>u DEF queueVars, QueueInv, DeferredConserved
<1>2. ASSUME NEW t \in Threads, Defer(t) PROVE QueueInv'
  <2> DEFINE r == req[t]
  <2>0. r \in Requests
    BY DEF HandlerInv
  <2>1. CASE /\ r.op = "put" /\ HasRoom(deferred_inserts)
             /\ deferred_inserts' = Append(deferred_inserts, r)
             /\ accepted' = Append(accepted, r)
             /\ UNCHANGED <<deferred_deletes, replayed>>
    <3> HIDE DEF r
    <3>1. OfKind(accepted', "put") = Append(OfKind(accepted, "put"), r)
      BY <1>0, <2>0, <2>1, OfKindAppend
    <3>2. OfKind(accepted', "remove") = OfKind(accepted, "remove")
      BY <1>0, <2>0, <2>1, OfKindAppend
    <3>3. OfKind(accepted', "put") = OfKind(replayed, "put") \o deferred_inserts'
      <4> DEFINE p == OfKind(replayed, "put")
      <4>1. p \in Seq(Requests) /\ deferred_inserts \in Seq(Requests) /\ <<r>> \in Seq(Requests)
        BY <1>1, <2>0
      <4> HIDE DEF p
      <4>2. p \o deferred_inserts \in Seq(Requests)
        BY <4>1, ConcatProperties
      <4>3. /\ Append(p \o deferred_inserts, r) = (p \o deferred_inserts) \o <<r>>
            /\ Append(deferred_inserts, r) = deferred_inserts \o <<r>>
        BY <2>0, <4>1, <4>2, AppendIsConcat
      <4>4. Append(p \o deferred_inserts, r) = p \o Append(deferred_inserts, r)
        BY <4>1, <4>3, ConcatAssociative
      <4> QED BY <1>0, <2>1, <3>1, <4>4 DEF p
    <3>4. /\ deferred_inserts' \in Seq(PutRequest) /\ accepted' \in Seq(Requests)
          /\ Len(deferred_inserts') <= kMaxDeferredDepth
      BY <1>0, <2>0, <2>1 DEF HasRoom
    <3> QED BY <1>0, <2>1, <3>2, <3>3, <3>4 DEF QueueInv, DeferredConserved
  <2>2. CASE /\ r.op = "remove" /\ HasRoom(deferred_deletes)
             /\ deferred_deletes' = Append(deferred_deletes, r)
             /\ accepted' = Append(accepted, r)
             /\ UNCHANGED <<deferred_inserts, replayed>>
    <3> HIDE DEF r
    <3>1. OfKind(accepted', "remove") = Append(OfKind(accepted, "remove"), r)
      BY <1>0, <2>0, <2>2, OfKindAppend
    <3>2. OfKind(accepted', "put") = OfKind(accepted, "put")
      BY <1>0, <2>0, <2>2, OfKindAppend
    <3>3. OfKind(accepted', "remove") = OfKind(replayed, "remove") \o deferred_deletes'
      <4> DEFINE p == OfKind(replayed, "remove")
      <4>1. p \in Seq(Requests) /\ deferred_deletes \in Seq(Requests) /\ <<r>> \in Seq(Requests)
        BY <1>1, <2>0
      <4> HIDE DEF p
      <4>2. p \o deferred_deletes \in Seq(Requests)
        BY <4>1, ConcatProperties
      <4>3. /\ Append(p \o deferred_deletes, r) = (p \o deferred_deletes) \o <<r>>
            /\ Append(deferred_deletes, r) = deferred_deletes \o <<r>>
        BY <2>0, <4>1, <4>2, AppendIsConcat
      <4>4. Append(p \o deferred_deletes, r) = p \o Append(deferred_deletes, r)
        BY <4>1, <4>3, ConcatAssociative
      <4> QED BY <1>0, <2>2, <3>1, <4>4 DEF p
    <3>4. /\ deferred_deletes' \in Seq(RemoveRequest) /\ accepted' \in Seq(Requests)
          /\ Len(deferred_deletes') <= kMaxDeferredDepth
      BY <1>0, <2>0, <2>2 DEF HasRoom
    <3> QED BY <1>0, <2>2, <3>2, <3>3, <3>4 DEF QueueInv, DeferredConserved
  <2> QED BY <1>2, <1>u, <2>1, <2>2 DEF Defer
<1>3. CASE ReplayInsert
  <2> DEFINE d == Head(deferred_inserts)
  <2>1. CASE UNCHANGED queueVars
    BY <2>1, <1>u
  <2>2. CASE /\ deferred_inserts # <<>> /\ deferred_inserts' = Tail(deferred_inserts)
             /\ replayed' = Append(replayed, d) /\ UNCHANGED <<deferred_deletes, accepted>>
    <3>1. /\ d \in PutRequest /\ deferred_inserts' \in Seq(PutRequest)
          /\ Len(deferred_inserts') <= Len(deferred_inserts)
          /\ Len(deferred_inserts') \in Nat /\ Len(deferred_inserts) \in Nat
      BY <1>0, <2>2, HeadTailProperties
    <3> HIDE DEF d
    <3>2. OfKind(replayed', "put") = Append(OfKind(replayed, "put"), d)
      BY <1>0, <2>2, <3>1, OfKindAppend
    <3>3. OfKind(replayed', "remove") = OfKind(replayed, "remove")
      BY <1>0, <2>2, <3>1, OfKindAppend
    <3>4. OfKind(accepted, "put") = OfKind(replayed', "put") \o deferred_inserts'
      <4>1. OfKind(replayed, "put") \o deferred_inserts
              = Append(OfKind(replayed, "put"), d) \o Tail(deferred_inserts)
        BY <1>1, <2>2, QueueShifts, Zenon DEF d
      <4> QED BY <1>0, <2>2, <3>2, <4>1
    <3>5. replayed' \in Seq(Requests)
      BY <1>0, <2>2, <3>1
    <3>6. Len(deferred_inserts') <= kMaxDeferredDepth
      BY <1>0, <3>1
    <3> QED BY <1>0, <2>2, <3>1, <3>3, <3>4, <3>5, <3>6 DEF QueueInv, DeferredConserved
  <2> QED BY <1>3, <2>1, <2>2 DEF ReplayInsert, Oldest
<1>4. CASE ReplayDelete
  <2> DEFINE d == Head(deferred_deletes)
  <2>2. /\ deferred_deletes # <<>> /\ deferred_deletes' = Tail(deferred_deletes)
        /\ replayed' = Append(replayed, d) /\ UNCHANGED <<deferred_inserts, accepted>>
    BY <1>4 DEF ReplayDelete, Oldest
  <2>3. /\ d \in RemoveRequest /\ deferred_deletes' \in Seq(RemoveRequest)
        /\ Len(deferred_deletes') <= Len(deferred_deletes)
        /\ Len(deferred_deletes') \in Nat /\ Len(deferred_deletes) \in Nat
    BY <1>0, <2>2, HeadTailProperties
  <2> HIDE DEF d
  <2>4. OfKind(replayed', "remove") = Append(OfKind(replayed, "remove"), d)
    BY <1>0, <2>2, <2>3, OfKindAppend
  <2>5. OfKind(replayed', "put") = OfKind(replayed, "put")
    BY <1>0, <2>2, <2>3, OfKindAppend
  <2>6. OfKind(accepted, "remove") = OfKind(replayed', "remove") \o deferred_deletes'
    <3>1. OfKind(replayed, "remove") \o deferred_deletes
            = Append(OfKind(replayed, "remove"), d) \o Tail(deferred_deletes)
      BY <1>1, <2>2, QueueShifts, Zenon DEF d
    <3> QED BY <1>0, <2>2, <2>4, <3>1
  <2>7. replayed' \in Seq(Requests)
    BY <1>0, <2>2, <2>3
  <2>8. Len(deferred_deletes') <= kMaxDeferredDepth
    BY <1>0, <2>3
  <2> QED BY <1>0, <2>2, <2>3, <2>5, <2>6, <2>7, <2>8 DEF QueueInv, DeferredConserved
<1>5. CASE \E t \in Threads : Begin(t) \/ Handler(t)
  BY <1>2, <1>5, <1>u
  DEF Begin, Handler, CheckBlocked, Lock, Fault, Get, PutNew, WriteSlot, PutExisting,
      PutOverflow, Update, Remove, ClearSlot
<1>6. CASE Copy \/ Drain \/ Gc \/ Stop \/ UNCHANGED vars
  BY <1>3, <1>4, <1>6, <1>u
  DEF Copy, Drain, StartCopy, CreateFails, CopyPacked, CopyBuckets, Switch, Wrap,
      EndWait, DrainBegin, InsertsReplayed, DrainUnlock, DrainEnd, Gc, Stop, vars
<1> QED BY <1>5, <1>6 DEF Next

\* What was accepted first stays so when more is accepted.
LEMMA FirstOfAppend ==
  ASSUME NEW S, NEW q \in Seq(S), NEW e \in S, NEW n \in 0 .. Len(q)
  PROVE  SubSeq(Append(q, e), 1, n) = SubSeq(q, 1, n)
OBVIOUS

\* One more accepted is one more queued; one fewer queued is one more replayed.
LEMMA Counts ==
  ASSUME NEW a \in Nat, NEW r \in Nat, NEW i \in Nat, NEW d \in Nat, a = r + i + d
  PROVE  /\ a + 1 = r + (i + 1) + d /\ a + 1 = r + i + (d + 1)
         /\ a = (r + 1) + (i - 1) + d /\ a = (r + 1) + i + (d - 1)
OBVIOUS

\* Outside a drain nothing is replayed, and a drain ends with every accepted
\* request replayed.
LEMMA DrainStep ==
  ASSUME HandlerInv, QueueInv, DrainInv, [Next]_vars
  PROVE  DrainInv'
<1>0. /\ accepted \in Seq(Requests) /\ replayed \in Seq(Requests)
      /\ deferred_inserts \in Seq({r \in Requests : r.op = "put"})
      /\ deferred_deletes \in Seq({r \in Requests : r.op = "remove"})
      /\ Len(accepted) \in Nat /\ Len(replayed) \in Nat
      /\ Len(deferred_inserts) \in Nat /\ Len(deferred_deletes) \in Nat
  BY DEF QueueInv
<1>1. /\ Replaying => defer_mu = "monitor"
      /\ mpc = "replay_deletes" => deferred_inserts = <<>>
      /\ Len(accepted) = Len(replayed) + Len(deferred_inserts) + Len(deferred_deletes)
      /\ DrainTakesPrefix
  BY DEF DrainInv
<1>c. LET a == Len(accepted)  r == Len(replayed)
          i == Len(deferred_inserts)  d == Len(deferred_deletes)
      IN  /\ a + 1 = r + (i + 1) + d /\ a + 1 = r + i + (d + 1)
          /\ a = (r + 1) + (i - 1) + d /\ a = (r + 1) + i + (d - 1)
  BY <1>0, <1>1, Counts
<1>u. ASSUME UNCHANGED <<queueVars, defer_mu>>,
             mpc' = mpc \/ (~Replaying /\ ~Replaying')
      PROVE  DrainInv'
  BY <1>1, <1>u DEF DrainInv, DrainTakesPrefix, Replaying, queueVars
<1>2. ASSUME NEW t \in Threads, Defer(t) PROVE DrainInv'
  <2> DEFINE r == req[t]
  <2>0. r \in Requests
    BY DEF HandlerInv
  <2>1. ~Replaying /\ mpc' = mpc /\ defer_mu' = defer_mu
    BY <1>1, <1>2 DEF Defer, monitorVars
  <2>2. CASE UNCHANGED queueVars
    BY <1>u, <2>1, <2>2
  <2>3. CASE /\ accepted' = Append(accepted, r) /\ UNCHANGED replayed
             /\ \/ /\ deferred_inserts' = Append(deferred_inserts, r)
                   /\ UNCHANGED deferred_deletes
                \/ /\ deferred_deletes' = Append(deferred_deletes, r)
                   /\ UNCHANGED deferred_inserts
    <3> HIDE DEF r
    <3>1. SubSeq(accepted', 1, Len(replayed)) = SubSeq(accepted, 1, Len(replayed))
      <4>1. Len(replayed) \in 0 .. Len(accepted)
        BY <1>0, <1>1
      <4> QED BY <1>0, <2>0, <2>3, <4>1, FirstOfAppend
    <3>2. Len(accepted') = Len(accepted) + 1
      BY <1>0, <2>0, <2>3
    <3>3. \/ /\ Len(deferred_inserts') = Len(deferred_inserts) + 1
             /\ deferred_deletes' = deferred_deletes
          \/ /\ Len(deferred_deletes') = Len(deferred_deletes) + 1
             /\ deferred_inserts' = deferred_inserts
      BY <1>0, <2>3
    <3>4. Len(accepted') = Len(replayed') + Len(deferred_inserts') + Len(deferred_deletes')
      <4>1. Len(replayed') = Len(replayed)
        BY <2>3
      <4> QED BY <1>c, <3>2, <3>3, <4>1, Zenon
    <3>5. DrainTakesPrefix'
      BY <1>1, <2>1, <2>3, <3>1 DEF DrainTakesPrefix, Replaying
    <3> QED BY <2>1, <3>4, <3>5 DEF DrainInv, Replaying
  <2> QED BY <1>2, <2>2, <2>3 DEF Defer
<1>3. CASE ReplayInsert
  <2>1. mpc = "replay_inserts" /\ mpc' = mpc /\ defer_mu' = defer_mu
    BY <1>3 DEF ReplayInsert, At, monitorVars
  <2>2. CASE UNCHANGED queueVars
    BY <1>u, <2>1, <2>2
  <2>3. CASE /\ deferred_inserts # <<>> /\ deferred_inserts' = Tail(deferred_inserts)
             /\ replayed' = Append(replayed, Head(deferred_inserts))
             /\ UNCHANGED <<deferred_deletes, accepted>>
    <3>1. Len(deferred_inserts') = Len(deferred_inserts) - 1
      BY <1>0, <2>3, HeadTailProperties
    <3>2. Len(replayed') = Len(replayed) + 1
      <4>1. Head(deferred_inserts) \in Requests
        BY <1>0, <2>3, HeadTailProperties
      <4> QED BY <1>0, <2>3, <4>1
    <3>3. Len(accepted') = Len(replayed') + Len(deferred_inserts') + Len(deferred_deletes')
      BY <1>c, <2>3, <3>1, <3>2, Zenon
    <3> QED BY <1>1, <2>1, <3>3 DEF DrainInv, DrainTakesPrefix, Replaying
  <2> QED BY <1>3, <2>2, <2>3 DEF ReplayInsert, Oldest
<1>4. CASE ReplayDelete
  <2>1. mpc = "replay_deletes" /\ mpc' = mpc /\ defer_mu' = defer_mu
    BY <1>4 DEF ReplayDelete, At, monitorVars
  <2>2. /\ deferred_deletes # <<>> /\ deferred_deletes' = Tail(deferred_deletes)
        /\ replayed' = Append(replayed, Head(deferred_deletes))
        /\ UNCHANGED <<deferred_inserts, accepted>>
    BY <1>4 DEF ReplayDelete, Oldest
  <2>3. Len(deferred_deletes') = Len(deferred_deletes) - 1
    BY <1>0, <2>2, HeadTailProperties
  <2>4. Len(replayed') = Len(replayed) + 1
    <3>1. Head(deferred_deletes) \in Requests
      BY <1>0, <2>2, HeadTailProperties
    <3> QED BY <1>0, <2>2, <3>1
  <2>5. Len(accepted') = Len(replayed') + Len(deferred_inserts') + Len(deferred_deletes')
    BY <1>c, <2>2, <2>3, <2>4, Zenon
  <2> QED BY <1>1, <2>1, <2>2, <2>5 DEF DrainInv, DrainTakesPrefix, Replaying
<1>5. CASE DrainBegin
  BY <1>1, <1>5 DEF DrainBegin, DrainInv, DrainTakesPrefix, Replaying, queueVars
<1>6. CASE InsertsReplayed
  BY <1>1, <1>6 DEF InsertsReplayed, At, DrainInv, DrainTakesPrefix, Replaying, queueVars
<1>7. CASE DrainUnlock
  <2>1. /\ mpc = "replay_deletes" /\ mpc' = "drained" /\ deferred_deletes = <<>>
        /\ UNCHANGED queueVars
    BY <1>7 DEF DrainUnlock, At
  <2>2. deferred_inserts = <<>> /\ Len(deferred_inserts) = 0 /\ Len(deferred_deletes) = 0
    BY <1>1, <2>1
  <2>3. Len(replayed) = Len(accepted)
    BY <1>0, <1>1, <2>2
  <2>4. SubSeq(accepted, 1, Len(replayed)) = accepted
    BY <1>0, <2>3, SubSeqFull
  <2>5. /\ OfKind(accepted, "put") = OfKind(replayed, "put")
        /\ OfKind(accepted, "remove") = OfKind(replayed, "remove")
    <3>1. /\ OfKind(replayed, "put") \in Seq(Requests)
          /\ OfKind(replayed, "remove") \in Seq(Requests)
      BY <1>0, OfKindType
    <3>2. /\ OfKind(replayed, "put") \o <<>> = OfKind(replayed, "put")
          /\ OfKind(replayed, "remove") \o <<>> = OfKind(replayed, "remove")
      BY <3>1, ConcatEmptySeq
    <3> QED BY <2>1, <2>2, <3>2 DEF QueueInv, DeferredConserved
  <2>6. DrainTakesPrefix'
    BY <2>1, <2>4, <2>5 DEF DrainTakesPrefix, queueVars
  <2> QED BY <1>1, <2>1, <2>6 DEF DrainInv, Replaying, queueVars
<1>8. CASE \E t \in Threads : Begin(t) \/ Handler(t)
  BY <1>2, <1>8, <1>u
  DEF Begin, Handler, CheckBlocked, Lock, Fault, Get, PutNew, WriteSlot, PutExisting,
      PutOverflow, Update, Remove, ClearSlot, monitorVars
<1>9. CASE Copy \/ DrainEnd \/ Gc \/ Stop \/ UNCHANGED vars
  BY <1>9, <1>u
  DEF Copy, StartCopy, CreateFails, CopyPacked, CopyBuckets, Switch, Wrap, EndWait,
      DrainEnd, Gc, Stop, At, vars, monitorVars, Replaying
<1> QED BY <1>3, <1>4, <1>5, <1>6, <1>7, <1>8, <1>9 DEF Next, Drain

\* Who is where in a handler, and who holds the row's mutex.
LEMMA HandlerStep ==
  ASSUME RegionInv, HandlerInv, OneKept, [Next]_vars
  PROVE  HandlerInv'
<1>0. /\ pc \in [Threads -> Points] /\ req \in [Threads -> Requests]
      /\ \A u \in Threads : mutex = u <=> pc[u] \in Holding
      /\ slot \in [Threads -> Slots] /\ addr \in [Threads -> Nat]
      /\ \A u \in Threads : pc[u] = "write_slot" /\ 1 \in DOMAIN region
                            => addr[u] < Size(region[1])
      /\ dead \in {"no", "exit", "fault"}
      /\ "free" \notin Threads
  BY ReplayAssumption DEF HandlerInv
<1>n. NoRequest \in Requests
  BY ReplayAssumption, BucketAssumption DEF NoRequest, Requests
<1>u. ASSUME UNCHANGED <<pc, req, mutex, slot, addr>>, dead' \in {"no", "exit", "fault"}
      PROVE  HandlerInv'
  BY <1>0, <1>u DEF HandlerInv, OneKept
<1>r. ASSUME NEW t \in Threads, Return(t), UNCHANGED <<slot, addr, dead>>
      PROVE  HandlerInv'
  <2>1. /\ pc' \in [Threads -> Points] /\ req' \in [Threads -> Requests]
    BY <1>0, <1>n, <1>r DEF Return, Goto, Points
  <2>2. \A u \in Threads : mutex' = u <=> pc'[u] \in Holding
    BY <1>0, <1>r DEF Return, Goto, Holding
  <2>3. \A u \in Threads : pc'[u] = "write_slot" => pc[u] = "write_slot"
    BY <1>0, <1>r DEF Return, Goto
  <2> QED BY <1>0, <1>r, <2>1, <2>2, <2>3 DEF HandlerInv, OneKept
<1>1. ASSUME NEW t \in Threads, Begin(t) PROVE HandlerInv'
  <2>1. PICK r \in Requests : req' = [req EXCEPT ![t] = r] /\ Goto(t, FirstPoint(r.op))
    BY <1>1 DEF Begin
  <2>2. FirstPoint(r.op) \in {"read", "lock", "check"}
    BY DEF FirstPoint
  <2>3. pc[t] = "idle" /\ UNCHANGED <<mutex, slot, addr, dead>>
    BY <1>1 DEF Begin, On, localVars
  <2>4. /\ pc' \in [Threads -> Points] /\ req' \in [Threads -> Requests]
    BY <1>0, <2>1, <2>2 DEF Goto, Points
  <2>5. \A u \in Threads : mutex' = u <=> pc'[u] \in Holding
    BY <1>0, <2>1, <2>2, <2>3 DEF Goto, Holding
  <2>6. \A u \in Threads : pc'[u] = "write_slot" => pc[u] = "write_slot"
    BY <1>0, <2>1, <2>2 DEF Goto
  <2> QED BY <1>0, <2>3, <2>4, <2>5, <2>6 DEF HandlerInv, OneKept
<1>2. ASSUME NEW t \in Threads, CheckBlocked(t) PROVE HandlerInv'
  <2>1. /\ pc[t] = "check" /\ UNCHANGED <<mutex, req, slot, addr, dead>>
        /\ pc' = [pc EXCEPT ![t] = "defer"] \/ pc' = [pc EXCEPT ![t] = "lock"]
    BY <1>2 DEF CheckBlocked, On, Goto, localVars
  <2>2. pc' \in [Threads -> Points] /\ \A u \in Threads : mutex' = u <=> pc'[u] \in Holding
    BY <1>0, <2>1 DEF Points, Holding
  <2>3. \A u \in Threads : pc'[u] = "write_slot" => pc[u] = "write_slot"
    BY <1>0, <2>1
  <2> QED BY <1>0, <2>1, <2>2, <2>3 DEF HandlerInv, OneKept
<1>3. ASSUME NEW t \in Threads, Lock(t) PROVE HandlerInv'
  <2>1. /\ pc[t] = "lock" /\ UNCHANGED <<req, slot, addr, dead>>
        /\ pc' = [pc EXCEPT ![t] = "apply"] /\ mutex = "free" /\ mutex' = t
    BY <1>3 DEF Lock, On, Goto, localVars, RowFree
  <2>2. pc' \in [Threads -> Points] /\ \A u \in Threads : mutex' = u <=> pc'[u] \in Holding
    BY <1>0, <2>1 DEF Points, Holding
  <2>3. \A u \in Threads : pc'[u] = "write_slot" => pc[u] = "write_slot"
    BY <1>0, <2>1
  <2> QED BY <1>0, <2>1, <2>2, <2>3 DEF HandlerInv, OneKept
<1>4. ASSUME NEW t \in Threads, Fault(t) PROVE HandlerInv'
  BY <1>4, <1>u DEF Fault
<1>5. ASSUME NEW t \in Threads,
             Defer(t) \/ Get(t) \/ PutExisting(t) \/ Update(t) \/ ClearSlot(t)
      PROVE  HandlerInv'
  BY <1>5, <1>r DEF Defer, Get, PutExisting, Update, ClearSlot, localVars
<1>6. ASSUME NEW t \in Threads, PutOverflow(t) PROVE HandlerInv'
  BY <1>6, <1>r DEF PutOverflow
<1>7. ASSUME NEW t \in Threads, WriteSlot(t) PROVE HandlerInv'
  <2>1. /\ Return(t) /\ slot' = [slot EXCEPT ![t] = 0] /\ addr' = [addr EXCEPT ![t] = 0]
        /\ UNCHANGED dead
    BY <1>7 DEF WriteSlot
  <2>2. /\ pc' \in [Threads -> Points] /\ req' \in [Threads -> Requests]
    BY <1>0, <1>n, <2>1 DEF Return, Goto, Points
  <2>3. \A u \in Threads : mutex' = u <=> pc'[u] \in Holding
    BY <1>0, <2>1 DEF Return, Goto, Holding
  <2>4. /\ slot' \in [Threads -> Slots] /\ addr' \in [Threads -> Nat]
    BY <1>0, <2>1, Constants
  <2>5. \A u \in Threads : pc'[u] = "write_slot" => pc[u] = "write_slot" /\ addr'[u] = addr[u]
    BY <1>0, <2>1 DEF Return, Goto
  <2> QED BY <1>0, <2>1, <2>2, <2>3, <2>4, <2>5 DEF HandlerInv, OneKept
<1>8. ASSUME NEW t \in Threads, PutNew(t) PROVE HandlerInv'
  <2> DEFINE r == region[1]
             k == req[t].key
             s == target(r.bucket, k, slot_of(k))
  <2>1. Sound(r) /\ k \in Keys
    BY <1>0, <1>8, RequestParts DEF PutNew, RegionInv
  <2>2. r.bucket \in [Slots -> Cell] /\ r.num \in Nat /\ Size(r) \in Nat
    BY <2>1 DEF Sound, RegionOf
  <2>3. s \in Slots
    BY <2>1, <2>2, TargetIsSlot
  <2>4. /\ pc[t] = "apply" /\ UNCHANGED <<mutex, req>> /\ slot' = [slot EXCEPT ![t] = s]
        /\ \/ /\ r.num < Size(r) /\ addr' = [addr EXCEPT ![t] = r.num]
              /\ pc' = [pc EXCEPT ![t] = "write_slot"] /\ UNCHANGED dead
           \/ dead' = "exit" /\ UNCHANGED <<addr, pc>>
    BY <1>8 DEF PutNew, On, Goto
  <2> HIDE DEF s, r
  <2>5. slot' \in [Threads -> Slots] /\ addr' \in [Threads -> Nat]
        /\ pc' \in [Threads -> Points] /\ dead' \in {"no", "exit", "fault"}
    BY <1>0, <2>2, <2>3, <2>4 DEF Points
  <2>6. \A u \in Threads : mutex' = u <=> pc'[u] \in Holding
    BY <1>0, <2>4 DEF Holding
  <2>7. \A u \in Threads : pc'[u] = "write_slot" /\ 1 \in DOMAIN region => addr'[u] < Size(r)
    BY <1>0, <2>4 DEF r
  <2> QED BY <1>0, <2>4, <2>5, <2>6, <2>7 DEF HandlerInv, OneKept, r
<1>9. ASSUME NEW t \in Threads, Remove(t) PROVE HandlerInv'
  <2>1. CASE Return(t)
    BY <1>9, <1>r, <2>1 DEF Remove, localVars
  <2>2. CASE Goto(t, "clear_slot") /\ UNCHANGED <<mutex, req>>
    <3>1. pc[t] = "apply" /\ UNCHANGED <<slot, addr, dead>>
      BY <1>9 DEF Remove, On, localVars
    <3>2. pc' \in [Threads -> Points] /\ \A u \in Threads : mutex' = u <=> pc'[u] \in Holding
      BY <1>0, <2>2, <3>1 DEF Points, Holding, Goto
    <3>3. \A u \in Threads : pc'[u] = "write_slot" => pc[u] = "write_slot"
      BY <1>0, <2>2 DEF Goto
    <3> QED BY <1>0, <2>2, <3>1, <3>2, <3>3 DEF HandlerInv, OneKept
  <2> QED BY <1>9, <2>1, <2>2 DEF Remove
<1>10. CASE Copy \/ Drain \/ Gc \/ Stop \/ UNCHANGED vars
  BY <1>0, <1>10, <1>u
  DEF Copy, Drain, StartCopy, CreateFails, CopyPacked, CopyBuckets, Switch, Wrap,
      EndWait, DrainBegin, ReplayInsert, InsertsReplayed, ReplayDelete, DrainUnlock,
      DrainEnd, Gc, Stop, vars,
      handlerVars, localVars
<1> QED BY <1>1, <1>2, <1>3, <1>4, <1>5, <1>6, <1>7, <1>8, <1>9, <1>10 DEF Next, Handler

\* The loaded region is sound: the load gives every key a slot of its own.
LEMMA InitIInv == Init => IInv
<1> SUFFICES ASSUME Init PROVE IInv
  OBVIOUS
<1> DEFINE n == num_data_entries
           c(s) == IF \E i \in DOMAIN Loaded : slot_of(Loaded[i]) = s
                   THEN LET i == CHOOSE i \in DOMAIN Loaded : slot_of(Loaded[i]) = s
                        IN  combine(Loaded[i], i - 1)
                   ELSE ZeroCell
           e(i) == IF i < Len(Loaded) THEN [key |-> Loaded[i + 1], data |-> 0] ELSE ZeroEntry
           r == [bucket |-> [s \in Slots |-> c(s)],
                 array |-> [i \in 0 .. n - 1 |-> e(i)],
                 num |-> Len(Loaded)]
<1>0. /\ n \in Nat \ {0} /\ Len(Loaded) \in 0 .. n /\ Loaded \in Seq(Keys)
      /\ DOMAIN Loaded = 1 .. Len(Loaded) /\ "free" \notin Threads /\ 0 \in Vals
      /\ kMaxDeferredDepth \in Nat
  BY ReplayAssumption, BucketAssumption
<1>1. region = [v \in {1} |-> r]
  BY DEF Init
<1>2. \A s \in Slots : c(s) \in Cell /\ c(s).addr < n
  <2> TAKE s \in Slots
  <2>1. CASE \E i \in DOMAIN Loaded : slot_of(Loaded[i]) = s
    <3> DEFINE i == CHOOSE i \in DOMAIN Loaded : slot_of(Loaded[i]) = s
    <3>1. i \in DOMAIN Loaded /\ c(s) = combine(Loaded[i], i - 1)
      BY <2>1
    <3> HIDE DEF i
    <3>2. Loaded[i] \in Keys /\ i - 1 \in Nat /\ i - 1 < n
      BY <1>0, <3>1
    <3>3. combine(Loaded[i], i - 1) \in Cell /\ combine(Loaded[i], i - 1).addr = i - 1
      BY <3>2, Constants
    <3> HIDE DEF c
    <3> QED BY <3>1, <3>2, <3>3
  <2>2. CASE ~ \E i \in DOMAIN Loaded : slot_of(Loaded[i]) = s
    <3>1. c(s) = ZeroCell
      BY <2>2
    <3> HIDE DEF c
    <3> QED BY <1>0, <3>1, Constants DEF ZeroCell
  <2> QED BY <2>1, <2>2
<1>3. \A i \in 0 .. n - 1 : e(i) \in Entry
  BY <1>0, Constants
<1> HIDE DEF c, e
<1>4. r \in RegionOf(n) /\ DOMAIN r.array = 0 .. n - 1
  BY <1>0, <1>2, <1>3 DEF RegionOf
<1>5. \A s \in Slots : r.bucket[s].addr < n
  BY <1>2
<1> HIDE DEF r, n
<1>6. Size(r) = n
  BY <1>0, <1>4, IntervalSize
<1>7. Sound(r)
  BY <1>0, <1>4, <1>5, <1>6 DEF Sound
<1>8. RegionInv
  <2>1. DOMAIN region = {1} /\ region[1] = r /\ region = [v \in DOMAIN region |-> region[v]]
    BY <1>1
  <2>2. current = 1 /\ pending_old = 0 /\ mpc = "poll"
    BY DEF Init
  <2> QED BY <1>7, <2>1, <2>2 DEF RegionInv
<1>9. HandlerInv
  <2>1. NoRequest \in Requests
    BY <1>0, ReplayAssumption DEF NoRequest, Requests
  <2> QED BY <1>0, <2>1, Constants DEF Init, HandlerInv, Points, Holding
<1>10. QueueInv
  <2>1. /\ deferred_inserts = <<>> /\ deferred_deletes = <<>>
        /\ accepted = <<>> /\ replayed = <<>>
    BY DEF Init
  <2>2. OfKind(accepted, "put") = <<>> /\ OfKind(accepted, "remove") = <<>>
        /\ OfKind(replayed, "put") = <<>> /\ OfKind(replayed, "remove") = <<>>
    BY <2>1, OfKindEmpty
  <2>3. DeferredConserved
    BY <2>1, <2>2 DEF DeferredConserved
  <2> QED BY <1>0, <2>1, <2>3 DEF QueueInv
<1>11. DrainInv
  <2>1. /\ deferred_inserts = <<>> /\ deferred_deletes = <<>> /\ mpc = "poll"
        /\ accepted = <<>> /\ replayed = <<>> /\ Len(<<>>) = 0
    BY DEF Init
  <2>2. SubSeq(<<>>, 1, 0) = <<>>
    BY SubSeqEmpty
  <2>3. ~Replaying
    BY <2>1 DEF Replaying
  <2>4. SubSeq(accepted, 1, Len(replayed)) = replayed
    BY <2>1, <2>2, Zenon
  <2>5. DrainTakesPrefix
    BY <2>4, Zenon DEF DrainTakesPrefix
  <2>6. Len(accepted) = Len(replayed) + Len(deferred_inserts) + Len(deferred_deletes)
    BY <2>1
  <2>7. mpc = "replay_deletes" => deferred_inserts = <<>>
    BY <2>1
  <2> QED BY <2>3, <2>5, <2>6, <2>7, Zenon DEF DrainInv
<1> QED BY <1>8, <1>9, <1>10, <1>11 DEF IInv

\* Init and every step keep the inductive invariant.
LEMMA Invariance == Spec => []IInv
<1>1. IInv /\ [Next]_vars => IInv'
  BY RegionStep, HandlerStep, QueueStep, DrainStep DEF IInv
<1> QED BY <1>1, InitIInv, PTL DEF Spec

\* In every region the server has mapped, each slot leads inside the packed
\* array, over copies, replays and handlers that still write region 1 after the
\* switch; the holder of the row's mutex is the one handler past its lock, and
\* neither deferral queue outgrows kMaxDeferredDepth.
THEOREM TypeCorrect == Spec => []TypeOK
<1>1. IInv => TypeOK
  <2> SUFFICES ASSUME IInv PROVE TypeOK
    OBVIOUS
  <2>1. ASSUME NEW v \in DOMAIN region
        PROVE  LET r == region[v]
               IN  /\ r.bucket \in [Slots -> Cell]
                   /\ \A s \in Slots : r.bucket[s].addr \in DOMAIN r.array
                   /\ r.array \in [DOMAIN r.array -> Entry]
                   /\ r.num \in 0 .. Size(r)
    <3> DEFINE r == region[v]
               n == Size(r)
    <3>1. Sound(r)
      BY <2>1 DEF IInv, RegionInv
    <3>2. n \in Nat /\ r \in RegionOf(n) /\ \A s \in Slots : r.bucket[s].addr \in 0 .. n - 1
      BY <3>1, AddrInArray DEF Sound
    <3> HIDE DEF n
    <3>3. /\ r.bucket \in [Slots -> Cell] /\ DOMAIN r.array = 0 .. n - 1
          /\ r.array \in [DOMAIN r.array -> Entry] /\ r.num \in 0 .. n
      BY <3>2 DEF RegionOf
    <3> QED BY <3>2, <3>3 DEF n
  <2> QED BY <2>1 DEF IInv, RegionInv, HandlerInv, QueueInv, TypeOK, Holding
<1> QED BY <1>1, Invariance, PTL

\* Every insert and every delete that defer_insert or defer_delete accepted is
\* still in its queue or has been replayed once, in the order of acceptance,
\* over failed copies, deferrals that come late and any number of resizes.
THEOREM DeferralsConserved == Spec => []DeferredConserved
<1>1. IInv => DeferredConserved
  BY DEF IInv, QueueInv
<1> QED BY <1>1, Invariance, PTL

\* Whenever no drain is under way, what has been replayed is what was accepted
\* first, inserts and deletes together, although handlers that saw the flag
\* defer before, between and after drains: each drain takes all that came in
\* before it and nothing that came later.
THEOREM DrainsTakePrefixes == Spec => []DrainTakesPrefix
<1>1. IInv => DrainTakesPrefix
  BY DEF IInv, DrainInv
<1> QED BY <1>1, Invariance, PTL
=============================================================================
