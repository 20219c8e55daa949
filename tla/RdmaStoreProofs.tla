-------------------------- MODULE RdmaStoreProofs --------------------------
(***************************************************************************)
(* Theorems about RdmaStore, for any number of rows, keys, slots, seeds,   *)
(* coroutines and server threads and for every hash function.              *)
(*                                                                         *)
(* That no entry is reached from two cells holds however many threads run  *)
(* bulk_load_data at once, because the counter gives every address out     *)
(* once.  An address is with a cell, with a callback that has drawn it     *)
(* (Pend) or with a callback that moves the cells of its row (Move), and   *)
(* never with two of them (AddrInv).                                       *)
(*                                                                         *)
(* What the entries hold needs the puts to be serial: with one server      *)
(* thread, or with one row, the mutex keeps two callbacks from writing to  *)
(* the same new entry.  Then every cell is in the slot of its entry's key  *)
(* (PlaceInv), no key that was acknowledged is lost while a put re-seeds   *)
(* its bucket (AckInv), and a get whose client knows the seed returns the  *)
(* value of its key (GetInv).                                              *)
(***************************************************************************)
EXTENDS RdmaStore, TLAPS

\* Most leaves are first-order, so Zenon is tried before the SMT solver.
USE ZenonT(30), SMTT(30)

(***************************************************************************)
(* The inductive invariant for any number of threads.                      *)
(***************************************************************************)

Past == {"key", "value", "count"}
Bulk == {"check"} \union Past
Pending == {"link", "orphan", "reseed"}
Moving == {"empty", "cells"}
Locked == {"update_data"} \union Bulk \union Pending \union Moving

\* A cell that leads into the memory of the array.
CellIn == [length : {0, 1}, finger : Nat, addr : Indexes]
Moved == [cell : CellIn, slot : Slots]
VectorsOf(S) == UNION {[D -> S] : D \in SUBSET (0 .. SLOTS_NUM_BUCKET)}
Replies == 0 .. 3 \union {256 + s : s \in Seeds}

Callbacks ==
    [pc : {"idle", "get", "data", "put", "update"} \union Locked,
     q : Cors \union {0}, addr : Indexes,
     cells : VectorsOf(CellIn) \union VectorsOf(Moved), keys : VectorsOf(Keys),
     then : {"", "link", "orphan", "reseed"}, reply : Replies]

Calls ==
    [st : {"idle", "sent", "served", "replied"}, kind : {"get", "put", "update", "remove"},
     key : Keys \union {0}, slot : Slots, reply : Keys \union Nat, fresh : BOOLEAN, n : Nat]

TypeInv ==
    /\ bucketsArray \in [Rows -> [Slots -> CellIn]]
    /\ seed \in [Rows -> Seeds] /\ cseed \in [ClientProcs -> [Rows -> Seeds]]
    /\ rawArray \in [Indexes -> [key : Keys, data : Keys \union Nat]]
    /\ num \in Nat
    /\ mutexArray \in [Rows -> Threads \union {Free_}]
    /\ thr \in [Threads -> Callbacks]
    /\ op \in [Cors -> Calls]
    /\ acked \subseteq Keys

\* A callback under way serves a call of one of the thread's coroutines.
CallInv ==
    /\ \A q \in Cors : op[q].st # "idle" => op[q].key \in Keys
    /\ \A q \in Cors : op[q].st = "replied" /\ op[q].kind = "put" => op[q].reply \in Replies
    /\ \A t \in Threads : thr[t].pc # "idle" =>
         /\ thr[t].q \in Cors /\ ThreadOf[thr[t].q] = t
         /\ op[thr[t].q].st = "served"
         /\ thr[t].pc \in {"get", "data"} <=> op[thr[t].q].kind = "get"

LockInv ==
    /\ \A t \in Threads : thr[t].pc \in Locked => mutexArray[R(t)] = t
    /\ \A r \in Rows, t \in Threads : mutexArray[r] = t => thr[t].pc \in Locked /\ R(t) = r

\* What a put that re-seeds has read of its row is still what the row holds, and
\* the cells it moves have slots of their own.
VectorOK(t) ==
    /\ thr[t].pc \in Bulk => thr[t].then \in Pending
    /\ thr[t].pc \in Pending => thr[t].then = thr[t].pc
    /\ thr[t].pc \in Bulk \union Pending /\ thr[t].then = "reseed" =>
         /\ thr[t].cells = read_bucket_addrs(bucketsArray[R(t)])
         /\ DOMAIN thr[t].keys = DOMAIN thr[t].cells
    /\ thr[t].pc \in Moving =>
         /\ thr[t].cells \in VectorsOf(Moved)
         /\ \A i, j \in DOMAIN thr[t].cells :
              thr[t].cells[i].slot = thr[t].cells[j].slot => i = j
         /\ \A i \in DOMAIN thr[t].cells : thr[t].cells[i].cell.length = 1
    /\ thr[t].pc = "empty" =>
         \A s \in Slots : ~Free(bucketsArray[R(t)], s) =>
           s \in DOMAIN thr[t].cells /\ thr[t].cells[s].cell = bucketsArray[R(t)][s]
    /\ thr[t].pc = "cells" =>
         \A i \in DOMAIN thr[t].cells : Free(bucketsArray[R(t)], thr[t].cells[i].slot)
VectorInv == \A t \in Threads : VectorOK(t)

CellAt(r, s, a) == bucketsArray[r][s].length = 1 /\ bucketsArray[r][s].addr = a
Pend(t, a) == thr[t].pc \in Pending /\ thr[t].addr = a
Move(t, i, a) ==
    thr[t].pc \in Moving /\ i \in DOMAIN thr[t].cells /\ thr[t].cells[i].cell.addr = a

\* An address below the counter has at most one place.
AddrInv ==
    /\ \A a \in Nat, r \in Rows, s \in Slots : CellAt(r, s, a) =>
         /\ a < num
         /\ \A p \in Rows, x \in Slots : CellAt(p, x, a) => p = r /\ x = s
    /\ \A a \in Nat, t \in Threads : Pend(t, a) =>
         /\ a < num
         /\ \A u \in Threads : Pend(u, a) => u = t
         /\ \A r \in Rows, s \in Slots : ~CellAt(r, s, a)
         /\ \A u \in Threads, i \in Nat : ~Move(u, i, a)
    /\ \A a \in Nat, t \in Threads, i \in Nat : Move(t, i, a) =>
         /\ a < num
         /\ \A u \in Threads, j \in Nat : Move(u, j, a) => u = t /\ j = i
         /\ \A r \in Rows, s \in Slots : CellAt(r, s, a) =>
              thr[t].pc = "empty" /\ R(t) = r /\ s = i

PastCheck == {t \in Threads : thr[t].pc \in Past}

\* A thread past the check adds at most one to a counter that was in bounds.
BoundInv ==
    /\ Len(Loaded) <= num
    /\ num + Cardinality(PastCheck) <= LastIndex

IInv == TypeInv /\ CallInv /\ LockInv /\ VectorInv /\ AddrInv /\ BoundInv

(***************************************************************************)
(* The inductive invariant for serial puts.                                *)
(***************************************************************************)

\* The values that are written for a key.
Own(k) == {k} \union {i - 1 : i \in {j \in DOMAIN Loaded : Loaded[j] = k}}

\* Cell c leads to an entry that belongs in slot s of row r.
Placed(r, s, c) ==
    LET k == rawArray[c.addr].key IN
    /\ RowOf[k] = r /\ hash[seed[r]][k] = s
    /\ c.finger = fingerprint[k]
    /\ rawArray[c.addr].data \in Own(k)

\* The entry that a callback fills, has filled or overwrites is one of its key.
EntryOK(t) ==
    /\ thr[t].pc \in {"value", "count"} => rawArray[num].key = K(t)
    /\ thr[t].pc = "count" => rawArray[num].data = K(t)
    /\ thr[t].pc \in Pending =>
         rawArray[thr[t].addr].key = K(t) /\ rawArray[thr[t].addr].data = K(t)
    /\ thr[t].pc = "update_data" => rawArray[thr[t].addr].key = K(t)
    /\ thr[t].pc \in Bulk \union Pending /\ thr[t].then = "reseed" =>
         thr[t].keys = read_batch_keys(thr[t].cells)
    /\ thr[t].pc \in Bulk \union Pending /\ thr[t].then = "link" =>
         Free(bucketsArray[R(t)], slot(t))
EntryInv == \A t \in Threads : EntryOK(t)

Emptying(r) == \E t \in Threads : thr[t].pc = "empty" /\ R(t) = r

PlaceInv ==
    /\ \A r \in Rows, s \in Slots :
         ~Free(bucketsArray[r], s) /\ ~Emptying(r) => Placed(r, s, bucketsArray[r][s])
    /\ \A t \in Threads : thr[t].pc \in Moving =>
         \A i \in DOMAIN thr[t].cells : Placed(R(t), thr[t].cells[i].slot, thr[t].cells[i].cell)

\* A cell of k is among those that t has still to write.
Kept(t, k) == \E i \in DOMAIN thr[t].cells : rawArray[thr[t].cells[i].cell.addr].key = k

AckInv ==
    /\ \A k \in acked : ~Reseeding(RowOf[k]) => Stored(k)
    /\ \A t \in Threads : thr[t].pc \in Moving =>
         \A k \in acked \union {K(t)} : RowOf[k] = R(t) =>
           Kept(t, k) \/ (thr[t].pc = "cells" /\ Stored(k))

\* A call that is a fresh get used the server's seed, and its reply is of its key.
FreshOK(q) ==
    op[q].st # "idle" /\ op[q].kind = "get" /\ op[q].fresh =>
        /\ op[q].key \in acked /\ ~Reseeding(RowOf[op[q].key])
        /\ op[q].slot = hash[seed[RowOf[op[q].key]]][op[q].key]
        /\ op[q].st = "replied" => op[q].reply \in Own(op[q].key)
DataOK(t) ==
    thr[t].pc = "data" /\ op[thr[t].q].fresh =>
        thr[t].addr = bucketsArray[R(t)][op[thr[t].q].slot].addr
GetInv == (\A q \in Cors : FreshOK(q)) /\ (\A t \in Threads : DataOK(t))

SInv == EntryInv /\ PlaceInv /\ AckInv /\ GetInv

(***************************************************************************)
(* The constants, and vectors of a bucket.                                 *)
(***************************************************************************)

\* What the library says of numbers and of sets of threads.  The lemmas take it as
\* an assumption; GroundHolds shows it where the library comes in, after them,
\* because every theorem in scope is a burden on every obligation.
Counting ==
    \A S \in SUBSET Threads :
        /\ Cardinality(S) \in Nat /\ (Cardinality(S) = 0 <=> S = {})
        /\ \A T \in SUBSET S : Cardinality(T) <= Cardinality(S)
        /\ \A t \in S : Cardinality(S \ {t}) = Cardinality(S) - 1
LeastNumber == \A T \in SUBSET Nat : T # {} => \E x \in T : \A y \in T : x <= y
Ground == Setting /\ Counting /\ LeastNumber

LEMMA ConstantFacts ==
  ASSUME Ground
  PROVE  /\ SLOTS_NUM_BUCKET \in Nat /\ SLOTS_NUM_BUCKET > 0
         /\ SeedCount \in Nat /\ SeedCount > 0 /\ SeedCount <= 256
         /\ 0 \in Slots /\ 0 \in Seeds /\ Slots \subseteq Nat /\ Seeds \subseteq Nat /\ Seeds \subseteq 0 .. 255
         /\ Slots \subseteq 0 .. SLOTS_NUM_BUCKET /\ SLOTS_NUM_BUCKET \notin Slots
         /\ hash \in [Seeds -> [Keys -> Slots]] /\ fingerprint \in [Keys -> Nat]
         /\ RowOf \in [Keys -> Rows] /\ Garbage \in Keys
         /\ Len(Loaded) \in Nat /\ numElements \in Nat /\ Len(Loaded) <= numElements
<1>1. Len(Loaded) \in Nat
  BY SMTT(30) DEF Ground, Setting
<1>2. /\ SLOTS_NUM_BUCKET \in Nat /\ SLOTS_NUM_BUCKET > 0
      /\ SeedCount \in Nat /\ SeedCount > 0 /\ SeedCount <= 256
  BY BucketAssumption, SMTT(30) DEF Ground, Setting
<1>3. /\ 0 \in Slots /\ 0 \in Seeds /\ Slots \subseteq Nat /\ Seeds \subseteq Nat /\ Seeds \subseteq 0 .. 255
      /\ Slots \subseteq 0 .. SLOTS_NUM_BUCKET /\ SLOTS_NUM_BUCKET \notin Slots
  BY <1>2, SMTT(30) DEF Slots, Seeds
<1> QED BY <1>1, <1>2, <1>3, BucketAssumption DEF Ground, Setting

LEMMA IndexFacts ==
  ASSUME Ground
  PROVE  /\ Cardinality(Threads) \in Nat /\ Cardinality(Threads) > 0
         /\ LastIndex \in Nat /\ numElements <= LastIndex
<1>1. Cardinality(Threads) \in Nat /\ Cardinality(Threads) # 0
  BY DEF Ground, Counting, Setting
<1> QED BY <1>1, ConstantFacts, SMTT(30) DEF LastIndex

LEMMA EmptyVector == ASSUME NEW S PROVE << >> \in VectorsOf(S)
<1>1. << >> \in [{} -> S]
  BY SMTT(30)
<1> QED BY <1>1 DEF VectorsOf

LEMMA VectorType ==
  ASSUME NEW S, NEW v
  PROVE  v \in VectorsOf(S) <=>
           /\ v = [i \in DOMAIN v |-> v[i]]
           /\ DOMAIN v \subseteq 0 .. SLOTS_NUM_BUCKET
           /\ \A i \in DOMAIN v : v[i] \in S
<1>1. ASSUME v \in VectorsOf(S)
      PROVE  \E D \in SUBSET (0 .. SLOTS_NUM_BUCKET) : v \in [D -> S]
  BY <1>1 DEF VectorsOf
<1>2. ASSUME NEW D \in SUBSET (0 .. SLOTS_NUM_BUCKET), v \in [D -> S]
      PROVE  v \in VectorsOf(S)
  BY <1>2 DEF VectorsOf
<1>3. ASSUME v = [i \in DOMAIN v |-> v[i]], \A i \in DOMAIN v : v[i] \in S
      PROVE  v \in [DOMAIN v -> S]
  BY <1>3
<1> QED BY <1>1, <1>2, <1>3

LEMMA IdleType == ASSUME Ground PROVE Idle \in Callbacks
<1>1. << >> \in VectorsOf(CellIn) /\ << >> \in VectorsOf(Keys)
  BY EmptyVector
<1>2. 0 \in Replies /\ 0 \in Indexes
  BY IndexFacts, SMTT(30) DEF Replies, Indexes
<1> QED BY <1>1, <1>2 DEF Idle, Callbacks

LEMMA IdlePc == Idle.pc = "idle"
  BY DEF Idle

LEMMA NoOpType == ASSUME Ground PROVE NoOp \in Calls
  BY ConstantFacts DEF NoOp, Calls

(***************************************************************************)
(* Types.                                                                  *)
(***************************************************************************)

LEMMA ServedCall ==
  ASSUME Ground, TypeInv, CallInv, NEW t \in Threads, thr[t].pc # "idle"
  PROVE  /\ thr[t].q \in Cors /\ op[thr[t].q] \in Calls /\ K(t) \in Keys /\ R(t) \in Rows
         /\ slot(t) \in Slots /\ op[thr[t].q].slot \in Slots
<1>1. thr[t].q \in Cors /\ op[thr[t].q].st # "idle"
  BY DEF CallInv
<1>2. K(t) \in Keys /\ op[thr[t].q] \in Calls
  BY <1>1 DEF CallInv, K, TypeInv
<1>3. R(t) \in Rows
  BY <1>2, ConstantFacts DEF R
<1>4. seed[R(t)] \in Seeds
  BY <1>3 DEF TypeInv
<1>5. slot(t) \in Slots
  BY <1>2, <1>4, ConstantFacts DEF slot
<1> QED BY <1>1, <1>2, <1>3, <1>5 DEF Calls

LEMMA ReadVectors ==
  ASSUME Ground, TypeInv, NEW r \in Rows
  PROVE  LET cells == read_bucket_addrs(bucketsArray[r]) IN
         /\ cells \in VectorsOf(CellIn)
         /\ read_batch_keys(cells) \in VectorsOf(Keys)
         /\ DOMAIN read_batch_keys(cells) = DOMAIN cells
<1> DEFINE D == {i \in Slots : ~Free(bucketsArray[r], i)}
           cells == read_bucket_addrs(bucketsArray[r])
<1>1. D \in SUBSET (0 .. SLOTS_NUM_BUCKET)
  BY ConstantFacts
<1>2. cells = [i \in D |-> bucketsArray[r][i]]
  BY DEF read_bucket_addrs
<1>3. \A i \in D : bucketsArray[r][i] \in CellIn
  BY DEF TypeInv
<1>4. cells \in [D -> CellIn]
  BY <1>2, <1>3
<1>5. cells \in VectorsOf(CellIn)
  BY <1>1, <1>4 DEF VectorsOf
<1>6. read_batch_keys(cells) = [i \in D |-> rawArray[cells[i].addr].key]
  BY <1>4 DEF read_batch_keys
<1>7. \A i \in D : rawArray[cells[i].addr].key \in Keys
  BY <1>4 DEF TypeInv, CellIn
<1>8. read_batch_keys(cells) \in [D -> Keys]
  BY <1>6, <1>7
<1>9. read_batch_keys(cells) \in VectorsOf(Keys)
  BY <1>1, <1>8 DEF VectorsOf
<1> QED BY <1>4, <1>5, <1>8, <1>9

\* A step of one callback leaves the others alone.
LEMMA OneCallback ==
  ASSUME TypeInv, NEW t \in Threads, NEW c \in Callbacks, thr' = [thr EXCEPT ![t] = c]
  PROVE  /\ thr' \in [Threads -> Callbacks] /\ thr'[t] = c
         /\ \A u \in Threads \ {t} : thr'[u] = thr[u]
BY DEF TypeInv

\* A callback that takes the mutex of its row.
LEMMA LockStep ==
  ASSUME Ground, TypeInv, CallInv, NEW t \in Threads, Put(t) \/ Update(t)
  PROVE  /\ thr[t].pc \in {"put", "update"} /\ mutexArray[R(t)] = Free_
         /\ mutexArray' = [mutexArray EXCEPT ![R(t)] = t]
         /\ \A u \in Threads \ {t} : thr'[u] = thr[u]
         /\ thr' \in [Threads -> Callbacks] /\ thr'[t].q = thr[t].q
         /\ \/ /\ thr'[t].pc = "check" /\ thr'[t].then = "link"
               /\ Free(bucketsArray[R(t)], slot(t))
            \/ /\ thr'[t].pc = "update_data" /\ rawArray[thr'[t].addr].key = K(t)
            \/ /\ thr'[t].pc = "check" /\ thr'[t].then = "orphan"
            \/ /\ thr'[t].pc = "check" /\ thr'[t].then = "reseed"
               /\ thr'[t].cells = read_bucket_addrs(bucketsArray[R(t)])
               /\ thr'[t].keys = read_batch_keys(thr'[t].cells)
         /\ UNCHANGED <<bucketsArray, seed, rawArray, num, cseed, op, up, acked>>
<1> DEFINE bucket == bucketsArray[R(t)]
           Goal == /\ \A u \in Threads \ {t} : thr'[u] = thr[u]
                   /\ thr' \in [Threads -> Callbacks] /\ thr'[t].q = thr[t].q
                   /\ \/ /\ thr'[t].pc = "check" /\ thr'[t].then = "link"
                         /\ Free(bucketsArray[R(t)], slot(t))
                      \/ /\ thr'[t].pc = "update_data" /\ rawArray[thr'[t].addr].key = K(t)
                      \/ /\ thr'[t].pc = "check" /\ thr'[t].then = "orphan"
                      \/ /\ thr'[t].pc = "check" /\ thr'[t].then = "reseed"
                         /\ thr'[t].cells = read_bucket_addrs(bucketsArray[R(t)])
                         /\ thr'[t].keys = read_batch_keys(thr'[t].cells)
<1>1. /\ thr[t].pc \in {"put", "update"} /\ mutexArray[R(t)] = Free_
      /\ mutexArray' = [mutexArray EXCEPT ![R(t)] = t]
      /\ UNCHANGED <<bucketsArray, seed, rawArray, num, cseed, op, up, acked>>
  BY DEF Put, Update, At
<1>2. /\ thr \in [Threads -> Callbacks] /\ R(t) \in Rows /\ slot(t) \in Slots
      /\ op[thr[t].q].slot \in Slots
  BY <1>1, ServedCall DEF TypeInv
<1>3. {1, 2, 3} \subseteq Replies
  BY SMTT(30) DEF Replies
<1>4. \A s \in Slots : bucket[s].addr \in Indexes
  BY <1>2 DEF TypeInv, CellIn
<1>5. ASSUME thr' = [thr EXCEPT ![t].pc = "check", ![t].then = "link"],
             Free(bucket, slot(t))
      PROVE  Goal
  <2> DEFINE c == [thr[t] EXCEPT !.pc = "check", !.then = "link"]
  <2>1. thr' = [thr EXCEPT ![t] = c]
    BY <1>2, <1>5
  <2>2. c \in Callbacks /\ c.q = thr[t].q /\ c.pc = "check" /\ c.then = "link"
    BY <1>2, <1>5 DEF Callbacks, Locked, Bulk
  <2> HIDE DEF c
  <2> QED BY <1>5, <2>1, <2>2, OneCallback
<1>6. ASSUME NEW a \in Indexes, rawArray[a].key = K(t),
             thr' = [thr EXCEPT ![t].pc = "update_data", ![t].addr = a, ![t].reply = 1]
      PROVE  Goal
  <2> DEFINE c == [thr[t] EXCEPT !.pc = "update_data", !.addr = a, !.reply = 1]
  <2>1. thr' = [thr EXCEPT ![t] = c]
    BY <1>2, <1>6
  <2>2. c \in Callbacks /\ c.q = thr[t].q /\ c.pc = "update_data" /\ c.addr = a
    BY <1>2, <1>6, <1>3 DEF Callbacks, Locked
  <2> HIDE DEF c
  <2> QED BY <1>6, <2>1, <2>2, OneCallback
<1>7. ASSUME NEW v \in {1, 2, 3},
             thr' = [thr EXCEPT ![t].pc = "check", ![t].then = "orphan", ![t].reply = v]
      PROVE  Goal
  <2> DEFINE c == [thr[t] EXCEPT !.pc = "check", !.then = "orphan", !.reply = v]
  <2>1. thr' = [thr EXCEPT ![t] = c]
    BY <1>2, <1>7
  <2>2. c \in Callbacks /\ c.q = thr[t].q /\ c.pc = "check" /\ c.then = "orphan"
    BY <1>2, <1>7, <1>3 DEF Callbacks, Locked, Bulk
  <2> HIDE DEF c
  <2> QED BY <1>7, <2>1, <2>2, OneCallback
<1>8. ASSUME NEW cells, cells = read_bucket_addrs(bucket),
             thr' = [thr EXCEPT ![t].pc = "check", ![t].then = "reseed",
                                ![t].cells = cells, ![t].keys = read_batch_keys(cells)]
      PROVE  Goal
  <2>1. cells \in VectorsOf(CellIn) /\ read_batch_keys(cells) \in VectorsOf(Keys)
    BY <1>2, <1>8, ReadVectors
  <2> DEFINE c == [thr[t] EXCEPT !.pc = "check", !.then = "reseed",
                               !.cells = cells, !.keys = read_batch_keys(cells)]
  <2>2. thr' = [thr EXCEPT ![t] = c]
    BY <1>2, <1>8
  <2>3. /\ c \in Callbacks /\ c.q = thr[t].q /\ c.pc = "check" /\ c.then = "reseed"
        /\ c.cells = cells /\ c.keys = read_batch_keys(cells)
    BY <1>2, <1>8, <2>1 DEF Callbacks, Locked, Bulk
  <2> HIDE DEF c
  <2> QED BY <1>8, <2>2, <2>3, OneCallback
<1>9. ASSUME Put(t) PROVE Goal
  <2>1. bucket[slot(t)].addr \in Indexes
    BY <1>2, <1>4
  <2>2. check_slots(bucket, K(t), slot(t)) = 0 => Free(bucket, slot(t))
    BY SMTT(30) DEF check_slots
  <2> HIDE DEF Goal
  <2> QED BY <1>5, <1>6, <1>7, <1>8, <1>9, <2>1, <2>2 DEF Put, Overflow
<1>10. ASSUME Update(t) PROVE Goal
  <2>1. bucket[op[thr[t].q].slot].addr \in Indexes
    BY <1>2, <1>4
  <2> HIDE DEF Goal
  <2> QED BY <1>6, <1>7, <1>10, <2>1 DEF Update, Overflow
<1> QED BY <1>1, <1>9, <1>10

\* Where a callback that goes on and leaves everything else of it as it is can be.
GotoPcs == {"data", "key", "value", "count", "cells"} \union Pending

GotoWith(t, a, pc) == thr' = [thr EXCEPT ![t].addr = a, ![t].pc = pc]

LEMMA GotoStep ==
  ASSUME TypeInv, NEW t \in Threads, NEW pc \in GotoPcs, NEW a \in Indexes, GotoWith(t, a, pc)
  PROVE  /\ thr' \in [Threads -> Callbacks]
         /\ \A u \in Threads \ {t} : thr'[u] = thr[u]
         /\ thr'[t].pc = pc /\ thr'[t].addr = a
         /\ thr'[t].q = thr[t].q /\ thr'[t].cells = thr[t].cells
         /\ thr'[t].keys = thr[t].keys /\ thr'[t].then = thr[t].then
<1> DEFINE c == [thr[t] EXCEPT !.addr = a, !.pc = pc]
<1>1. thr' = [thr EXCEPT ![t] = c]
  BY DEF TypeInv, GotoWith
<1>2. /\ c \in Callbacks /\ c.pc = pc /\ c.addr = a /\ c.q = thr[t].q /\ c.cells = thr[t].cells
      /\ c.keys = thr[t].keys /\ c.then = thr[t].then
  BY DEF GotoPcs, TypeInv, Callbacks, Locked, Bulk, Past, Moving, Pending
<1> HIDE DEF c
<1> QED BY <1>1, <1>2, OneCallback

LEMMA GotoFacts ==
  ASSUME TypeInv, NEW t \in Threads, NEW pc \in {"key", "value", "count", "cells"}, Goto(t, pc)
  PROVE  /\ thr' \in [Threads -> Callbacks]
         /\ \A u \in Threads \ {t} : thr'[u] = thr[u]
         /\ thr'[t].pc = pc /\ thr'[t].addr = thr[t].addr
         /\ thr'[t].q = thr[t].q /\ thr'[t].cells = thr[t].cells
         /\ thr'[t].keys = thr[t].keys /\ thr'[t].then = thr[t].then
<1> DEFINE a == thr[t].addr
<1>1. GotoWith(t, a, pc) /\ a \in Indexes
  <2>1. thr \in [Threads -> Callbacks]
    BY DEF TypeInv
  <2>2. [thr[t] EXCEPT !.pc = pc] = [thr[t] EXCEPT !.addr = thr[t].addr, !.pc = pc]
    BY <2>1 DEF Callbacks
  <2>3. [thr EXCEPT ![t].addr = thr[t].addr, ![t].pc = pc]
          = [thr EXCEPT ![t] = [thr[t] EXCEPT !.addr = thr[t].addr, !.pc = pc]]
    BY <2>1
  <2> QED BY <2>1, <2>2, <2>3 DEF Goto, GotoWith, Callbacks
<1> HIDE DEF a
<1>2. /\ thr' \in [Threads -> Callbacks]
      /\ \A u \in Threads \ {t} : thr'[u] = thr[u]
      /\ thr'[t].pc = pc /\ thr'[t].addr = a
      /\ thr'[t].q = thr[t].q /\ thr'[t].cells = thr[t].cells
      /\ thr'[t].keys = thr[t].keys /\ thr'[t].then = thr[t].then
  <2>1. pc \in GotoPcs
    BY DEF GotoPcs
  <2> QED BY <1>1, <2>1, GotoStep
<1> QED BY <1>2 DEF a

\* A reply changes the state and the reply of one call.
LEMMA AnsweredStep ==
  ASSUME Ground, TypeInv, CallInv, NEW t \in Threads, thr[t].pc # "idle",
         NEW val \in Keys \union Nat, op' = Answered(t, val)
  PROVE  /\ op' \in [Cors -> Calls]
         /\ op'[thr[t].q].st = "replied" /\ op'[thr[t].q].reply = val
         /\ \A q \in Cors :
              /\ q # thr[t].q => op'[q] = op[q]
              /\ op'[q].key = op[q].key /\ op'[q].kind = op[q].kind
              /\ op'[q].slot = op[q].slot /\ op'[q].fresh = op[q].fresh
<1> DEFINE c == [op[thr[t].q] EXCEPT !.st = "replied", !.reply = val]
<1>0. \A d \in Calls : [d EXCEPT !.st = "replied", !.reply = val] \in Calls
  BY DEF Calls
<1>1. op \in [Cors -> Calls] /\ thr[t].q \in Cors
  BY ServedCall DEF TypeInv
<1>2. op' = [op EXCEPT ![thr[t].q] = c]
  BY <1>1 DEF Answered
<1>3. c \in Calls
  BY <1>0, <1>1
<1>4. /\ c.st = "replied" /\ c.reply = val /\ c.key = op[thr[t].q].key
      /\ c.kind = op[thr[t].q].kind /\ c.slot = op[thr[t].q].slot
  BY <1>1 DEF Calls
<1>5. c.fresh = op[thr[t].q].fresh
  BY <1>1, Zenon DEF Calls
<1> HIDE DEF c
<1>6. /\ op' \in [Cors -> Calls] /\ op'[thr[t].q] = c
      /\ \A q \in Cors : q # thr[t].q => op'[q] = op[q]
  BY <1>1, <1>2, <1>3
<1> QED BY <1>1, <1>4, <1>5, <1>6

\* The end of a callback that holds the mutex.
LEMMA FinishStep ==
  ASSUME Ground, TypeInv, CallInv, NEW t \in Threads, thr[t].pc # "idle",
         NEW val \in Nat, NEW stored, Finish(t, val, stored)
  PROVE  /\ thr' \in [Threads -> Callbacks] /\ thr'[t] = Idle
         /\ \A u \in Threads \ {t} : thr'[u] = thr[u]
         /\ mutexArray' \in [Rows -> Threads \union {Free_}]
         /\ mutexArray' = [mutexArray EXCEPT ![R(t)] = Free_]
         /\ acked' \subseteq Keys
<1>1. thr' = [thr EXCEPT ![t] = Idle]
  BY DEF Finish
<1>2. /\ mutexArray' \in [Rows -> Threads \union {Free_}]
      /\ mutexArray' = [mutexArray EXCEPT ![R(t)] = Free_]
  BY DEF Finish, TypeInv
<1>3. acked' \subseteq Keys
  BY ServedCall DEF Finish, TypeInv
<1> QED BY <1>1, <1>2, <1>3, IdleType, OneCallback

\* Callbacks keep the key they serve.
KeepKeys ==
    \A u \in Threads : thr[u].pc # "idle" /\ thr'[u].pc # "idle" =>
        thr'[u].q = thr[u].q /\ K(u)' = K(u) /\ R(u)' = R(u)

LEMMA GoOn ==
  ASSUME TypeInv, CallInv, NEW t \in Threads, thr[t].pc # "idle", UNCHANGED op,
         \A u \in Threads \ {t} : thr'[u] = thr[u], thr'[t].q = thr[t].q,
         thr'[t].pc # "idle",
         thr[t].pc \in {"get", "data"} <=> thr'[t].pc \in {"get", "data"}
  PROVE  CallInv' /\ KeepKeys
<1>1. ASSUME NEW u \in Threads, thr'[u].pc # "idle"
      PROVE  /\ thr[u].pc # "idle" /\ thr'[u].q = thr[u].q
             /\ (thr[u].pc \in {"get", "data"} <=> thr'[u].pc \in {"get", "data"})
  BY <1>1
<1>2. CallInv'
  BY <1>1, SMTT(30) DEF CallInv
<1> QED BY <1>1, <1>2 DEF KeepKeys, K, R

LEMMA Ends ==
  ASSUME Ground, TypeInv, CallInv, NEW t \in Threads, thr[t].pc # "idle",
         NEW val \in Keys \union Nat, op' = Answered(t, val),
         op[thr[t].q].kind = "put" => val \in Replies,
         \A u \in Threads \ {t} : thr'[u] = thr[u], thr'[t] = Idle
  PROVE  CallInv' /\ KeepKeys
<1>1. thr'[t].pc = "idle"
  BY IdlePc
<1>2. ASSUME NEW u \in Threads, thr'[u].pc # "idle"
      PROVE  /\ thr'[u] = thr[u] /\ thr[u].q \in Cors /\ op'[thr[u].q] = op[thr[u].q]
  <2>1. u # t /\ thr'[u] = thr[u]
    BY <1>1, <1>2
  <2>2. thr[u].q \in Cors /\ ThreadOf[thr[u].q] # ThreadOf[thr[t].q]
    BY <1>2, <2>1, SMTT(30) DEF CallInv
  <2> QED BY <2>1, <2>2, AnsweredStep
<1>3. \A u \in Threads : thr'[u].pc # "idle" =>
         /\ thr'[u].q \in Cors /\ ThreadOf[thr'[u].q] = u
         /\ op'[thr'[u].q].st = "served"
         /\ thr'[u].pc \in {"get", "data"} <=> op'[thr'[u].q].kind = "get"
  BY <1>2, SMTT(30) DEF CallInv
<1>4. thr[t].q \in Cors /\ op[thr[t].q].st = "served"
  BY DEF CallInv
<1>5. \A q \in Cors : op'[q].st # "idle" => op'[q].key \in Keys
  BY <1>4, AnsweredStep, SMTT(30) DEF CallInv
<1>6. \A q \in Cors : op'[q].st = "replied" /\ op'[q].kind = "put" => op'[q].reply \in Replies
  BY <1>4, AnsweredStep, SMTT(30) DEF CallInv
<1>7. CallInv'
  BY <1>3, <1>5, <1>6 DEF CallInv
<1> QED BY <1>2, <1>7 DEF KeepKeys, K, R

(***************************************************************************)
(* Steps that no put can tell.                                             *)
(***************************************************************************)

\* The threads that hold a mutex, and all that they work on, stay as they are.
QuietStep ==
    /\ UNCHANGED <<bucketsArray, seed, rawArray, num, mutexArray, acked>>
    /\ \A u \in Threads :
         /\ thr'[u].pc \in Locked <=> thr[u].pc \in Locked
         /\ thr[u].pc \in Locked => thr'[u] = thr[u] /\ K(u)' = K(u) /\ R(u)' = R(u)

LEMMA NotLocked == "idle" \notin Locked /\ "get" \notin Locked /\ "data" \notin Locked
                   /\ "put" \notin Locked /\ "update" \notin Locked
BY DEF Locked, Bulk, Past, Pending, Moving

LEMMA SameThreads ==
  ASSUME TypeInv, CallInv, UNCHANGED <<thr, bucketsArray, seed, rawArray, num, mutexArray, acked>>,
         \A q \in Cors : op[q].st = "served" => op'[q] = op[q],
         \A q \in Cors : op'[q].st # "idle" => op'[q].key \in Keys,
         \A q \in Cors : op'[q].st = "replied" /\ op'[q].kind = "put" => op'[q].reply \in Replies
  PROVE  CallInv' /\ KeepKeys /\ QuietStep
<1>1. \A u \in Threads : thr[u].pc # "idle" => thr[u].q \in Cors /\ op'[thr[u].q] = op[thr[u].q]
  BY DEF CallInv
<1>2. CallInv'
  BY <1>1, SMTT(30) DEF CallInv
<1>3. \A u \in Threads : thr[u].pc # "idle" => K(u)' = K(u) /\ R(u)' = R(u)
  BY <1>1 DEF K, R
<1> QED BY <1>2, <1>3, NotLocked DEF KeepKeys, QuietStep

LEMMA CallStep ==
  ASSUME Ground, TypeInv, CallInv, NEW q \in Cors, NEW w \in Workload, Call(q, w[1], w[2])
  PROVE  /\ TypeInv' /\ CallInv' /\ KeepKeys /\ QuietStep
         /\ op[q].st = "idle" /\ (\A p \in Cors \ {q} : op'[p] = op[p])
         /\ op'[q].st = "sent" /\ op'[q].key = w[2] /\ op'[q].slot = lookup_slot(q, w[2])
         /\ (op'[q].fresh => /\ w[2] \in acked /\ ~Reseeding(RowOf[w[2]])
                             /\ cseed[ClientOf[q]][RowOf[w[2]]] = seed[RowOf[w[2]]])
         /\ UNCHANGED <<thr, cseed>>
<1> DEFINE k == w[2]
           f == k \in acked /\ cseed[ClientOf[q]][RowOf[k]] = seed[RowOf[k]] /\ ~Reseeding(RowOf[k])
           c == [st |-> "sent", kind |-> w[1], key |-> k, slot |-> lookup_slot(q, k),
                 reply |-> 0, fresh |-> f, n |-> op[q].n + 1]
<1>1. /\ w[1] \in {"get", "put", "update", "remove"} /\ k \in Keys
  BY DEF Ground, Setting
<1>2. /\ op' = [op EXCEPT ![q] = c] /\ op[q].st = "idle"
      /\ UNCHANGED <<bucketsArray, seed, rawArray, num, mutexArray, thr, cseed, acked>>
  BY Zenon DEF Call
<1>3. lookup_slot(q, k) \in Slots
  <2>1. ClientOf[q] \in ClientProcs /\ RowOf[k] \in Rows
    BY <1>1, ConstantFacts DEF ClientProcs
  <2>2. cseed[ClientOf[q]][RowOf[k]] \in Seeds
    BY <2>1 DEF TypeInv
  <2> QED BY <1>1, <2>2, ConstantFacts DEF lookup_slot
<1>4. op[q].n + 1 \in Nat
  BY SMTT(30) DEF TypeInv, Calls
<1>5. f \in BOOLEAN
  BY Zenon
<1> HIDE DEF f
<1>6. c \in Calls
  BY <1>1, <1>3, <1>4, <1>5, Zenon DEF Calls
<1>7. c.st = "sent" /\ c.key = k /\ c.slot = lookup_slot(q, k)
  BY Zenon
<1>8. c.fresh = f
  BY Zenon
<1> HIDE DEF c
<1>9. op' \in [Cors -> Calls] /\ op'[q] = c /\ \A p \in Cors \ {q} : op'[p] = op[p]
  BY <1>2, <1>6 DEF TypeInv
<1>10. TypeInv'
  BY <1>2, <1>9 DEF TypeInv
<1>11. CallInv' /\ KeepKeys /\ QuietStep
  <2>1. \A p \in Cors : op[p].st = "served" => op'[p] = op[p]
    BY <1>2, <1>9
  <2>2. \A p \in Cors : op'[p].st # "idle" => op'[p].key \in Keys
    BY <1>1, <1>7, <1>9, SMTT(30) DEF CallInv
  <2>3. \A p \in Cors : op'[p].st = "replied" /\ op'[p].kind = "put" => op'[p].reply \in Replies
    BY <1>7, <1>9, SMTT(30) DEF CallInv
  <2> QED BY <1>2, <2>1, <2>2, <2>3, SameThreads
<1>12. op'[q].fresh => f
  BY <1>8, <1>9
<1>13. op'[q].fresh => /\ k \in acked /\ ~Reseeding(RowOf[k])
                       /\ cseed[ClientOf[q]][RowOf[k]] = seed[RowOf[k]]
  BY <1>12, Zenon DEF f
<1> QED BY <1>2, <1>7, <1>9, <1>10, <1>11, <1>13

LEMMA ReturnStep ==
  ASSUME Ground, TypeInv, CallInv, NEW q \in Cors, Return(q)
  PROVE  /\ TypeInv' /\ CallInv' /\ KeepKeys /\ QuietStep
         /\ op'[q].st = "idle" /\ (\A p \in Cors \ {q} : op'[p] = op[p]) /\ UNCHANGED thr
<1> DEFINE c == [NoOp EXCEPT !.n = op[q].n]
<1>1. /\ op' = [op EXCEPT ![q] = c] /\ op[q].st = "replied"
      /\ UNCHANGED <<bucketsArray, seed, rawArray, num, mutexArray, thr, acked>>
  BY DEF Return
<1>2. c \in Calls /\ c.st = "idle"
  BY NoOpType DEF NoOp, Calls, TypeInv
<1> HIDE DEF c
<1>3. op' \in [Cors -> Calls] /\ op'[q] = c /\ \A p \in Cors \ {q} : op'[p] = op[p]
  BY <1>1, <1>2 DEF TypeInv
<1>4. cseed' \in [ClientProcs -> [Rows -> Seeds]]
  <2>1. CASE op[q].kind = "put" /\ op[q].reply >= 256
    <3>1. op[q].reply \in Replies /\ op[q].key \in Keys
      BY <1>1, <2>1 DEF CallInv
    <3>2. PICK s \in Seeds : op[q].reply = 256 + s
      BY <2>1, <3>1, SMTT(30) DEF Replies
    <3>3. op[q].reply % 256 \in Seeds
      <4>1. s \in 0 .. 255
        BY ConstantFacts
      <4>2. (256 + s) % 256 = s
        BY <4>1, SMTT(30)
      <4> QED BY <3>2, <4>2
    <3>4. ClientOf[q] \in ClientProcs /\ RowOf[op[q].key] \in Rows
      BY <3>1, ConstantFacts DEF ClientProcs
    <3>5. cseed' = [cseed EXCEPT ![ClientOf[q]][RowOf[op[q].key]] = op[q].reply % 256]
      BY <2>1 DEF Return
    <3> QED BY <3>3, <3>4, <3>5 DEF TypeInv
  <2>2. CASE ~(op[q].kind = "put" /\ op[q].reply >= 256)
    BY <2>2 DEF Return, TypeInv
  <2> QED BY <2>1, <2>2
<1>5. TypeInv'
  BY <1>1, <1>3, <1>4 DEF TypeInv
<1>6. CallInv' /\ KeepKeys /\ QuietStep
  <2>1. \A p \in Cors : op[p].st = "served" => op'[p] = op[p]
    BY <1>1, <1>3
  <2>2. \A p \in Cors : op'[p].st # "idle" => op'[p].key \in Keys
    BY <1>2, <1>3 DEF CallInv
  <2>3. \A p \in Cors : op'[p].st = "replied" /\ op'[p].kind = "put" => op'[p].reply \in Replies
    BY <1>2, <1>3, SMTT(30) DEF CallInv
  <2> QED BY <1>1, <2>1, <2>2, <2>3, SameThreads
<1> QED BY <1>1, <1>2, <1>3, <1>5, <1>6

\* The server ends, or nothing happens.
LEMMA StopStep ==
  ASSUME TypeInv, CallInv, UNCHANGED <<bucketsArray, seed, rawArray, num, mutexArray, thr, cseed, op, acked>>
  PROVE  TypeInv' /\ CallInv' /\ KeepKeys /\ QuietStep
<1>1. TypeInv'
  BY DEF TypeInv
<1>2. CallInv'
  BY DEF CallInv
<1>3. \A u \in Threads : K(u)' = K(u) /\ R(u)' = R(u)
  BY DEF K, R
<1> QED BY <1>1, <1>2, <1>3 DEF KeepKeys, QuietStep

\* A thread without a mutex that takes none.
LEMMA UnlockedStep ==
  ASSUME TypeInv, CallInv, NEW t \in Threads, KeepKeys,
         UNCHANGED <<bucketsArray, seed, rawArray, num, mutexArray, acked>>,
         \A u \in Threads \ {t} : thr'[u] = thr[u],
         thr[t].pc \notin Locked, thr'[t].pc \notin Locked
  PROVE  QuietStep
BY NotLocked DEF QuietStep, KeepKeys

LEMMA GetAddrStep ==
  ASSUME Ground, TypeInv, CallInv, NEW t \in Threads, GetAddr(t)
  PROVE  /\ TypeInv' /\ CallInv' /\ KeepKeys /\ QuietStep /\ UNCHANGED op
         /\ (\A u \in Threads \ {t} : thr'[u] = thr[u]) /\ thr[t].pc = "get"
         /\ thr'[t].pc = "data" /\ thr'[t].q = thr[t].q
         /\ thr'[t].addr = bucketsArray[R(t)][op[thr[t].q].slot].addr
<1> DEFINE a == bucketsArray[R(t)][op[thr[t].q].slot].addr
<1>1. /\ GotoWith(t, a, "data") /\ thr[t].pc = "get"
      /\ UNCHANGED <<bucketsArray, seed, rawArray, num, mutexArray, cseed, op, acked>>
  BY DEF GetAddr, GotoWith, At, TypeInv
<1>2. a \in Indexes
  <2>1. R(t) \in Rows /\ op[thr[t].q].slot \in Slots
    BY <1>1, ServedCall
  <2>2. bucketsArray[R(t)][op[thr[t].q].slot] \in CellIn
    BY <2>1 DEF TypeInv
  <2> QED BY <2>2 DEF CellIn
<1> HIDE DEF a
<1>3. /\ thr' \in [Threads -> Callbacks] /\ \A u \in Threads \ {t} : thr'[u] = thr[u]
      /\ thr'[t].pc = "data" /\ thr'[t].addr = a /\ thr'[t].q = thr[t].q
  <2>1. "data" \in GotoPcs
    BY DEF GotoPcs
  <2> QED BY <1>1, <1>2, <2>1, GotoStep
<1>4. TypeInv'
  BY <1>1, <1>3 DEF TypeInv
<1>5. CallInv' /\ KeepKeys
  BY <1>1, <1>3, GoOn
<1>6. QuietStep
  BY <1>1, <1>3, <1>5, NotLocked, UnlockedStep
<1> QED BY <1>1, <1>3, <1>4, <1>5, <1>6 DEF a

LEMMA GetDataStep ==
  ASSUME Ground, TypeInv, CallInv, NEW t \in Threads, GetData(t)
  PROVE  /\ TypeInv' /\ CallInv' /\ KeepKeys /\ QuietStep /\ thr[t].pc = "data" /\ thr'[t] = Idle
         /\ (\A u \in Threads \ {t} : thr'[u] = thr[u])
         /\ op' = Answered(t, rawArray[thr[t].addr].data)
         /\ rawArray[thr[t].addr].data \in Keys \union Nat
<1> DEFINE val == rawArray[thr[t].addr].data
<1>1. /\ thr' = [thr EXCEPT ![t] = Idle] /\ thr[t].pc = "data" /\ op' = Answered(t, val)
      /\ UNCHANGED <<bucketsArray, seed, rawArray, num, mutexArray, cseed, acked>>
  BY DEF GetData, At
<1>2. thr[t].addr \in Indexes
  BY DEF TypeInv, Callbacks
<1>3. val \in Keys \union Nat
  BY <1>2 DEF TypeInv
<1> HIDE DEF val
<1>4. thr' \in [Threads -> Callbacks] /\ thr'[t] = Idle /\ \A u \in Threads \ {t} : thr'[u] = thr[u]
  BY <1>1, IdleType, OneCallback
<1>5. op[thr[t].q].kind # "put"
  BY <1>1 DEF CallInv
<1>6. TypeInv'
  BY <1>1, <1>3, <1>4, AnsweredStep DEF TypeInv
<1>7. CallInv' /\ KeepKeys
  BY <1>1, <1>3, <1>4, <1>5, Ends
<1>8. QuietStep
  BY <1>1, <1>4, <1>7, NotLocked, IdlePc, UnlockedStep
<1> QED BY <1>1, <1>3, <1>4, <1>6, <1>7, <1>8 DEF val

LEMMA BeginStep ==
  ASSUME Ground, TypeInv, CallInv, NEW t \in Threads, NEW q \in Cors, Begin(t, q)
  PROVE  /\ TypeInv' /\ CallInv' /\ KeepKeys /\ QuietStep
         /\ (\A u \in Threads \ {t} : thr'[u] = thr[u])
         /\ (\A u \in Threads : thr[u].pc # "idle" \/ thr'[u].pc = "data" => thr'[u] = thr[u])
         /\ (\A p \in Cors \ {q} : op'[p] = op[p])
         /\ op[q].st = "sent" /\ op'[q].st \in {"sent", "served"} /\ op'[q].kind = op[q].kind
         /\ op'[q].key = op[q].key /\ op'[q].slot = op[q].slot /\ op'[q].fresh = op[q].fresh
<1>1. /\ thr[t].pc = "idle" /\ ThreadOf[q] = t /\ op[q].st = "sent"
      /\ UNCHANGED <<bucketsArray, seed, rawArray, num, mutexArray, cseed, acked>>
  BY DEF Begin, At
<1>2. CASE op[q].kind = "remove"
  <2>1. UNCHANGED <<thr, op>>
    BY <1>2 DEF Begin
  <2>2. TypeInv' /\ CallInv' /\ KeepKeys /\ QuietStep
    BY <1>1, <2>1, StopStep
  <2> QED BY <1>1, <2>1, <2>2
<1>3. CASE op[q].kind # "remove"
  <2> DEFINE pc == CASE op[q].kind = "get" -> "get"
                     [] op[q].kind = "put" -> "put"
                     [] op[q].kind = "update" -> "update"
             c == [Idle EXCEPT !.q = q, !.pc = pc]
             o == [op[q] EXCEPT !.st = "served"]
  <2>1. thr' = [thr EXCEPT ![t] = c] /\ op' = [op EXCEPT ![q] = o]
    BY <1>3 DEF Begin, TypeInv
  <2>2. op[q] \in Calls /\ op[q].kind \in {"get", "put", "update"}
    BY <1>3 DEF TypeInv, Calls
  <2>3. pc \in {"get", "put", "update"} /\ (pc = "get" <=> op[q].kind = "get")
    BY <2>2
  <2> HIDE DEF pc
  <2>4. c \in Callbacks /\ c.pc = pc /\ c.q = q
    BY <2>3, IdleType DEF Idle, Callbacks
  <2>5. /\ o \in Calls /\ o.st = "served" /\ o.kind = op[q].kind /\ o.key = op[q].key
        /\ o.slot = op[q].slot
    BY <2>2 DEF Calls
  <2>6. o.fresh = op[q].fresh
    BY <2>2, Zenon DEF Calls
  <2> HIDE DEF c, o
  <2>7. thr' \in [Threads -> Callbacks] /\ thr'[t] = c /\ \A u \in Threads \ {t} : thr'[u] = thr[u]
    BY <2>1, <2>4, OneCallback
  <2>8. op' \in [Cors -> Calls] /\ op'[q] = o /\ \A p \in Cors \ {q} : op'[p] = op[p]
    BY <2>1, <2>5 DEF TypeInv
  <2>9. TypeInv'
    BY <1>1, <2>7, <2>8 DEF TypeInv
  <2>10. \A u \in Threads \ {t} : thr[u].pc # "idle" => thr[u].q \in Cors /\ thr[u].q # q
    BY <1>1 DEF CallInv
  <2>11. CallInv'
    <3>1. \A p \in Cors : op'[p].st # "idle" => op'[p].key \in Keys
      BY <1>1, <2>5, <2>8, SMTT(30) DEF CallInv
    <3>2. \A p \in Cors : op'[p].st = "replied" /\ op'[p].kind = "put" => op'[p].reply \in Replies
      BY <2>5, <2>8, SMTT(30) DEF CallInv
    <3>3. ASSUME NEW u \in Threads, thr'[u].pc # "idle"
          PROVE  /\ thr'[u].q \in Cors /\ ThreadOf[thr'[u].q] = u
                 /\ op'[thr'[u].q].st = "served"
                 /\ thr'[u].pc \in {"get", "data"} <=> op'[thr'[u].q].kind = "get"
      <4>1. CASE u = t
        BY <1>1, <2>3, <2>4, <2>5, <2>7, <2>8, <4>1
      <4>2. CASE u # t
        BY <2>7, <2>8, <2>10, <3>3, <4>2, SMTT(30) DEF CallInv
      <4> QED BY <4>1, <4>2
    <3> QED BY <3>1, <3>2, <3>3 DEF CallInv
  <2>12. \A u \in Threads : thr[u].pc # "idle" /\ thr'[u].pc # "idle" =>
            thr'[u].q = thr[u].q /\ op'[thr[u].q] = op[thr[u].q]
    BY <1>1, <2>7, <2>8, <2>10
  <2>13. KeepKeys
    BY <2>12 DEF KeepKeys, K, R
  <2>14. QuietStep
    BY <1>1, <2>3, <2>4, <2>7, <2>13, NotLocked, UnlockedStep
  <2> QED BY <1>1, <2>3, <2>4, <2>5, <2>6, <2>7, <2>8, <2>9, <2>11, <2>13, <2>14
<1> QED BY <1>2, <1>3

(***************************************************************************)
(* Steps of a put or an update.                                            *)
(***************************************************************************)

LEMMA LockTypes ==
  ASSUME Ground, TypeInv, CallInv, NEW t \in Threads, Put(t) \/ Update(t)
  PROVE  TypeInv' /\ CallInv' /\ KeepKeys
<1>1. thr'[t].pc \in {"check", "update_data"} /\ R(t) \in Rows
  BY LockStep, ServedCall
<1>2. mutexArray' \in [Rows -> Threads \union {Free_}]
  BY <1>1, LockStep, SMTT(30) DEF TypeInv
<1>3. TypeInv'
  BY <1>2, LockStep DEF TypeInv
<1> QED BY <1>1, <1>3, LockStep, GoOn

LEMMA NumIndex ==
  ASSUME Ground, TypeInv, BoundInv
  PROVE  /\ num \in Indexes /\ num + Cardinality(PastCheck) <= LastIndex
         /\ Cardinality(PastCheck) \in Nat
<1>1. PastCheck \in SUBSET Threads
  BY DEF PastCheck
<1>2. Cardinality(PastCheck) \in Nat
  BY <1>1 DEF Ground, Counting
<1> QED BY <1>2, IndexFacts, SMTT(30) DEF BoundInv, TypeInv, Indexes

\* bulk_load_data up to the count: the new entry is the only one it writes.
LEMMA BulkStep ==
  ASSUME Ground, TypeInv, CallInv, BoundInv, NEW t \in Threads,
         (BulkCheck(t) /\ ~(num >= numElements)) \/ BulkKey(t) \/ BulkData(t)
  PROVE  /\ TypeInv' /\ CallInv' /\ KeepKeys /\ (\A u \in Threads \ {t} : thr'[u] = thr[u])
         /\ \/ thr[t].pc = "check" /\ thr'[t].pc = "key" /\ num < numElements
            \/ thr[t].pc = "key" /\ thr'[t].pc = "value"
            \/ thr[t].pc = "value" /\ thr'[t].pc = "count"
         /\ thr'[t].addr = thr[t].addr /\ thr'[t].q = thr[t].q /\ thr'[t].cells = thr[t].cells
         /\ thr'[t].keys = thr[t].keys /\ thr'[t].then = thr[t].then
         /\ \A a \in Indexes : a # num => rawArray'[a] = rawArray[a]
         /\ thr'[t].pc = "value" => rawArray'[num].key = K(t)
         /\ thr'[t].pc = "count" => /\ rawArray'[num].key = rawArray[num].key
                                    /\ rawArray'[num].data = K(t)
         /\ UNCHANGED <<bucketsArray, seed, num, mutexArray, cseed, op, acked>>
<1>1. /\ \/ thr[t].pc = "check" /\ Goto(t, "key") /\ num < numElements /\ rawArray' = rawArray
         \/ /\ thr[t].pc = "key" /\ Goto(t, "value")
            /\ rawArray' = [rawArray EXCEPT ![num].key = K(t)]
         \/ /\ thr[t].pc = "value" /\ Goto(t, "count")
            /\ rawArray' = [rawArray EXCEPT ![num].data = K(t)]
      /\ UNCHANGED <<bucketsArray, seed, num, mutexArray, cseed, op, acked>>
  <2>1. num \in Nat /\ numElements \in Nat
    BY ConstantFacts DEF TypeInv
  <2> QED BY <2>1, SMTT(30) DEF BulkCheck, BulkKey, BulkData, At
<1>2. thr[t].pc # "idle"
  BY <1>1
<1>3. num \in Indexes /\ K(t) \in Keys
  BY <1>2, NumIndex, ServedCall
<1>4. /\ rawArray' \in [Indexes -> [key : Keys, data : Keys \union Nat]]
      /\ \A a \in Indexes : a # num => rawArray'[a] = rawArray[a]
      /\ thr[t].pc = "key" => rawArray'[num].key = K(t)
      /\ thr[t].pc = "value" => /\ rawArray'[num].key = rawArray[num].key
                                /\ rawArray'[num].data = K(t)
  BY <1>1, <1>3 DEF TypeInv
<1>5. /\ thr' \in [Threads -> Callbacks] /\ \A u \in Threads \ {t} : thr'[u] = thr[u]
      /\ thr'[t].addr = thr[t].addr /\ thr'[t].q = thr[t].q /\ thr'[t].cells = thr[t].cells
      /\ thr'[t].keys = thr[t].keys /\ thr'[t].then = thr[t].then
      /\ \/ thr[t].pc = "check" /\ thr'[t].pc = "key" /\ num < numElements
         \/ thr[t].pc = "key" /\ thr'[t].pc = "value"
         \/ thr[t].pc = "value" /\ thr'[t].pc = "count"
  BY <1>1, GotoFacts
<1>6. TypeInv'
  BY <1>1, <1>4, <1>5 DEF TypeInv
<1>7. CallInv' /\ KeepKeys
  BY <1>1, <1>2, <1>5, GoOn
<1> QED BY <1>1, <1>4, <1>5, <1>6, <1>7

\* num ++: the address is the callback's alone.
LEMMA CountStep ==
  ASSUME Ground, TypeInv, CallInv, VectorInv, NEW t \in Threads, BoundInv, BulkCount(t)
  PROVE  /\ TypeInv' /\ CallInv' /\ KeepKeys /\ (\A u \in Threads \ {t} : thr'[u] = thr[u])
         /\ thr[t].pc = "count" /\ thr'[t].pc = thr[t].then /\ thr[t].then \in Pending
         /\ thr'[t].addr = num /\ thr'[t].q = thr[t].q /\ thr'[t].cells = thr[t].cells
         /\ thr'[t].keys = thr[t].keys /\ thr'[t].then = thr[t].then /\ num' = num + 1
         /\ UNCHANGED <<bucketsArray, seed, rawArray, mutexArray, cseed, op, acked>>
<1>0. PICK a, pc : a = num /\ pc = thr[t].then
  OBVIOUS
<1>1. /\ GotoWith(t, a, pc) /\ thr[t].pc = "count"
      /\ num' = num + 1
      /\ UNCHANGED <<bucketsArray, seed, rawArray, mutexArray, cseed, op, acked>>
  BY <1>0 DEF BulkCount, GotoWith, At, next_addr
<1>2. a \in Indexes /\ pc \in Pending
  BY <1>0, <1>1, NumIndex DEF VectorInv, VectorOK, Bulk, Past
<1>3. pc \notin {"idle", "get", "data"}
  BY <1>2 DEF Pending
<1>4. /\ thr' \in [Threads -> Callbacks] /\ \A u \in Threads \ {t} : thr'[u] = thr[u]
      /\ thr'[t].pc = pc /\ thr'[t].addr = a /\ thr'[t].q = thr[t].q /\ thr'[t].cells = thr[t].cells
      /\ thr'[t].keys = thr[t].keys /\ thr'[t].then = thr[t].then
  <2>1. pc \in GotoPcs /\ a \in Indexes
    BY <1>2 DEF GotoPcs
  <2> QED BY <1>1, <2>1, GotoStep
<1>5. TypeInv'
  BY <1>1, <1>4, SMTT(30) DEF TypeInv
<1>6. CallInv' /\ KeepKeys
  BY <1>1, <1>3, <1>4, GoOn
<1> QED BY <1>0, <1>1, <1>2, <1>4, <1>5, <1>6

LEMMA EndStep ==
  ASSUME Ground, TypeInv, CallInv, NEW t \in Threads, thr[t].pc \in Locked,
         NEW val \in Replies, NEW stored \in BOOLEAN, Finish(t, val, stored),
         UNCHANGED <<seed, num, cseed>>,
         bucketsArray' \in [Rows -> [Slots -> CellIn]],
         rawArray' \in [Indexes -> [key : Keys, data : Keys \union Nat]]
  PROVE  /\ TypeInv' /\ CallInv' /\ KeepKeys /\ (\A u \in Threads \ {t} : thr'[u] = thr[u])
         /\ thr'[t] = Idle /\ thr'[t].pc = "idle" /\ op' = Answered(t, val) /\ val \in Nat
         /\ mutexArray' = [mutexArray EXCEPT ![R(t)] = Free_]
<1>1. thr[t].pc # "idle" /\ op' = Answered(t, val)
  BY NotLocked DEF Finish
<1>2. val \in Nat
  <2>1. Seeds \subseteq Nat
    BY ConstantFacts
  <2>2. \A s \in Nat : 256 + s \in Nat
    BY SMTT(30)
  <2> QED BY <2>1, <2>2, SMTT(30) DEF Replies
<1>3. /\ thr' \in [Threads -> Callbacks] /\ thr'[t] = Idle
      /\ \A u \in Threads \ {t} : thr'[u] = thr[u]
      /\ mutexArray' \in [Rows -> Threads \union {Free_}]
      /\ mutexArray' = [mutexArray EXCEPT ![R(t)] = Free_]
      /\ acked' \subseteq Keys
  BY <1>1, <1>2, FinishStep
<1>4. op' \in [Cors -> Calls]
  BY <1>1, <1>2, AnsweredStep
<1>5. TypeInv'
  BY <1>3, <1>4 DEF TypeInv
<1>6. CallInv' /\ KeepKeys
  BY <1>1, <1>2, <1>3, Ends
<1> QED BY <1>1, <1>2, <1>3, <1>5, <1>6, IdlePc

\* The three ends that write no cell.
LEMMA UnlockStep ==
  ASSUME Ground, TypeInv, CallInv, NEW t \in Threads, update_data(t) \/ Orphan(t) \/ Reseeded(t)
  PROVE  /\ TypeInv' /\ CallInv' /\ KeepKeys /\ (\A u \in Threads \ {t} : thr'[u] = thr[u])
         /\ thr[t].pc \in Locked /\ thr'[t] = Idle /\ thr'[t].pc = "idle"
         /\ op' = Answered(t, thr[t].reply) /\ thr[t].reply \in Nat
         /\ mutexArray' = [mutexArray EXCEPT ![R(t)] = Free_]
         /\ \/ /\ thr[t].pc = "update_data" /\ acked' = acked /\ thr[t].addr \in Indexes
               /\ rawArray'[thr[t].addr] = [key |-> K(t), data |-> K(t)]
               /\ \A a \in Indexes : a # thr[t].addr => rawArray'[a] = rawArray[a]
            \/ thr[t].pc = "orphan" /\ acked' = acked /\ rawArray' = rawArray
            \/ /\ thr[t].pc = "cells" /\ DOMAIN thr[t].cells = {}
               /\ acked' = acked \union {K(t)} /\ rawArray' = rawArray
         /\ UNCHANGED <<bucketsArray, seed, num, cseed>>
<1>1. thr[t].pc \in {"update_data", "orphan", "cells"} /\ UNCHANGED <<bucketsArray, seed, num, cseed>>
  BY DEF update_data, Orphan, Reseeded, At
<1>2. thr[t].pc \in Locked /\ thr[t].pc # "idle"
  BY <1>1 DEF Locked, Pending, Moving
<1>3. thr[t].reply \in Replies /\ thr[t].addr \in Indexes
  BY DEF TypeInv, Callbacks
<1>4. K(t) \in Keys
  BY <1>2, ServedCall
<1>5. bucketsArray' \in [Rows -> [Slots -> CellIn]]
  BY <1>1 DEF TypeInv
<1>6. /\ rawArray' \in [Indexes -> [key : Keys, data : Keys \union Nat]]
      /\ update_data(t) => /\ rawArray'[thr[t].addr] = [key |-> K(t), data |-> K(t)]
                           /\ \A a \in Indexes : a # thr[t].addr => rawArray'[a] = rawArray[a]
  <2>1. CASE update_data(t)
    <3>1. rawArray' = [rawArray EXCEPT ![thr[t].addr] = [key |-> K(t), data |-> K(t)]]
      BY <2>1 DEF update_data
    <3> QED BY <1>3, <1>4, <3>1 DEF TypeInv
  <2>2. CASE ~update_data(t)
    BY <2>2 DEF TypeInv, Orphan, Reseeded
  <2> QED BY <2>1, <2>2
<1>7. Finish(t, thr[t].reply, Reseeded(t))
  <2>1. CASE Reseeded(t)
    BY <2>1 DEF Reseeded, Finish
  <2>2. CASE ~Reseeded(t)
    BY <2>2 DEF update_data, Orphan, Finish
  <2> QED BY <2>1, <2>2
<1>8. Reseeded(t) \in BOOLEAN
  BY DEF Reseeded
<1>9. /\ TypeInv' /\ CallInv' /\ KeepKeys /\ (\A u \in Threads \ {t} : thr'[u] = thr[u])
      /\ thr'[t] = Idle /\ thr'[t].pc = "idle" /\ op' = Answered(t, thr[t].reply)
      /\ thr[t].reply \in Nat
      /\ mutexArray' = [mutexArray EXCEPT ![R(t)] = Free_]
  BY <1>1, <1>2, <1>3, <1>5, <1>6, <1>7, <1>8, EndStep
<1>10. \/ update_data(t) /\ thr[t].pc = "update_data" /\ acked' = acked
       \/ thr[t].pc = "orphan" /\ acked' = acked /\ rawArray' = rawArray
       \/ /\ thr[t].pc = "cells" /\ DOMAIN thr[t].cells = {}
          /\ acked' = acked \union {K(t)} /\ rawArray' = rawArray
  BY DEF update_data, Orphan, Reseeded, At, Finish
<1> QED BY <1>1, <1>2, <1>3, <1>6, <1>9, <1>10

LEMMA LinkStep ==
  ASSUME Ground, TypeInv, CallInv, NEW t \in Threads, Link(t)
  PROVE  /\ TypeInv' /\ CallInv' /\ KeepKeys /\ (\A u \in Threads \ {t} : thr'[u] = thr[u])
         /\ thr[t].pc = "link" /\ thr'[t] = Idle /\ thr'[t].pc = "idle"
         /\ op' = Answered(t, 0) /\ acked' = acked \union {K(t)}
         /\ mutexArray' = [mutexArray EXCEPT ![R(t)] = Free_]
         /\ bucketsArray'[R(t)][slot(t)] = combine(K(t), thr[t].addr)
         /\ \A r \in Rows, s \in Slots : <<r, s>> # <<R(t), slot(t)>> =>
              bucketsArray'[r][s] = bucketsArray[r][s]
         /\ \A r \in Rows : r # R(t) => bucketsArray'[r] = bucketsArray[r]
         /\ UNCHANGED <<seed, rawArray, num, cseed>>
<1>1. /\ thr[t].pc = "link" /\ UNCHANGED <<seed, rawArray, num, cseed>> /\ Finish(t, 0, TRUE)
      /\ bucketsArray' = [bucketsArray EXCEPT ![R(t)][slot(t)] = combine(K(t), thr[t].addr)]
  BY DEF Link, At
<1>2. thr[t].pc \in Locked /\ thr[t].pc # "idle"
  BY <1>1 DEF Locked, Pending
<1>3. K(t) \in Keys /\ R(t) \in Rows /\ slot(t) \in Slots /\ thr[t].addr \in Indexes
  BY <1>2, ServedCall DEF TypeInv, Callbacks
<1>4. combine(K(t), thr[t].addr) \in CellIn
  BY <1>3, ConstantFacts DEF combine, CellIn
<1>5. bucketsArray' \in [Rows -> [Slots -> CellIn]]
  BY <1>1, <1>3, <1>4 DEF TypeInv
<1>6. rawArray' \in [Indexes -> [key : Keys, data : Keys \union Nat]] /\ 0 \in Replies
  BY <1>1, SMTT(30) DEF TypeInv, Replies
<1>7. /\ bucketsArray'[R(t)][slot(t)] = combine(K(t), thr[t].addr)
      /\ \A r \in Rows, s \in Slots : <<r, s>> # <<R(t), slot(t)>> =>
              bucketsArray'[r][s] = bucketsArray[r][s]
      /\ \A r \in Rows : r # R(t) => bucketsArray'[r] = bucketsArray[r]
  BY <1>1, <1>3 DEF TypeInv
<1>8. /\ TypeInv' /\ CallInv' /\ KeepKeys /\ (\A u \in Threads \ {t} : thr'[u] = thr[u])
      /\ thr'[t] = Idle /\ thr'[t].pc = "idle" /\ op' = Answered(t, 0)
      /\ mutexArray' = [mutexArray EXCEPT ![R(t)] = Free_]
  BY <1>1, <1>2, <1>5, <1>6, EndStep
<1>9. acked' = acked \union {K(t)}
  BY <1>1 DEF Finish
<1> QED BY <1>1, <1>7, <1>8, <1>9

\* p is v with x behind it.
Pushed(p, v, x, S) ==
    /\ p \in VectorsOf(S) /\ DOMAIN p = DOMAIN v \union {SLOTS_NUM_BUCKET}
    /\ p[SLOTS_NUM_BUCKET] = x /\ \A i \in DOMAIN v : p[i] = v[i]
InSlots(v) == DOMAIN v \subseteq Slots

LEMMA PushBack ==
  ASSUME Ground, NEW S, NEW v \in VectorsOf(S), NEW x \in S, InSlots(v)
  PROVE  Pushed(push_back(v, x), v, x, S)
<1> DEFINE D == DOMAIN v \union {SLOTS_NUM_BUCKET}
           p == [i \in D |-> IF i = SLOTS_NUM_BUCKET THEN x ELSE v[i]]
<1>1. push_back(v, x) = p
  BY DEF push_back
<1>2. \A i \in DOMAIN v : v[i] \in S
  BY VectorType
<1>3. p \in [D -> S]
  BY <1>2
<1>4. D \in SUBSET (0 .. SLOTS_NUM_BUCKET)
  BY ConstantFacts, SMTT(30) DEF InSlots
<1>5. push_back(v, x) \in VectorsOf(S)
  BY <1>1, <1>3, <1>4 DEF VectorsOf
<1>6. \A i \in DOMAIN v : i # SLOTS_NUM_BUCKET
  BY ConstantFacts DEF InSlots
<1> QED BY <1>1, <1>5, <1>6 DEF Pushed

\* The search has found a seed, which it tells to the server's table.
Searched(t, new) ==
    LET keys == push_back(thr[t].keys, K(t))
        cells == push_back(thr[t].cells, combine(K(t), thr[t].addr)) IN
    /\ new \in Seeds /\ Resolves(new, keys)
    /\ seed' = [seed EXCEPT ![R(t)] = new]
    /\ thr' = [thr EXCEPT ![t].pc = "empty", ![t].reply = 256 + new, ![t].keys = << >>,
                 ![t].cells = [i \in DOMAIN cells |->
                    [cell |-> cells[i], slot |-> hash[new][keys[i]]]]]
    /\ op' = [q \in Cors |-> IF op[q].st # "idle" /\ RowOf[op[q].key] = R(t)
                               THEN [op[q] EXCEPT !.fresh = FALSE] ELSE op[q]]

LEMMA SearchStep ==
  ASSUME Ground, NEW t \in Threads, Reseed(t)
  PROVE  /\ thr[t].pc = "reseed" /\ UNCHANGED <<bucketsArray, rawArray, num, mutexArray, cseed, acked>>
         /\ \/ UNCHANGED <<seed, thr, op>>
            \/ \E new \in Seeds : Searched(t, new)
<1> DEFINE found == resolving_seeds(push_back(thr[t].keys, K(t)))
           new == CHOOSE s \in found : \A x \in found : s <= x
<1>1. thr[t].pc = "reseed" /\ UNCHANGED <<bucketsArray, rawArray, num, mutexArray, cseed, acked>>
  BY DEF Reseed, At
<1>2. CASE found = {}
  BY <1>1, <1>2 DEF Reseed
<1>3. CASE found # {}
  <2>1. found \subseteq Seeds /\ Seeds \subseteq Nat
    BY ConstantFacts, SMT DEF resolving_seeds, Tried, Seeds
  <2>2. \E s \in found : \A x \in found : s <= x
    BY <1>3, <2>1 DEF Ground, LeastNumber
  <2>3. new \in found
    BY <2>2
  <2>4. new \in Seeds /\ Resolves(new, push_back(thr[t].keys, K(t)))
    BY <2>1, <2>3 DEF resolving_seeds
  <2>5. Searched(t, new)
    BY <1>3, <2>4 DEF Reseed, Searched
  <2> QED BY <1>1, <2>4, <2>5
<1> QED BY <1>2, <1>3

\* The cells of the row and the new one, each with the slot it goes to.
LEMMA ReseedStep ==
  ASSUME Ground, TypeInv, CallInv, VectorInv, NEW t \in Threads, thr[t].pc = "reseed",
         NEW new \in Seeds, Searched(t, new),
         UNCHANGED <<bucketsArray, rawArray, num, mutexArray, cseed, acked>>
  PROVE  /\ seed' = [seed EXCEPT ![R(t)] = new]
         /\ thr' \in [Threads -> Callbacks] /\ \A u \in Threads \ {t} : thr'[u] = thr[u]
         /\ thr'[t].pc = "empty" /\ thr'[t].q = thr[t].q /\ thr'[t].cells \in VectorsOf(Moved)
         /\ DOMAIN thr[t].cells = {s \in Slots : ~Free(bucketsArray[R(t)], s)}
         /\ DOMAIN thr'[t].cells = DOMAIN thr[t].cells \union {SLOTS_NUM_BUCKET}
         /\ \A i \in DOMAIN thr[t].cells :
              /\ thr'[t].cells[i].cell = bucketsArray[R(t)][i]
              /\ thr'[t].cells[i].slot = hash[new][thr[t].keys[i]]
         /\ thr'[t].cells[SLOTS_NUM_BUCKET].cell = combine(K(t), thr[t].addr)
         /\ thr'[t].cells[SLOTS_NUM_BUCKET].slot = hash[new][K(t)]
         /\ \A i, j \in DOMAIN thr'[t].cells :
              thr'[t].cells[i].slot = thr'[t].cells[j].slot => i = j
<1> DEFINE keys == push_back(thr[t].keys, K(t))
           cells == push_back(thr[t].cells, combine(K(t), thr[t].addr))
           m == [i \in DOMAIN cells |-> [cell |-> cells[i], slot |-> hash[new][keys[i]]]]
           c == [thr[t] EXCEPT !.pc = "empty", !.reply = 256 + new, !.keys = << >>, !.cells = m]
           D == {s \in Slots : ~Free(bucketsArray[R(t)], s)}
<1>1. thr \in [Threads -> Callbacks] /\ thr[t] \in Callbacks
  BY DEF TypeInv
<1>2. K(t) \in Keys /\ R(t) \in Rows
  BY ServedCall
<1>3. thr[t].cells = read_bucket_addrs(bucketsArray[R(t)]) /\ DOMAIN thr[t].keys = DOMAIN thr[t].cells
  BY DEF VectorInv, VectorOK, Pending
<1>4. /\ thr[t].cells \in VectorsOf(CellIn) /\ thr[t].keys \in VectorsOf(Keys)
      /\ DOMAIN thr[t].cells = D /\ \A i \in D : thr[t].cells[i] = bucketsArray[R(t)][i]
  BY <1>1, <1>2, <1>3, ReadVectors DEF read_bucket_addrs, Callbacks
<1>5. combine(K(t), thr[t].addr) \in CellIn
  BY <1>1, <1>2, ConstantFacts DEF combine, CellIn, Callbacks
<1>6. InSlots(thr[t].cells) /\ InSlots(thr[t].keys)
  BY <1>3, <1>4 DEF InSlots
<1>7. /\ keys \in VectorsOf(Keys) /\ DOMAIN keys = D \union {SLOTS_NUM_BUCKET}
      /\ keys[SLOTS_NUM_BUCKET] = K(t) /\ \A i \in D : keys[i] = thr[t].keys[i]
  <2>1. Pushed(keys, thr[t].keys, K(t), Keys)
    BY <1>2, <1>4, <1>6, PushBack
  <2> HIDE DEF keys, D
  <2> QED BY <1>3, <1>4, <2>1 DEF Pushed
<1>8. /\ cells \in VectorsOf(CellIn) /\ DOMAIN cells = D \union {SLOTS_NUM_BUCKET}
      /\ cells[SLOTS_NUM_BUCKET] = combine(K(t), thr[t].addr)
      /\ \A i \in D : cells[i] = bucketsArray[R(t)][i]
  <2>1. Pushed(cells, thr[t].cells, combine(K(t), thr[t].addr), CellIn)
    BY <1>4, <1>5, <1>6, PushBack
  <2> HIDE DEF cells, D
  <2> QED BY <1>4, <2>1 DEF Pushed
<1>9. /\ thr' = [thr EXCEPT ![t] = c] /\ Resolves(new, keys)
      /\ seed' = [seed EXCEPT ![R(t)] = new]
  BY <1>1 DEF Searched
<1> HIDE DEF keys, cells
<1>10. \A i \in DOMAIN cells : cells[i] \in CellIn /\ hash[new][keys[i]] \in Slots
  BY <1>7, <1>8, VectorType, ConstantFacts, SMTT(30)
<1>11. /\ m \in VectorsOf(Moved) /\ DOMAIN m = D \union {SLOTS_NUM_BUCKET}
       /\ \A i \in D \union {SLOTS_NUM_BUCKET} : m[i].cell = cells[i] /\ m[i].slot = hash[new][keys[i]]
  <2>1. DOMAIN cells \in SUBSET (0 .. SLOTS_NUM_BUCKET)
    BY <1>8, VectorType
  <2>2. m \in [DOMAIN cells -> Moved]
    BY <1>10 DEF Moved
  <2>3. m \in VectorsOf(Moved)
    BY <2>1, <2>2 DEF VectorsOf
  <2> QED BY <1>8, <2>3
<1> HIDE DEF m
<1>12. c \in Callbacks /\ c.pc = "empty" /\ c.q = thr[t].q /\ c.cells = m
  <2>1. << >> \in VectorsOf(Keys) /\ 256 + new \in Replies
    BY EmptyVector DEF Replies
  <2> QED BY <1>1, <1>11, <2>1 DEF Callbacks, Locked, Moving
<1> HIDE DEF c
<1>13. thr' \in [Threads -> Callbacks] /\ thr'[t] = c /\ \A u \in Threads \ {t} : thr'[u] = thr[u]
  BY <1>9, <1>12, OneCallback
<1>14. \A i, j \in DOMAIN m : m[i].slot = m[j].slot => i = j
  BY <1>7, <1>9, <1>11, SMTT(30) DEF Resolves
<1>15. \A i \in D : m[i].cell = bucketsArray[R(t)][i] /\ m[i].slot = hash[new][thr[t].keys[i]]
  BY <1>7, <1>8, <1>11
<1>16. /\ m[SLOTS_NUM_BUCKET].cell = combine(K(t), thr[t].addr)
       /\ m[SLOTS_NUM_BUCKET].slot = hash[new][K(t)]
  BY <1>7, <1>8, <1>11
<1> HIDE DEF D
<1> QED BY <1>4, <1>9, <1>11, <1>12, <1>13, <1>14, <1>15, <1>16 DEF D

\* The gets of the row are not fresh any more; calls are otherwise as they were.
LEMMA ReseedCalls ==
  ASSUME Ground, TypeInv, CallInv, VectorInv, NEW t \in Threads, thr[t].pc = "reseed",
         NEW new \in Seeds, Searched(t, new),
         UNCHANGED <<bucketsArray, rawArray, num, mutexArray, cseed, acked>>
  PROVE  /\ TypeInv' /\ CallInv' /\ KeepKeys
         /\ \A q \in Cors :
              /\ op'[q].st = op[q].st /\ op'[q].kind = op[q].kind /\ op'[q].key = op[q].key
              /\ op'[q].slot = op[q].slot /\ op'[q].reply = op[q].reply
              /\ op'[q].fresh => op[q].fresh
              /\ op[q].st # "idle" /\ RowOf[op[q].key] = R(t) => ~op'[q].fresh
<1> DEFINE stale(q) == op[q].st # "idle" /\ RowOf[op[q].key] = R(t)
           o(q) == [op[q] EXCEPT !.fresh = FALSE]
<1>1. op' = [q \in Cors |-> IF stale(q) THEN o(q) ELSE op[q]]
  BY DEF Searched
<1>2. ASSUME NEW q \in Cors
      PROVE  /\ o(q) \in Calls /\ o(q).st = op[q].st /\ o(q).kind = op[q].kind
             /\ o(q).key = op[q].key /\ o(q).slot = op[q].slot /\ o(q).reply = op[q].reply
             /\ ~o(q).fresh
  <2>1. op[q] \in Calls
    BY DEF TypeInv
  <2>2. o(q) \in Calls
    BY <2>1 DEF Calls
  <2>3. o(q).fresh = FALSE
    BY <2>1, Zenon DEF Calls
  <2> QED BY <2>1, <2>2, <2>3 DEF Calls
<1> HIDE DEF o, stale
<1>3. \A q \in Cors : op'[q] = IF stale(q) THEN o(q) ELSE op[q]
  BY <1>1
<1>4. op' \in [Cors -> Calls]
  BY <1>1, <1>2 DEF TypeInv
<1>5. ASSUME NEW q \in Cors
      PROVE  /\ op'[q].st = op[q].st /\ op'[q].kind = op[q].kind /\ op'[q].key = op[q].key
             /\ op'[q].slot = op[q].slot /\ op'[q].reply = op[q].reply
             /\ op'[q].fresh => op[q].fresh
             /\ stale(q) => ~op'[q].fresh
  <2>1. CASE stale(q)
    BY <1>2, <1>3, <2>1
  <2>2. CASE ~stale(q)
    BY <1>3, <2>2
  <2> QED BY <2>1, <2>2
<1>6. R(t) \in Rows
  BY ServedCall
<1>7. seed' \in [Rows -> Seeds]
  BY <1>6, ReseedStep, SMTT(30) DEF TypeInv
<1>8. TypeInv'
  BY <1>4, <1>7, ReseedStep DEF TypeInv
<1>9. \A u \in Threads : /\ thr'[u].q = thr[u].q
                         /\ thr'[u].pc = "idle" <=> thr[u].pc = "idle"
                         /\ thr'[u].pc \in {"get", "data"} <=> thr[u].pc \in {"get", "data"}
  BY ReseedStep
<1>10. CallInv'
  BY <1>5, <1>9, SMTT(30) DEF CallInv
<1>11. \A u \in Threads : thr[u].pc # "idle" => thr[u].q \in Cors
  BY DEF CallInv
<1>12. KeepKeys
  BY <1>5, <1>9, <1>11, SMTT(30) DEF KeepKeys, K, R
<1> QED BY <1>5, <1>8, <1>10, <1>12 DEF stale

LEMMA EmptyStep ==
  ASSUME Ground, TypeInv, CallInv, NEW t \in Threads, empty_bucket(t)
  PROVE  /\ TypeInv' /\ CallInv' /\ KeepKeys /\ (\A u \in Threads \ {t} : thr'[u] = thr[u])
         /\ thr[t].pc = "empty" /\ thr'[t].pc = "cells" /\ thr'[t].cells = thr[t].cells
         /\ thr'[t].q = thr[t].q
         /\ \A s \in Slots : bucketsArray'[R(t)][s] = ZeroCell
         /\ \A r \in Rows : r # R(t) => bucketsArray'[r] = bucketsArray[r]
         /\ UNCHANGED <<seed, rawArray, num, mutexArray, cseed, op, acked>>
<1>1. /\ thr[t].pc = "empty" /\ Goto(t, "cells")
      /\ bucketsArray' = [bucketsArray EXCEPT ![R(t)] = [s \in Slots |-> ZeroCell]]
      /\ UNCHANGED <<seed, rawArray, num, mutexArray, cseed, op, acked>>
  BY DEF empty_bucket, At
<1>2. R(t) \in Rows
  BY <1>1, ServedCall
<1>3. ZeroCell \in CellIn
  BY IndexFacts, SMTT(30) DEF ZeroCell, CellIn, Indexes
<1>4. /\ bucketsArray' \in [Rows -> [Slots -> CellIn]]
      /\ \A s \in Slots : bucketsArray'[R(t)][s] = ZeroCell
      /\ \A r \in Rows : r # R(t) => bucketsArray'[r] = bucketsArray[r]
  BY <1>1, <1>2, <1>3 DEF TypeInv
<1>5. /\ thr' \in [Threads -> Callbacks] /\ \A u \in Threads \ {t} : thr'[u] = thr[u]
      /\ thr'[t].pc = "cells" /\ thr'[t].q = thr[t].q /\ thr'[t].cells = thr[t].cells
  BY <1>1, GotoFacts
<1>6. TypeInv'
  BY <1>1, <1>4, <1>5 DEF TypeInv
<1>7. CallInv' /\ KeepKeys
  BY <1>1, <1>5, GoOn
<1> QED BY <1>1, <1>4, <1>5, <1>6, <1>7

LEMMA WriteStep ==
  ASSUME Ground, TypeInv, CallInv, VectorInv, NEW t \in Threads, write_cell(t)
  PROVE  /\ TypeInv' /\ CallInv' /\ KeepKeys /\ (\A u \in Threads \ {t} : thr'[u] = thr[u])
         /\ thr[t].pc = "cells" /\ thr'[t].pc = "cells" /\ thr'[t].q = thr[t].q
         /\ \E i \in DOMAIN thr[t].cells :
              /\ thr[t].cells[i] \in Moved
              /\ DOMAIN thr'[t].cells = DOMAIN thr[t].cells \ {i}
              /\ \A j \in DOMAIN thr'[t].cells : thr'[t].cells[j] = thr[t].cells[j]
              /\ bucketsArray'[R(t)][thr[t].cells[i].slot] = thr[t].cells[i].cell
              /\ \A r \in Rows, s \in Slots : <<r, s>> # <<R(t), thr[t].cells[i].slot>> =>
                   bucketsArray'[r][s] = bucketsArray[r][s]
         /\ \A r \in Rows : r # R(t) => bucketsArray'[r] = bucketsArray[r]
         /\ UNCHANGED <<seed, rawArray, num, mutexArray, cseed, op, acked>>
<1>1. thr[t].pc = "cells" /\ UNCHANGED <<seed, rawArray, num, mutexArray, cseed, op, acked>>
  BY DEF write_cell, At
<1>2. PICK i \in DOMAIN thr[t].cells :
        /\ bucketsArray' = [bucketsArray EXCEPT ![R(t)][thr[t].cells[i].slot] = thr[t].cells[i].cell]
        /\ thr' = [thr EXCEPT ![t].cells = [j \in DOMAIN @ \ {i} |-> @[j]]]
  BY DEF write_cell
<1>3. R(t) \in Rows /\ thr[t].cells \in VectorsOf(Moved) /\ thr[t] \in Callbacks
  BY <1>1, ServedCall DEF VectorInv, VectorOK, Moving, TypeInv
<1>4. thr[t].cells[i] \in Moved
  BY <1>3, VectorType
<1>5. thr[t].cells[i].slot \in Slots /\ thr[t].cells[i].cell \in CellIn
  BY <1>4 DEF Moved
<1>6. /\ bucketsArray' \in [Rows -> [Slots -> CellIn]]
      /\ bucketsArray'[R(t)][thr[t].cells[i].slot] = thr[t].cells[i].cell
      /\ \A r \in Rows, s \in Slots : <<r, s>> # <<R(t), thr[t].cells[i].slot>> =>
           bucketsArray'[r][s] = bucketsArray[r][s]
      /\ \A r \in Rows : r # R(t) => bucketsArray'[r] = bucketsArray[r]
  <2>1. PICK c, x : c = thr[t].cells[i].cell /\ x = thr[t].cells[i].slot
    OBVIOUS
  <2>2. bucketsArray' = [bucketsArray EXCEPT ![R(t)][x] = c] /\ x \in Slots /\ c \in CellIn
    BY <1>2, <1>5, <2>1
  <2>3. /\ bucketsArray' \in [Rows -> [Slots -> CellIn]]
        /\ bucketsArray'[R(t)][x] = c
        /\ \A r \in Rows, s \in Slots : <<r, s>> # <<R(t), x>> =>
             bucketsArray'[r][s] = bucketsArray[r][s]
        /\ \A r \in Rows : r # R(t) => bucketsArray'[r] = bucketsArray[r]
    BY <1>3, <2>2 DEF TypeInv
  <2> QED BY <2>1, <2>3
<1> DEFINE m == [j \in DOMAIN thr[t].cells \ {i} |-> thr[t].cells[j]]
           c == [thr[t] EXCEPT !.cells = m]
<1>7. thr' = [thr EXCEPT ![t] = c]
  BY <1>2 DEF TypeInv
<1>8. /\ m \in VectorsOf(Moved) /\ DOMAIN m = DOMAIN thr[t].cells \ {i}
      /\ \A j \in DOMAIN m : m[j] = thr[t].cells[j]
  <2>1. /\ DOMAIN thr[t].cells \ {i} \in SUBSET (0 .. SLOTS_NUM_BUCKET)
        /\ \A j \in DOMAIN thr[t].cells : thr[t].cells[j] \in Moved
    BY <1>3, VectorType
  <2>2. m \in [DOMAIN thr[t].cells \ {i} -> Moved]
    BY <2>1
  <2> QED BY <2>1, <2>2 DEF VectorsOf
<1> HIDE DEF m
<1>9. c \in Callbacks /\ c.pc = "cells" /\ c.q = thr[t].q /\ c.cells = m
  BY <1>1, <1>3, <1>8 DEF Callbacks
<1> HIDE DEF c
<1>10. thr' \in [Threads -> Callbacks] /\ thr'[t] = c /\ \A u \in Threads \ {t} : thr'[u] = thr[u]
  BY <1>7, <1>9, OneCallback
<1>11. TypeInv'
  BY <1>1, <1>6, <1>10 DEF TypeInv
<1>12. thr'[t].pc = "cells" /\ thr'[t].q = thr[t].q /\ thr'[t].cells = m
  BY <1>9, <1>10
<1>13. CallInv' /\ KeepKeys
  BY <1>1, <1>10, <1>12, GoOn
<1> QED BY <1>1, <1>4, <1>6, <1>8, <1>10, <1>11, <1>12, <1>13

(***************************************************************************)
(* The mutexes.                                                            *)
(***************************************************************************)

\* Two callbacks that hold a mutex are in different rows.
LEMMA OtherRow ==
  ASSUME LockInv, NEW t \in Threads, NEW u \in Threads, t # u,
         thr[t].pc \in Locked, thr[u].pc \in Locked
  PROVE  R(t) # R(u)
BY DEF LockInv

LEMMA TakeLock ==
  ASSUME Ground, TypeInv, CallInv, LockInv, NEW t \in Threads, Put(t) \/ Update(t)
  PROVE  LockInv' /\ thr'[t].pc \in Locked /\ thr[t].pc \notin Locked /\ R(t) \in Rows
<1>1. /\ thr[t].pc \in {"put", "update"} /\ mutexArray[R(t)] = Free_
      /\ mutexArray' = [mutexArray EXCEPT ![R(t)] = t]
      /\ (\A u \in Threads \ {t} : thr'[u] = thr[u]) /\ thr'[t].pc \in {"check", "update_data"}
  BY LockStep
<1>2. thr'[t].pc \in Locked /\ thr[t].pc \notin Locked /\ thr[t].pc # "idle"
  BY <1>1, NotLocked DEF Locked, Bulk
<1>3. R(t) \in Rows /\ R(t)' = R(t)
  BY <1>2, NotLocked, ServedCall, LockTypes DEF KeepKeys
<1>4. \A u \in Threads \ {t} : thr[u].pc \in Locked => R(u)' = R(u)
  BY <1>1, NotLocked, LockTypes DEF KeepKeys
<1>5. Free_ \notin Threads /\ \A r \in Rows : mutexArray'[r] = IF r = R(t) THEN t ELSE mutexArray[r]
  BY <1>1 DEF Ground, Setting, TypeInv
<1>6. \A u \in Threads : thr[u].pc \in Locked => R(u) \in Rows
  BY NotLocked, ServedCall
<1>7. ASSUME NEW u \in Threads, thr'[u].pc \in Locked
      PROVE  mutexArray'[R(u)'] = u
  <2>1. CASE u = t
    BY <1>3, <1>5, <2>1
  <2>2. CASE u # t
    <3>1. thr[u].pc \in Locked /\ R(u)' = R(u) /\ R(u) \in Rows /\ mutexArray[R(u)] = u
      BY <1>1, <1>4, <1>6, <1>7, <2>2 DEF LockInv
    <3> QED BY <1>1, <1>5, <3>1
  <2> QED BY <2>1, <2>2
<1>8. ASSUME NEW r \in Rows, NEW u \in Threads, mutexArray'[r] = u
      PROVE  thr'[u].pc \in Locked /\ R(u)' = r
  <2>1. CASE r = R(t)
    BY <1>2, <1>3, <1>5, <1>8, <2>1
  <2>2. CASE r # R(t)
    <3>1. thr[u].pc \in Locked /\ R(u) = r
      BY <1>5, <1>8, <2>2 DEF LockInv
    <3> QED BY <1>1, <1>2, <1>4, <2>2, <3>1
  <2> QED BY <2>1, <2>2
<1> QED BY <1>2, <1>3, <1>7, <1>8 DEF LockInv

LEMMA PcSets ==
  /\ Bulk \subseteq Locked /\ Pending \subseteq Locked /\ Moving \subseteq Locked /\ Past \subseteq Bulk
  /\ Bulk \intersect Pending = {} /\ Bulk \intersect Moving = {} /\ Pending \intersect Moving = {}
  /\ "update_data" \in Locked /\ "update_data" \notin Bulk \union Pending \union Moving
  /\ "empty" \in Moving /\ "cells" \in Moving /\ "reseed" \in Pending
BY DEF Locked, Bulk, Past, Pending, Moving

LEMMA NotPast == /\ Past \intersect Pending = {} /\ Past \intersect Moving = {}
                 /\ "idle" \notin Past /\ "check" \notin Past /\ "update_data" \notin Past
BY DEF Past, Pending, Moving

\* The steps, for the two invariants.
LEMMA Steps ==
  ASSUME Ground, [Next]_vars
  PROVE  \/ UNCHANGED vars
         \/ \E q \in Cors, w \in Workload : Call(q, w[1], w[2])
         \/ \E q \in Cors : Return(q)
         \/ \E q \in Cors, t \in Threads : Begin(t, q)
         \/ \E t \in Threads :
              \/ GetAddr(t) \/ GetData(t) \/ Put(t) \/ Update(t)
              \/ update_data(t) \/ Orphan(t) \/ Reseeded(t)
              \/ BulkCheck(t) /\ num >= numElements
              \/ (BulkCheck(t) /\ ~(num >= numElements)) \/ BulkKey(t) \/ BulkData(t)
              \/ BulkCount(t) \/ Link(t) \/ Reseed(t) \/ empty_bucket(t) \/ write_cell(t)
BY DEF Next, Callback

\* A step keeps the invariant.  First what each kind of step does to the mutexes
\* (QuietLock to ReleaseLock), to what a put has read and the cells it moves
\* (.. Vectors), to the places of the addresses (.. Addrs) and to the counter
\* (.. Bound), then the kinds of steps one by one (.. IInv).
LEMMA IInvStep ==
  Ground /\ IInv /\ [Next]_vars => IInv'
<1>QuietLock.
      ASSUME LockInv, QuietStep PROVE LockInv'
  <2> USE <1>QuietLock
  <2>1. \A u \in Threads : thr'[u].pc \in Locked => mutexArray'[R(u)'] = u
    BY DEF LockInv, QuietStep
  <2>2. \A r \in Rows, u \in Threads : mutexArray'[r] = u => thr'[u].pc \in Locked /\ R(u)' = r
    BY DEF LockInv, QuietStep
  <2> QED BY <2>1, <2>2 DEF LockInv

\* A callback that goes on with its mutex.
<1>HoldLock.
      ASSUME LockInv, NEW t \in Threads, KeepKeys, UNCHANGED mutexArray,
             thr[t].pc \in Locked, thr'[t].pc \in Locked,
             \A u \in Threads \ {t} : thr'[u] = thr[u]
      PROVE  LockInv'
  <2> USE <1>HoldLock
  <2>1. \A u \in Threads : thr'[u].pc \in Locked <=> thr[u].pc \in Locked
    OBVIOUS
  <2>2. \A u \in Threads : thr[u].pc \in Locked => R(u)' = R(u)
    BY <2>1, NotLocked DEF KeepKeys
  <2>3. \A u \in Threads : thr'[u].pc \in Locked => mutexArray'[R(u)'] = u
    BY <2>1, <2>2 DEF LockInv
  <2>4. \A r \in Rows, u \in Threads : mutexArray'[r] = u => thr'[u].pc \in Locked /\ R(u)' = r
    BY <2>1, <2>2 DEF LockInv
  <2> QED BY <2>3, <2>4 DEF LockInv

<1>ReleaseLock.
      ASSUME Ground, TypeInv, CallInv, LockInv, NEW t \in Threads, KeepKeys, thr[t].pc \in Locked,
             thr'[t].pc = "idle", \A u \in Threads \ {t} : thr'[u] = thr[u],
             mutexArray' = [mutexArray EXCEPT ![R(t)] = Free_]
      PROVE  LockInv'
  <2> USE <1>ReleaseLock
  <2>1. \A u \in Threads : thr'[u].pc \in Locked => u # t /\ thr[u].pc \in Locked
    BY NotLocked
  <2>2. \A u \in Threads \ {t} : thr[u].pc \in Locked => R(u)' = R(u) /\ R(u) \in Rows /\ R(u) # R(t)
    BY NotLocked, ServedCall, OtherRow DEF KeepKeys
  <2>3. Free_ \notin Threads /\ \A r \in Rows : mutexArray'[r] = IF r = R(t) THEN Free_ ELSE mutexArray[r]
    BY DEF Ground, Setting, TypeInv
  <2>4. \A u \in Threads : thr'[u].pc \in Locked => mutexArray'[R(u)'] = u
    BY <2>1, <2>2, <2>3 DEF LockInv
  <2>5. ASSUME NEW r \in Rows, NEW u \in Threads, mutexArray'[r] = u
        PROVE  thr'[u].pc \in Locked /\ R(u)' = r
    <3>1. r # R(t) /\ mutexArray[r] = u
      BY <2>3, <2>5
    <3>2. thr[u].pc \in Locked /\ R(u) = r
      BY <3>1 DEF LockInv
    <3> QED BY <2>2, <3>1, <3>2
  <2> QED BY <2>4, <2>5 DEF LockInv

<1>UnlockedVectors.
      ASSUME NEW u \in Threads, thr'[u].pc \notin Locked
      PROVE  VectorOK(u)'
  <2> USE <1>UnlockedVectors
  <2>1. thr'[u].pc \notin Bulk \union Pending \union Moving /\ thr'[u].pc \notin {"empty", "cells"}
    BY PcSets
  <2> QED BY <2>1 DEF VectorOK

<1>SameVectors.
      ASSUME NEW u \in Threads, VectorOK(u), thr'[u] = thr[u], R(u)' = R(u),
             bucketsArray'[R(u)] = bucketsArray[R(u)]
      PROVE  VectorOK(u)'
  <2> USE <1>SameVectors
  <2>1. PICK b, r, c : b = bucketsArray[R(u)] /\ r = R(u) /\ c = thr[u]
    OBVIOUS
  <2>2. thr'[u] = c /\ R(u)' = r /\ bucketsArray'[r] = b /\ thr[u] = c /\ R(u) = r /\ bucketsArray[r] = b
    BY <2>1
  <2> QED BY <2>2, SMTT(30) DEF VectorOK, Free, read_bucket_addrs

<1>QuietVectors.
      ASSUME VectorInv, QuietStep PROVE VectorInv'
  <2> USE <1>QuietVectors
  <2>1. ASSUME NEW u \in Threads PROVE VectorOK(u)'
    <3>1. CASE thr[u].pc \in Locked
      BY <3>1, <1>SameVectors DEF VectorInv, QuietStep
    <3>2. CASE thr[u].pc \notin Locked
      BY <3>2, <1>UnlockedVectors DEF QuietStep
    <3> QED BY <3>1, <3>2
  <2> QED BY <2>1 DEF VectorInv

\* A step of t changes cells of its own row only.
<1>OtherVectors.
      ASSUME Ground, TypeInv, CallInv, LockInv, VectorInv, NEW t \in Threads, KeepKeys,
             \A u \in Threads \ {t} : thr'[u] = thr[u],
             \/ bucketsArray' = bucketsArray
             \/ thr[t].pc \in Locked /\ \A r \in Rows : r # R(t) => bucketsArray'[r] = bucketsArray[r]
      PROVE  \A u \in Threads \ {t} : VectorOK(u)'
  <2> USE <1>OtherVectors
  <2> SUFFICES ASSUME NEW u \in Threads \ {t} PROVE VectorOK(u)'
    OBVIOUS
  <2>1. CASE thr[u].pc \in Locked
    <3>1. R(u)' = R(u) /\ R(u) \in Rows
      BY <2>1, NotLocked, ServedCall DEF KeepKeys
    <3>2. bucketsArray'[R(u)] = bucketsArray[R(u)]
      BY <2>1, <3>1, OtherRow
    <3> QED BY <3>1, <3>2, <1>SameVectors DEF VectorInv
  <2>2. CASE thr[u].pc \notin Locked
    BY <2>2, <1>UnlockedVectors
  <2> QED BY <2>1, <2>2

<1>LockVectors.
      ASSUME Ground, TypeInv, CallInv, LockInv, VectorInv, NEW t \in Threads, Put(t) \/ Update(t)
      PROVE  VectorInv'
  <2> USE <1>LockVectors
  <2>1. \A u \in Threads \ {t} : VectorOK(u)'
    BY LockStep, LockTypes, <1>OtherVectors
  <2>2. VectorOK(t)'
    <3>1. thr'[t].pc \in {"check", "update_data"} /\ R(t)' = R(t) /\ bucketsArray' = bucketsArray
      BY LockStep, LockTypes DEF KeepKeys
    <3>2. /\ thr'[t].pc = "check" => thr'[t].then \in Pending
          /\ thr'[t].pc = "check" /\ thr'[t].then = "reseed" =>
               /\ thr'[t].cells = read_bucket_addrs(bucketsArray'[R(t)'])
               /\ DOMAIN thr'[t].keys = DOMAIN thr'[t].cells
      <4>1. R(t) \in Rows
        BY LockStep, ServedCall
      <4>2. DOMAIN read_batch_keys(read_bucket_addrs(bucketsArray[R(t)]))
              = DOMAIN read_bucket_addrs(bucketsArray[R(t)])
        BY <4>1, ReadVectors
      <4>3. {"link", "orphan", "reseed"} = Pending
        BY DEF Pending
      <4> QED BY <3>1, <4>2, <4>3, LockStep
    <3>3. /\ thr'[t].pc \notin Pending /\ thr'[t].pc \notin Moving /\ thr'[t].pc \notin {"empty", "cells"}
          /\ (thr'[t].pc \in Bulk => thr'[t].pc = "check")
      BY <3>1, PcSets DEF Pending, Moving
    <3> QED BY <3>2, <3>3 DEF VectorOK, read_bucket_addrs
  <2> QED BY <2>1, <2>2 DEF VectorInv

\* bulk_load_data leaves the vectors alone.
<1>BulkVectors.
      ASSUME Ground, TypeInv, CallInv, LockInv, VectorInv, NEW t \in Threads, KeepKeys,
             \A u \in Threads \ {t} : thr'[u] = thr[u], bucketsArray' = bucketsArray,
             mutexArray' = mutexArray, thr[t].pc \in Bulk,
             thr'[t].pc \in Bulk \/ (thr'[t].pc \in Pending /\ thr'[t].pc = thr[t].then),
             thr'[t].cells = thr[t].cells, thr'[t].keys = thr[t].keys, thr'[t].then = thr[t].then
      PROVE  VectorInv' /\ LockInv'
  <2> USE <1>BulkVectors
  <2>1. \A u \in Threads \ {t} : VectorOK(u)'
    BY <1>OtherVectors
  <2>2. thr[t].pc # "idle" /\ thr'[t].pc # "idle" /\ thr[t].pc \in Locked /\ thr'[t].pc \in Locked
    BY PcSets, NotLocked
  <2>3. R(t)' = R(t)
    BY <2>2 DEF KeepKeys
  <2>4. VectorOK(t)'
    <3>1. thr[t].then \in Pending
      BY DEF VectorInv, VectorOK
    <3>2. thr[t].then = "reseed" =>
               /\ thr[t].cells = read_bucket_addrs(bucketsArray[R(t)])
               /\ DOMAIN thr[t].keys = DOMAIN thr[t].cells
      BY DEF VectorInv, VectorOK
    <3>3. /\ thr'[t].pc \notin Moving /\ thr'[t].pc \notin {"empty", "cells"}
          /\ (thr'[t].pc \in Pending => thr'[t].pc = thr'[t].then)
      BY PcSets
    <3> QED BY <2>3, <3>1, <3>2, <3>3 DEF VectorOK, read_bucket_addrs
  <2>5. LockInv'
    BY <2>2, <1>HoldLock
  <2> QED BY <2>1, <2>4, <2>5 DEF VectorInv

\* A callback that ends.
<1>EndVectors.
      ASSUME Ground, TypeInv, CallInv, LockInv, VectorInv, NEW t \in Threads, KeepKeys,
             thr[t].pc \in Locked, thr'[t].pc = "idle", \A u \in Threads \ {t} : thr'[u] = thr[u],
             \A r \in Rows : r # R(t) => bucketsArray'[r] = bucketsArray[r]
      PROVE  VectorInv'
  <2> USE <1>EndVectors
  <2>1. \A u \in Threads \ {t} : VectorOK(u)'
    BY <1>OtherVectors
  <2>2. VectorOK(t)'
    BY NotLocked, <1>UnlockedVectors
  <2> QED BY <2>1, <2>2 DEF VectorInv

<1>ReseedVectors.
      ASSUME Ground, TypeInv, CallInv, LockInv, VectorInv, NEW t \in Threads, thr[t].pc = "reseed",
             NEW new \in Seeds, Searched(t, new),
             UNCHANGED <<bucketsArray, rawArray, num, mutexArray, cseed, acked>>
      PROVE  VectorInv' /\ LockInv'
  <2> USE <1>ReseedVectors
  <2>1. KeepKeys /\ (\A u \in Threads \ {t} : thr'[u] = thr[u]) /\ thr'[t].pc = "empty"
    BY ReseedStep, ReseedCalls
  <2>2. thr[t].pc \in Locked /\ thr'[t].pc \in Locked /\ R(t)' = R(t)
    BY <2>1, PcSets DEF KeepKeys
  <2>3. LockInv'
    BY <2>1, <2>2, <1>HoldLock
  <2>4. \A u \in Threads \ {t} : VectorOK(u)'
    BY <2>1, <1>OtherVectors
  <2>5. ASSUME NEW i \in DOMAIN thr'[t].cells PROVE thr'[t].cells[i].cell.length = 1
    <3>1. CASE i = SLOTS_NUM_BUCKET
      <4>1. thr'[t].cells[i].cell = combine(K(t), thr[t].addr)
        BY <3>1, ReseedStep
      <4> QED BY <4>1, SMTT(30) DEF combine
    <3>2. CASE i # SLOTS_NUM_BUCKET
      <4>1. i \in DOMAIN thr[t].cells
        BY <3>2, ReseedStep
      <4>2. thr'[t].cells[i].cell = bucketsArray[R(t)][i] /\ i \in Slots /\ ~Free(bucketsArray[R(t)], i)
        BY <4>1, ReseedStep
      <4>3. bucketsArray[R(t)][i] \in CellIn
        BY <4>2, ServedCall, SMTT(30) DEF TypeInv
      <4> QED BY <4>2, <4>3 DEF Free, CellIn
    <3> QED BY <3>1, <3>2
  <2>6. \A s \in Slots : ~Free(bucketsArray[R(t)], s) =>
           s \in DOMAIN thr'[t].cells /\ thr'[t].cells[s].cell = bucketsArray[R(t)][s]
    BY ReseedStep
  <2>7. VectorOK(t)'
    <3>1. thr'[t].pc \notin Bulk /\ thr'[t].pc \notin Pending /\ thr'[t].pc # "cells"
      BY <2>1, PcSets
    <3>2. /\ thr'[t].cells \in VectorsOf(Moved)
          /\ \A i, j \in DOMAIN thr'[t].cells : thr'[t].cells[i].slot = thr'[t].cells[j].slot => i = j
      BY ReseedStep
    <3> QED BY <2>2, <2>5, <2>6, <3>1, <3>2 DEF VectorOK, Free
  <2> QED BY <2>3, <2>4, <2>7 DEF VectorInv

<1>EmptyVectors.
      ASSUME Ground, TypeInv, CallInv, LockInv, VectorInv, NEW t \in Threads, empty_bucket(t)
      PROVE  VectorInv' /\ LockInv'
  <2> USE <1>EmptyVectors
  <2>1. /\ KeepKeys /\ (\A u \in Threads \ {t} : thr'[u] = thr[u]) /\ thr[t].pc = "empty"
        /\ thr'[t].pc = "cells" /\ thr'[t].cells = thr[t].cells /\ mutexArray' = mutexArray
        /\ \A r \in Rows : r # R(t) => bucketsArray'[r] = bucketsArray[r]
    BY EmptyStep
  <2>2. thr[t].pc \in Locked /\ thr'[t].pc \in Locked /\ R(t)' = R(t)
    BY <2>1, PcSets DEF KeepKeys
  <2>3. LockInv'
    BY <2>1, <2>2, <1>HoldLock
  <2>4. \A u \in Threads \ {t} : VectorOK(u)'
    BY <2>1, <2>2, <1>OtherVectors
  <2>5. VectorOK(t)'
    <3>1. thr'[t].pc \notin Bulk /\ thr'[t].pc \notin Pending /\ thr'[t].pc # "empty"
      BY <2>1, PcSets
    <3>2. /\ thr[t].cells \in VectorsOf(Moved)
          /\ \A i, j \in DOMAIN thr[t].cells : thr[t].cells[i].slot = thr[t].cells[j].slot => i = j
          /\ \A i \in DOMAIN thr[t].cells : thr[t].cells[i].cell.length = 1
      BY <2>1, PcSets, SMTT(30) DEF VectorInv, VectorOK
    <3>3. \A i \in DOMAIN thr[t].cells : thr[t].cells[i].slot \in Slots
      <4>1. \A i \in DOMAIN thr[t].cells : thr[t].cells[i] \in Moved
        BY <3>2, VectorType
      <4> QED BY <4>1 DEF Moved
    <3>4. \A s \in Slots : bucketsArray'[R(t)][s].length = 0
      BY EmptyStep, SMTT(30) DEF ZeroCell
    <3>5. \A i \in DOMAIN thr[t].cells : bucketsArray'[R(t)][thr[t].cells[i].slot].length = 0
      BY <3>3, <3>4
    <3> QED BY <2>1, <2>2, <3>1, <3>2, <3>5 DEF VectorOK, Free
  <2> QED BY <2>3, <2>4, <2>5 DEF VectorInv

<1>WriteVectors.
      ASSUME Ground, TypeInv, CallInv, LockInv, VectorInv, NEW t \in Threads, write_cell(t)
      PROVE  VectorInv' /\ LockInv'
  <2> USE <1>WriteVectors
  <2>1. /\ KeepKeys /\ (\A u \in Threads \ {t} : thr'[u] = thr[u]) /\ thr[t].pc = "cells"
        /\ thr'[t].pc = "cells" /\ mutexArray' = mutexArray /\ TypeInv'
        /\ \A r \in Rows : r # R(t) => bucketsArray'[r] = bucketsArray[r]
    BY WriteStep
  <2>2. thr[t].pc \in Locked /\ thr'[t].pc \in Locked /\ R(t)' = R(t) /\ R(t) \in Rows
    BY <2>1, PcSets, ServedCall DEF KeepKeys
  <2>3. LockInv'
    BY <2>1, <2>2, <1>HoldLock
  <2>4. \A u \in Threads \ {t} : VectorOK(u)'
    BY <2>1, <2>2, <1>OtherVectors
  <2>5. PICK i \in DOMAIN thr[t].cells :
          /\ DOMAIN thr'[t].cells = DOMAIN thr[t].cells \ {i}
          /\ \A j \in DOMAIN thr'[t].cells : thr'[t].cells[j] = thr[t].cells[j]
          /\ \A r \in Rows, s \in Slots : <<r, s>> # <<R(t), thr[t].cells[i].slot>> =>
               bucketsArray'[r][s] = bucketsArray[r][s]
    BY WriteStep
  <2>6. /\ thr[t].cells \in VectorsOf(Moved)
        /\ \A j, k \in DOMAIN thr[t].cells : thr[t].cells[j].slot = thr[t].cells[k].slot => j = k
        /\ \A j \in DOMAIN thr[t].cells : thr[t].cells[j].cell.length = 1
        /\ \A j \in DOMAIN thr[t].cells : bucketsArray[R(t)][thr[t].cells[j].slot].length = 0
    BY <2>1, PcSets, SMTT(30) DEF VectorInv, VectorOK, Free
  <2>7. \A j \in DOMAIN thr[t].cells : thr[t].cells[j] \in Moved
    BY <2>6, VectorType
  <2>8. thr'[t].cells \in VectorsOf(Moved)
    <3>1. thr'[t].cells \in VectorsOf(CellIn) \union VectorsOf(Moved)
      BY <2>1 DEF TypeInv, Callbacks
    <3>2. /\ thr'[t].cells = [j \in DOMAIN thr'[t].cells |-> thr'[t].cells[j]]
          /\ DOMAIN thr'[t].cells \subseteq 0 .. SLOTS_NUM_BUCKET
      BY <3>1, VectorType, SMTT(30)
    <3>3. \A j \in DOMAIN thr'[t].cells : thr'[t].cells[j] \in Moved
      BY <2>5, <2>7
    <3> QED BY <3>2, <3>3, VectorType
  <2>9. ASSUME NEW j \in DOMAIN thr'[t].cells
        PROVE  thr'[t].cells[j].cell.length = 1 /\ bucketsArray'[R(t)][thr'[t].cells[j].slot].length = 0
    <3>1. j \in DOMAIN thr[t].cells /\ j # i /\ thr'[t].cells[j] = thr[t].cells[j]
      BY <2>5
    <3>2. thr[t].cells[j].slot \in Slots /\ thr[t].cells[j].slot # thr[t].cells[i].slot
      BY <2>6, <2>7, <3>1 DEF Moved
    <3>3. bucketsArray'[R(t)][thr[t].cells[j].slot] = bucketsArray[R(t)][thr[t].cells[j].slot]
      BY <2>2, <2>5, <3>2
    <3> QED BY <2>6, <3>1, <3>3
  <2>10. \A j, k \in DOMAIN thr'[t].cells : thr'[t].cells[j].slot = thr'[t].cells[k].slot => j = k
    BY <2>5, <2>6
  <2>11. VectorOK(t)'
    <3>1. thr'[t].pc \notin Bulk /\ thr'[t].pc \notin Pending /\ thr'[t].pc # "empty"
      BY <2>1, PcSets
    <3> QED BY <2>2, <2>8, <2>9, <2>10, <3>1 DEF VectorOK, Free
  <2> QED BY <2>3, <2>4, <2>11 DEF VectorInv

<1>AddrNat.
      ASSUME TypeInv, NEW t \in Threads
      PROVE  thr[t].addr \in Indexes /\ thr[t].addr \in Nat
  <2> USE <1>AddrNat
  <2>1. thr[t].addr \in Indexes
    BY DEF TypeInv, Callbacks
  <2>2. Indexes \subseteq Nat
    BY SMTT(30) DEF Indexes
  <2> QED BY <2>1, <2>2

\* No address gets a place it did not have.
<1>SameAddrs.
      ASSUME AddrInv, num \in Nat, num' \in Nat, num <= num',
             \A a \in Nat, r \in Rows, s \in Slots : CellAt(r, s, a)' => CellAt(r, s, a),
             \A a \in Nat, u \in Threads : Pend(u, a)' => Pend(u, a),
             \A a \in Nat, u \in Threads, i \in Nat : Move(u, i, a)' => Move(u, i, a),
             \A a \in Nat, u \in Threads, i \in Nat, r \in Rows, s \in Slots :
               Move(u, i, a)' /\ CellAt(r, s, a)' => thr'[u].pc = "empty" /\ R(u)' = r /\ s = i
      PROVE  AddrInv'
  <2> USE <1>SameAddrs
  <2>1. \A a \in Nat : a < num => a < num'
    BY SMTT(30)
  <2>2. \A a \in Nat, r \in Rows, s \in Slots : CellAt(r, s, a)' =>
           a < num' /\ \A p \in Rows, x \in Slots : CellAt(p, x, a)' => p = r /\ x = s
    BY <2>1, SMTT(30) DEF AddrInv
  <2>3. \A a \in Nat, t \in Threads : Pend(t, a)' =>
           /\ a < num' /\ \A u \in Threads : Pend(u, a)' => u = t
           /\ \A r \in Rows, s \in Slots : ~CellAt(r, s, a)'
           /\ \A u \in Threads, i \in Nat : ~Move(u, i, a)'
    BY <2>1, SMTT(30) DEF AddrInv
  <2>4. \A a \in Nat, t \in Threads, i \in Nat : Move(t, i, a)' =>
           /\ a < num' /\ \A u \in Threads, j \in Nat : Move(u, j, a)' => u = t /\ j = i
           /\ \A r \in Rows, s \in Slots : CellAt(r, s, a)' => thr'[t].pc = "empty" /\ R(t)' = r /\ s = i
    BY <2>1, SMTT(30) DEF AddrInv
  <2> QED BY <2>2, <2>3, <2>4 DEF AddrInv

\* Threads that are neither about to link nor moving before and after a step.
<1>FrameAddrs.
      ASSUME TypeInv, AddrInv, UNCHANGED <<bucketsArray, num>>,
             \A u \in Threads : \/ thr'[u] = thr[u] /\ R(u)' = R(u)
                                \/ thr'[u].pc \notin Pending \union Moving
      PROVE  AddrInv'
  <2> USE <1>FrameAddrs
  <2>1. num \in Nat /\ num' \in Nat /\ num <= num'
    BY SMTT(30) DEF TypeInv
  <2>2. \A a \in Nat, r \in Rows, s \in Slots : CellAt(r, s, a)' => CellAt(r, s, a)
    BY DEF CellAt
  <2>3. \A a \in Nat, u \in Threads : Pend(u, a)' => Pend(u, a)
    BY DEF Pend
  <2>4. \A a \in Nat, u \in Threads, i \in Nat : Move(u, i, a)' =>
          Move(u, i, a) /\ thr'[u] = thr[u] /\ R(u)' = R(u)
    BY DEF Move
  <2>5. \A a \in Nat, u \in Threads, i \in Nat, r \in Rows, s \in Slots :
             Move(u, i, a)' /\ CellAt(r, s, a)' => thr'[u].pc = "empty" /\ R(u)' = r /\ s = i
    BY <2>2, <2>4, SMTT(30) DEF AddrInv
  <2> QED BY <2>1, <2>2, <2>3, <2>4, <2>5, <1>SameAddrs

<1>OthersKeep.
      ASSUME KeepKeys, NEW t \in Threads, \A u \in Threads \ {t} : thr'[u] = thr[u]
      PROVE  \A u \in Threads \ {t} : \/ thr'[u] = thr[u] /\ R(u)' = R(u)
                                      \/ thr'[u].pc \notin Pending \union Moving
  BY <1>OthersKeep, PcSets, NotLocked DEF KeepKeys

<1>QuietAddrs.
      ASSUME TypeInv, AddrInv, QuietStep PROVE AddrInv'
  <2> USE <1>QuietAddrs
  <2>1. ASSUME NEW u \in Threads
        PROVE  \/ thr'[u] = thr[u] /\ R(u)' = R(u)
               \/ thr'[u].pc \notin Pending \union Moving
    BY PcSets DEF QuietStep
  <2>2. UNCHANGED <<bucketsArray, num>>
    BY DEF QuietStep
  <2> QED BY <2>1, <2>2, <1>FrameAddrs

\* Steps of t that give no address away.
<1>OwnAddrs.
      ASSUME TypeInv, AddrInv, KeepKeys, NEW t \in Threads, \A u \in Threads \ {t} : thr'[u] = thr[u],
             UNCHANGED <<bucketsArray, num>>, thr'[t].pc \notin Pending \union Moving
      PROVE  AddrInv'
  <2> USE <1>OwnAddrs
  <2>1. \A u \in Threads : \/ thr'[u] = thr[u] /\ R(u)' = R(u)
                           \/ thr'[u].pc \notin Pending \union Moving
    BY <1>OthersKeep
  <2> QED BY <2>1, <1>FrameAddrs

\* num ++: the address was with nobody.
<1>CountAddrs.
      ASSUME Ground, TypeInv, CallInv, VectorInv, BoundInv, AddrInv, NEW t \in Threads, BulkCount(t)
      PROVE  AddrInv'
  <2> USE <1>CountAddrs
  <2>1. /\ num' = num + 1 /\ num \in Nat /\ bucketsArray' = bucketsArray /\ KeepKeys
        /\ \A u \in Threads \ {t} : thr'[u] = thr[u]
        /\ thr'[t].pc \in Pending /\ thr'[t].addr = num
    BY CountStep DEF TypeInv
  <2>2. thr'[t].pc \notin Moving
    BY <2>1, PcSets
  <2>3. \A a \in Nat : (a < num => a < num') /\ (a < num => a # num) /\ num < num'
    BY <2>1, SMTT(30)
  <2>4. \A a \in Nat, r \in Rows, s \in Slots : CellAt(r, s, a)' <=> CellAt(r, s, a)
    BY <2>1 DEF CellAt
  <2>5. \A a \in Nat, u \in Threads : Pend(u, a)' => (u = t /\ a = num) \/ (u # t /\ Pend(u, a))
    BY <2>1 DEF Pend
  <2>6. \A a \in Nat, u \in Threads, i \in Nat : Move(u, i, a)' =>
          Move(u, i, a) /\ thr'[u] = thr[u] /\ R(u)' = R(u)
    BY <2>1, <2>2, <1>OthersKeep DEF Move
  <2>7. \A a \in Nat, r \in Rows, s \in Slots : CellAt(r, s, a)' =>
           a < num' /\ \A p \in Rows, x \in Slots : CellAt(p, x, a)' => p = r /\ x = s
    BY <2>3, <2>4, SMTT(30) DEF AddrInv
  <2>8. ASSUME NEW a \in Nat, NEW u \in Threads, Pend(u, a)'
        PROVE  /\ a < num' /\ \A v \in Threads : Pend(v, a)' => v = u
               /\ \A r \in Rows, s \in Slots : ~CellAt(r, s, a)'
               /\ \A v \in Threads, i \in Nat : ~Move(v, i, a)'
    <3>1. CASE u = t /\ a = num
      BY <2>3, <2>4, <2>5, <2>6, <3>1, SMTT(30) DEF AddrInv
    <3>2. CASE u # t /\ Pend(u, a)
      BY <2>3, <2>4, <2>5, <2>6, <3>2, SMTT(30) DEF AddrInv
    <3> QED BY <2>5, <2>8, <3>1, <3>2
  <2>9. ASSUME NEW a \in Nat, NEW u \in Threads, NEW i \in Nat, Move(u, i, a)'
        PROVE  /\ a < num' /\ \A v \in Threads, j \in Nat : Move(v, j, a)' => v = u /\ j = i
               /\ \A r \in Rows, s \in Slots : CellAt(r, s, a)' => thr'[u].pc = "empty" /\ R(u)' = r /\ s = i
    BY <2>3, <2>4, <2>6, <2>9, SMTT(30) DEF AddrInv
  <2> QED BY <2>7, <2>8, <2>9 DEF AddrInv

\* The cell is written: the address goes from the callback to the cell.
<1>LinkAddrs.
      ASSUME Ground, TypeInv, CallInv, AddrInv, NEW t \in Threads, Link(t)
      PROVE  AddrInv'
  <2> USE <1>LinkAddrs
  <2> DEFINE b == thr[t].addr
             x == slot(t)
  <2>1. /\ num' = num /\ num \in Nat /\ KeepKeys /\ \A u \in Threads \ {t} : thr'[u] = thr[u]
        /\ thr[t].pc = "link" /\ thr'[t].pc = "idle"
        /\ bucketsArray'[R(t)][x] = combine(K(t), b)
        /\ \A r \in Rows, s \in Slots : <<r, s>> # <<R(t), x>> => bucketsArray'[r][s] = bucketsArray[r][s]
    BY LinkStep DEF TypeInv
  <2>2. thr[t].pc \in Pending /\ b \in Nat /\ Pend(t, b)
    BY <2>1, <1>AddrNat DEF Pending, Pend
  <2>3. /\ b < num /\ \A u \in Threads : Pend(u, b) => u = t
        /\ \A r \in Rows, s \in Slots : ~CellAt(r, s, b)
        /\ \A u \in Threads, i \in Nat : ~Move(u, i, b)
    BY <2>2 DEF AddrInv
  <2>4. \A a \in Nat, r \in Rows, s \in Slots : CellAt(r, s, a)' =>
          (a = b /\ r = R(t) /\ s = x) \/ CellAt(r, s, a)
    BY <2>1, SMTT(30) DEF CellAt, combine
  <2>5. thr'[t].pc \notin Pending /\ thr'[t].pc \notin Moving
    BY <2>1, PcSets, NotLocked
  <2>6. \A a \in Nat, u \in Threads : Pend(u, a)' => u # t /\ Pend(u, a)
    BY <2>1, <2>5 DEF Pend
  <2>7. \A a \in Nat, u \in Threads, i \in Nat : Move(u, i, a)' =>
          Move(u, i, a) /\ thr'[u] = thr[u] /\ R(u)' = R(u)
    BY <2>1, <2>5, <1>OthersKeep DEF Move
  <2> HIDE DEF b, x
  <2>8. \A a \in Nat, r \in Rows, s \in Slots : CellAt(r, s, a)' =>
           a < num' /\ \A p \in Rows, y \in Slots : CellAt(p, y, a)' => p = r /\ y = s
    BY <2>1, <2>3, <2>4, SMTT(30) DEF AddrInv
  <2>9. ASSUME NEW a \in Nat, NEW u \in Threads, Pend(u, a)'
        PROVE  /\ a < num' /\ \A v \in Threads : Pend(v, a)' => v = u
               /\ \A r \in Rows, s \in Slots : ~CellAt(r, s, a)'
               /\ \A v \in Threads, i \in Nat : ~Move(v, i, a)'
    <3>1. Pend(u, a) /\ u # t /\ a # b
      BY <2>3, <2>6, <2>9
    <3> QED BY <2>1, <2>4, <2>6, <2>7, <3>1 DEF AddrInv
  <2>10. ASSUME NEW a \in Nat, NEW u \in Threads, NEW i \in Nat, Move(u, i, a)'
        PROVE  /\ a < num' /\ \A v \in Threads, j \in Nat : Move(v, j, a)' => v = u /\ j = i
               /\ \A r \in Rows, s \in Slots : CellAt(r, s, a)' => thr'[u].pc = "empty" /\ R(u)' = r /\ s = i
    <3>1. Move(u, i, a) /\ a # b /\ thr'[u] = thr[u] /\ R(u)' = R(u)
      BY <2>3, <2>7, <2>10
    <3> QED BY <2>1, <2>4, <2>7, <3>1, SMTT(30) DEF AddrInv
  <2> QED BY <2>8, <2>9, <2>10 DEF AddrInv

\* The search has succeeded: the address, and those of the cells of the row, are
\* with the callback.
<1>ReseedAddrs.
      ASSUME Ground, TypeInv, CallInv, LockInv, VectorInv, AddrInv, NEW t \in Threads,
             thr[t].pc = "reseed", NEW new \in Seeds, Searched(t, new),
             UNCHANGED <<bucketsArray, rawArray, num, mutexArray, cseed, acked>>
      PROVE  AddrInv'
  <2> USE <1>ReseedAddrs
  <2> DEFINE b == thr[t].addr
             N == SLOTS_NUM_BUCKET
  <2>1. /\ num' = num /\ num \in Nat /\ KeepKeys /\ \A u \in Threads \ {t} : thr'[u] = thr[u]
        /\ thr'[t].pc = "empty" /\ R(t) \in Rows /\ R(t)' = R(t) /\ N \notin Slots
    BY ReseedStep, ReseedCalls, ServedCall, ConstantFacts DEF TypeInv, KeepKeys
  <2>2. thr[t].pc \in Pending /\ thr'[t].pc \notin Pending /\ b \in Nat /\ Pend(t, b)
    BY <2>1, <1>AddrNat, PcSets DEF Pend
  <2>3. /\ b < num /\ \A u \in Threads : Pend(u, b) => u = t
        /\ \A r \in Rows, s \in Slots : ~CellAt(r, s, b)
        /\ \A u \in Threads, i \in Nat : ~Move(u, i, b)
    BY <2>2 DEF AddrInv
  <2>4. \A a \in Nat, r \in Rows, s \in Slots : CellAt(r, s, a)' <=> CellAt(r, s, a)
    BY DEF CellAt
  <2>5. \A a \in Nat, u \in Threads : Pend(u, a)' => u # t /\ Pend(u, a)
    BY <2>1, <2>2 DEF Pend
  <2>6. \A a \in Nat, u \in Threads, i \in Nat : Move(u, i, a)' /\ u # t =>
          Move(u, i, a) /\ thr'[u] = thr[u] /\ R(u)' = R(u)
    BY <2>1, <1>OthersKeep DEF Move
  <2>7. ASSUME NEW a \in Nat, NEW i \in Nat, Move(t, i, a)'
        PROVE  (i = N /\ a = b) \/ (i \in Slots /\ CellAt(R(t), i, a))
    <3>1. i \in DOMAIN thr'[t].cells /\ thr'[t].cells[i].cell.addr = a
      BY <2>7 DEF Move
    <3>2. CASE i = N
      <4>1. thr'[t].cells[i].cell = combine(K(t), b)
        BY <3>2, ReseedStep
      <4> QED BY <3>1, <3>2, <4>1, SMTT(30) DEF combine
    <3>3. CASE i # N
      <4>1. i \in DOMAIN thr[t].cells
        BY <3>1, <3>3, ReseedStep
      <4>2. thr'[t].cells[i].cell = bucketsArray[R(t)][i] /\ i \in Slots /\ ~Free(bucketsArray[R(t)], i)
        BY <4>1, ReseedStep
      <4>3. bucketsArray[R(t)][i] \in CellIn
        BY <2>1, <4>2 DEF TypeInv
      <4>4. bucketsArray[R(t)][i].length = 1
        BY <4>2, <4>3 DEF Free, CellIn
      <4> QED BY <3>1, <4>2, <4>4 DEF CellAt
    <3> QED BY <3>2, <3>3
  \* No other callback moves what a cell of the row leads to.
  <2>8. \A a \in Nat, u \in Threads, i \in Nat, s \in Slots :
          u # t /\ Move(u, i, a) => ~CellAt(R(t), s, a)
    <3>1. \A u \in Threads : u # t /\ thr[u].pc = "empty" => R(u) # R(t)
      BY <2>2, PcSets, OtherRow
    <3> QED BY <2>1, <3>1 DEF AddrInv
  <2> HIDE DEF b, N
  <2>9. \A a \in Nat, r \in Rows, s \in Slots : CellAt(r, s, a)' =>
           a < num' /\ \A p \in Rows, y \in Slots : CellAt(p, y, a)' => p = r /\ y = s
    BY <2>1, <2>4, SMTT(30) DEF AddrInv
  <2>10. ASSUME NEW a \in Nat, NEW u \in Threads, Pend(u, a)'
        PROVE  /\ a < num' /\ \A v \in Threads : Pend(v, a)' => v = u
               /\ \A r \in Rows, s \in Slots : ~CellAt(r, s, a)'
               /\ \A v \in Threads, i \in Nat : ~Move(v, i, a)'
    <3>1. Pend(u, a) /\ u # t /\ a # b
      BY <2>3, <2>5, <2>10
    <3>2. /\ a < num /\ \A v \in Threads : Pend(v, a) => v = u
          /\ \A r \in Rows, s \in Slots : ~CellAt(r, s, a)
          /\ \A v \in Threads, i \in Nat : ~Move(v, i, a)
      BY <3>1 DEF AddrInv
    <3> QED BY <2>1, <2>4, <2>5, <2>6, <2>7, <3>1, <3>2
  <2>11. ASSUME NEW a \in Nat, NEW u \in Threads, NEW i \in Nat, Move(u, i, a)'
        PROVE  /\ a < num' /\ \A v \in Threads, j \in Nat : Move(v, j, a)' => v = u /\ j = i
               /\ \A r \in Rows, s \in Slots : CellAt(r, s, a)' => thr'[u].pc = "empty" /\ R(u)' = r /\ s = i
    <3>1. CASE u = t /\ i = N /\ a = b
      BY <2>1, <2>3, <2>4, <2>6, <2>7, <3>1, SMTT(30)
    <3>2. CASE u = t /\ i \in Slots /\ CellAt(R(t), i, a)
      <4>1. /\ a < num /\ a # b
            /\ \A p \in Rows, y \in Slots : CellAt(p, y, a) => p = R(t) /\ y = i
        BY <2>1, <2>3, <3>2, SMTT(30) DEF AddrInv
      <4>2. \A v \in Threads, j \in Nat : Move(v, j, a)' => v = u /\ j = i
        BY <2>1, <2>6, <2>7, <2>8, <3>2, <4>1, SMTT(30)
      <4> QED BY <2>1, <2>4, <3>2, <4>1, <4>2
    <3>3. CASE u # t
      <4>1. Move(u, i, a) /\ a # b /\ thr'[u] = thr[u] /\ R(u)' = R(u)
        BY <2>3, <2>6, <2>11, <3>3
      <4>2. \A v \in Threads, j \in Nat : Move(v, j, a)' => v # t
        BY <2>7, <2>8, <3>3, <4>1
      <4> QED BY <2>1, <2>4, <2>6, <4>1, <4>2, SMTT(30) DEF AddrInv
    <3> QED BY <2>7, <2>11, <3>1, <3>2, <3>3
  <2> QED BY <2>9, <2>10, <2>11 DEF AddrInv

\* The old cells go; their addresses are with the callback.
<1>EmptyAddrs.
      ASSUME Ground, TypeInv, CallInv, AddrInv, NEW t \in Threads, empty_bucket(t)
      PROVE  AddrInv'
  <2> USE <1>EmptyAddrs
  <2>1. /\ num' = num /\ num \in Nat /\ KeepKeys /\ \A u \in Threads \ {t} : thr'[u] = thr[u]
        /\ thr[t].pc = "empty" /\ thr'[t].pc = "cells" /\ thr'[t].cells = thr[t].cells
        /\ \A s \in Slots : bucketsArray'[R(t)][s] = ZeroCell
        /\ \A r \in Rows : r # R(t) => bucketsArray'[r] = bucketsArray[r]
    BY EmptyStep DEF TypeInv
  <2>2. \A a \in Nat, r \in Rows, s \in Slots : CellAt(r, s, a)' => r # R(t) /\ CellAt(r, s, a)
    BY <2>1, SMTT(30) DEF CellAt, ZeroCell
  <2>3. thr'[t].pc \notin Pending /\ thr[t].pc \in Moving
    BY <2>1, PcSets
  <2>4. \A a \in Nat, u \in Threads : Pend(u, a)' => Pend(u, a)
    BY <2>1, <2>3 DEF Pend
  <2>5. \A a \in Nat, u \in Threads, i \in Nat : Move(u, i, a)' => Move(u, i, a)
    BY <2>1, <2>3 DEF Move
  <2>6. \A a \in Nat, u \in Threads, i \in Nat : u # t /\ Move(u, i, a)' => thr'[u] = thr[u] /\ R(u)' = R(u)
    BY <2>1, <1>OthersKeep DEF Move
  <2>7. \A a \in Nat, u \in Threads, i \in Nat, r \in Rows, s \in Slots :
             Move(u, i, a)' /\ CellAt(r, s, a)' => thr'[u].pc = "empty" /\ R(u)' = r /\ s = i
    BY <2>2, <2>5, <2>6, SMTT(30) DEF AddrInv
  <2>8. num' \in Nat /\ num <= num'
    BY <2>1, SMTT(30)
  <2> QED BY <2>1, <2>2, <2>4, <2>5, <2>7, <2>8, <1>SameAddrs

\* One of the moved cells is written.
<1>WriteAddrs.
      ASSUME Ground, TypeInv, CallInv, VectorInv, AddrInv, NEW t \in Threads, write_cell(t)
      PROVE  AddrInv'
  <2> USE <1>WriteAddrs
  <2>1. /\ num' = num /\ num \in Nat /\ KeepKeys /\ \A u \in Threads \ {t} : thr'[u] = thr[u]
        /\ thr[t].pc = "cells" /\ thr'[t].pc = "cells"
    BY WriteStep DEF TypeInv
  <2>2. PICK i \in DOMAIN thr[t].cells :
          /\ thr[t].cells[i] \in Moved
          /\ DOMAIN thr'[t].cells = DOMAIN thr[t].cells \ {i}
          /\ \A j \in DOMAIN thr'[t].cells : thr'[t].cells[j] = thr[t].cells[j]
          /\ bucketsArray'[R(t)][thr[t].cells[i].slot] = thr[t].cells[i].cell
          /\ \A r \in Rows, s \in Slots : <<r, s>> # <<R(t), thr[t].cells[i].slot>> =>
               bucketsArray'[r][s] = bucketsArray[r][s]
    BY WriteStep
  <2> DEFINE b == thr[t].cells[i].cell.addr
             x == thr[t].cells[i].slot
  <2>3. i \in Nat /\ b \in Nat
    <3>1. thr[t].cells \in VectorsOf(Moved)
      BY <2>1, PcSets, SMTT(30) DEF VectorInv, VectorOK
    <3>2. DOMAIN thr[t].cells \subseteq 0 .. SLOTS_NUM_BUCKET
      BY <3>1, VectorType
    <3>3. i \in Nat
      BY <3>2, SMTT(30)
    <3>4. b \in Indexes /\ Indexes \subseteq Nat
      BY <2>2, SMTT(30) DEF Moved, CellIn, Indexes
    <3> QED BY <3>3, <3>4
  <2>4. Move(t, i, b)
    BY <2>1, PcSets DEF Move
  <2>5. /\ b < num /\ \A u \in Threads, j \in Nat : Move(u, j, b) => u = t /\ j = i
        /\ \A r \in Rows, s \in Slots : ~CellAt(r, s, b)
    BY <2>1, <2>3, <2>4, SMTT(30) DEF AddrInv
  <2>6. \A u \in Threads : ~Pend(u, b)
    BY <2>3, <2>4 DEF AddrInv
  <2>7. \A a \in Nat, r \in Rows, s \in Slots : CellAt(r, s, a)' =>
          (a = b /\ r = R(t) /\ s = x) \/ CellAt(r, s, a)
    BY <2>2 DEF CellAt
  <2>8. thr'[t].pc \notin Pending
    BY <2>1, PcSets
  <2>9. \A a \in Nat, u \in Threads : Pend(u, a)' => Pend(u, a)
    BY <2>1, <2>8 DEF Pend
  <2>10. \A a \in Nat, u \in Threads, j \in Nat : Move(u, j, a)' => Move(u, j, a) /\ ~(u = t /\ j = i)
    BY <2>1, <2>2 DEF Move
  <2>11. \A a \in Nat, u \in Threads, j \in Nat : u # t /\ Move(u, j, a)' => thr'[u] = thr[u] /\ R(u)' = R(u)
    BY <2>1, <1>OthersKeep DEF Move
  <2> HIDE DEF b, x
  <2>12. \A a \in Nat, r \in Rows, s \in Slots : CellAt(r, s, a)' =>
           a < num' /\ \A p \in Rows, y \in Slots : CellAt(p, y, a)' => p = r /\ y = s
    BY <2>1, <2>5, <2>7, SMTT(30) DEF AddrInv
  <2>13. ASSUME NEW a \in Nat, NEW u \in Threads, Pend(u, a)'
        PROVE  /\ a < num' /\ \A v \in Threads : Pend(v, a)' => v = u
               /\ \A r \in Rows, s \in Slots : ~CellAt(r, s, a)'
               /\ \A v \in Threads, j \in Nat : ~Move(v, j, a)'
    <3>1. Pend(u, a) /\ a # b
      BY <2>6, <2>9, <2>13
    <3>2. /\ a < num /\ \A v \in Threads : Pend(v, a) => v = u
          /\ \A r \in Rows, s \in Slots : ~CellAt(r, s, a)
          /\ \A v \in Threads, j \in Nat : ~Move(v, j, a)
      BY <3>1 DEF AddrInv
    <3> QED BY <2>1, <2>7, <2>9, <2>10, <3>1, <3>2
  <2>14. ASSUME NEW a \in Nat, NEW u \in Threads, NEW j \in Nat, Move(u, j, a)'
        PROVE  /\ a < num' /\ \A v \in Threads, k \in Nat : Move(v, k, a)' => v = u /\ k = j
               /\ \A r \in Rows, s \in Slots : CellAt(r, s, a)' => thr'[u].pc = "empty" /\ R(u)' = r /\ s = j
    <3>1. Move(u, j, a) /\ a # b
      BY <2>5, <2>10, <2>14
    <3>2. /\ a < num /\ \A v \in Threads, k \in Nat : Move(v, k, a) => v = u /\ k = j
          /\ \A r \in Rows, s \in Slots : CellAt(r, s, a) => thr[u].pc = "empty" /\ R(u) = r /\ s = j
      BY <3>1 DEF AddrInv
    <3>3. thr[u].pc = "empty" => u # t
      BY <2>1
    <3> QED BY <2>1, <2>7, <2>10, <2>11, <2>14, <3>1, <3>2, <3>3
  <2> QED BY <2>12, <2>13, <2>14 DEF AddrInv

<1>SameBound.
      ASSUME Ground, TypeInv, BoundInv, num' = num,
             \A u \in Threads : thr'[u].pc \in Past => thr[u].pc \in Past
      PROVE  BoundInv'
  <2> USE <1>SameBound
  <2>1. Cardinality(PastCheck) \in Nat /\ num \in Nat
    BY NumIndex DEF TypeInv
  <2>2. PastCheck \in SUBSET Threads /\ PastCheck' \in SUBSET Threads /\ PastCheck' \in SUBSET PastCheck
    BY DEF PastCheck
  <2>3. Cardinality(PastCheck') <= Cardinality(PastCheck) /\ Cardinality(PastCheck') \in Nat
    BY <2>2 DEF Ground, Counting
  <2>4. num + Cardinality(PastCheck) <= LastIndex /\ LastIndex \in Nat
    BY IndexFacts DEF BoundInv
  <2>5. num' + Cardinality(PastCheck') <= LastIndex
    BY <2>1, <2>3, <2>4, SMTT(30)
  <2> QED BY <2>5 DEF BoundInv

\* A thread that passes the check: even if all of them have, there is room.
<1>CheckBound.
      ASSUME Ground, TypeInv, BoundInv, num' = num, num < numElements
      PROVE  BoundInv'
  <2> USE <1>CheckBound
  <2>1. PastCheck' \in SUBSET Threads /\ Threads \in SUBSET Threads
    BY DEF PastCheck
  <2>2. Cardinality(PastCheck') <= Cardinality(Threads) /\ Cardinality(PastCheck') \in Nat
    BY <2>1 DEF Ground, Counting
  <2>3. Cardinality(Threads) \in Nat /\ numElements \in Nat /\ num \in Nat
    BY IndexFacts, ConstantFacts DEF TypeInv
  <2>4. num' + Cardinality(PastCheck') <= LastIndex
    BY <2>2, <2>3, SMTT(30) DEF LastIndex
  <2> QED BY <2>4 DEF BoundInv

<1>CountBound.
      ASSUME Ground, TypeInv, CallInv, VectorInv, BoundInv, NEW t \in Threads, BulkCount(t)
      PROVE  BoundInv'
  <2> USE <1>CountBound
  <2>1. /\ num' = num + 1 /\ thr[t].pc = "count" /\ thr'[t].pc \in Pending
        /\ \A u \in Threads \ {t} : thr'[u] = thr[u]
    BY CountStep
  <2>2. Cardinality(PastCheck) \in Nat /\ num \in Nat
    BY NumIndex DEF TypeInv
  <2>3. t \in PastCheck /\ PastCheck \in SUBSET Threads
    BY <2>1 DEF PastCheck, Past
  <2>4. thr'[t].pc \notin Past
    BY <2>1, PcSets
  <2>5. PastCheck' = PastCheck \ {t}
    BY <2>1, <2>4 DEF PastCheck
  <2>6. Cardinality(PastCheck') = Cardinality(PastCheck) - 1
    BY <2>3, <2>5 DEF Ground, Counting
  <2>7. Len(Loaded) <= num /\ num + Cardinality(PastCheck) <= LastIndex
        /\ LastIndex \in Nat /\ Len(Loaded) \in Nat
    BY IndexFacts, ConstantFacts DEF BoundInv
  <2>8. num' + Cardinality(PastCheck') <= LastIndex /\ Len(Loaded) <= num'
    BY <2>1, <2>2, <2>6, <2>7, SMTT(30)
  <2> QED BY <2>8 DEF BoundInv

<1>QuietIInv.
      ASSUME Ground, IInv, TypeInv', CallInv', QuietStep PROVE IInv'
  <2> USE <1>QuietIInv
  <2>1. LockInv' /\ VectorInv' /\ AddrInv'
    BY <1>QuietLock, <1>QuietVectors, <1>QuietAddrs DEF IInv
  <2>2. num' = num /\ \A u \in Threads : thr'[u].pc \in Past => thr[u].pc \in Past
    BY PcSets DEF QuietStep
  <2>3. BoundInv'
    BY <2>2, <1>SameBound DEF IInv
  <2> QED BY <2>1, <2>3 DEF IInv

<1>LockIInv.
      ASSUME Ground, IInv, NEW t \in Threads, Put(t) \/ Update(t) PROVE IInv'
  <2> USE <1>LockIInv
  <2>1. TypeInv' /\ CallInv' /\ KeepKeys /\ LockInv' /\ VectorInv'
    BY LockTypes, TakeLock, <1>LockVectors DEF IInv
  <2>2. /\ thr'[t].pc \in {"check", "update_data"} /\ UNCHANGED <<bucketsArray, num>>
        /\ \A u \in Threads \ {t} : thr'[u] = thr[u]
    BY LockStep DEF IInv
  <2>3. thr'[t].pc \notin Pending \union Moving /\ thr'[t].pc \notin Past
    BY <2>2, NotPast DEF Pending, Moving
  <2>4. AddrInv'
    BY <2>1, <2>2, <2>3, <1>OwnAddrs DEF IInv
  <2>5. BoundInv'
    BY <2>2, <2>3, <1>SameBound DEF IInv
  <2> QED BY <2>1, <2>4, <2>5 DEF IInv

<1>BulkIInv.
      ASSUME Ground, IInv, NEW t \in Threads,
             (BulkCheck(t) /\ ~(num >= numElements)) \/ BulkKey(t) \/ BulkData(t)
      PROVE  IInv'
  <2> USE <1>BulkIInv
  <2>1. /\ TypeInv' /\ CallInv' /\ KeepKeys /\ (\A u \in Threads \ {t} : thr'[u] = thr[u])
        /\ \/ thr[t].pc = "check" /\ thr'[t].pc = "key" /\ num < numElements
           \/ thr[t].pc = "key" /\ thr'[t].pc = "value"
           \/ thr[t].pc = "value" /\ thr'[t].pc = "count"
        /\ thr'[t].cells = thr[t].cells /\ thr'[t].keys = thr[t].keys /\ thr'[t].then = thr[t].then
        /\ UNCHANGED <<bucketsArray, num, mutexArray>>
    BY BulkStep DEF IInv
  <2>2. thr[t].pc \in Bulk /\ thr'[t].pc \in Bulk /\ thr'[t].pc \notin Pending \union Moving
    BY <2>1, PcSets DEF Bulk, Past
  <2>3. VectorInv' /\ LockInv'
    BY <2>1, <2>2, <1>BulkVectors DEF IInv
  <2>4. AddrInv'
    BY <2>1, <2>2, <1>OwnAddrs DEF IInv
  <2>5. BoundInv'
    <3>1. CASE num < numElements
      BY <2>1, <3>1, <1>CheckBound DEF IInv
    <3>2. CASE ~(num < numElements)
      <4>1. thr[t].pc \in Past
        BY <2>1, <3>2 DEF Past
      <4> QED BY <2>1, <4>1, <1>SameBound DEF IInv
    <3> QED BY <3>1, <3>2
  <2> QED BY <2>1, <2>3, <2>4, <2>5 DEF IInv

<1>CountIInv.
      ASSUME Ground, IInv, NEW t \in Threads, BulkCount(t) PROVE IInv'
  <2> USE <1>CountIInv
  <2>1. /\ TypeInv' /\ CallInv' /\ KeepKeys /\ (\A u \in Threads \ {t} : thr'[u] = thr[u])
        /\ thr[t].pc = "count" /\ thr'[t].pc = thr[t].then /\ thr[t].then \in Pending
        /\ thr'[t].cells = thr[t].cells /\ thr'[t].keys = thr[t].keys /\ thr'[t].then = thr[t].then
        /\ UNCHANGED <<bucketsArray, mutexArray>>
    BY CountStep DEF IInv
  <2>2. thr[t].pc \in Bulk
    BY <2>1 DEF Bulk, Past
  <2>3. VectorInv' /\ LockInv'
    BY <2>1, <2>2, <1>BulkVectors DEF IInv
  <2>4. AddrInv' /\ BoundInv'
    BY <1>CountAddrs, <1>CountBound DEF IInv
  <2> QED BY <2>1, <2>3, <2>4 DEF IInv

<1>UnlockIInv.
      ASSUME Ground, IInv, NEW t \in Threads, update_data(t) \/ Orphan(t) \/ Reseeded(t) PROVE IInv'
  <2> USE <1>UnlockIInv
  <2>1. /\ TypeInv' /\ CallInv' /\ KeepKeys /\ (\A u \in Threads \ {t} : thr'[u] = thr[u])
        /\ thr[t].pc \in Locked /\ thr'[t].pc = "idle"
        /\ mutexArray' = [mutexArray EXCEPT ![R(t)] = Free_]
        /\ UNCHANGED <<bucketsArray, num>>
    BY UnlockStep DEF IInv
  <2>2. thr'[t].pc \notin Pending \union Moving /\ thr'[t].pc \notin Past
    BY <2>1, PcSets, NotPast, NotLocked
  <2>3. LockInv' /\ VectorInv'
    BY <2>1, <1>ReleaseLock, <1>EndVectors DEF IInv
  <2>4. AddrInv'
    BY <2>1, <2>2, <1>OwnAddrs DEF IInv
  <2>5. BoundInv'
    BY <2>1, <2>2, <1>SameBound DEF IInv
  <2> QED BY <2>1, <2>3, <2>4, <2>5 DEF IInv

<1>LinkIInv.
      ASSUME Ground, IInv, NEW t \in Threads, Link(t) PROVE IInv'
  <2> USE <1>LinkIInv
  <2>1. /\ TypeInv' /\ CallInv' /\ KeepKeys /\ (\A u \in Threads \ {t} : thr'[u] = thr[u])
        /\ thr[t].pc = "link" /\ thr'[t].pc = "idle" /\ num' = num
        /\ mutexArray' = [mutexArray EXCEPT ![R(t)] = Free_]
        /\ \A r \in Rows : r # R(t) => bucketsArray'[r] = bucketsArray[r]
    BY LinkStep DEF IInv
  <2>2. thr[t].pc \in Locked
    BY <2>1, PcSets DEF Pending
  <2>3. LockInv' /\ VectorInv'
    BY <2>1, <2>2, <1>ReleaseLock, <1>EndVectors DEF IInv
  <2>4. AddrInv'
    BY <1>LinkAddrs DEF IInv
  <2>5. BoundInv'
    BY <2>1, NotPast, <1>SameBound DEF IInv
  <2> QED BY <2>1, <2>3, <2>4, <2>5 DEF IInv

<1>ReseedIInv.
      ASSUME Ground, IInv, NEW t \in Threads, thr[t].pc = "reseed", NEW new \in Seeds, Searched(t, new),
             UNCHANGED <<bucketsArray, rawArray, num, mutexArray, cseed, acked>>
      PROVE  IInv'
  <2> USE <1>ReseedIInv
  <2>1. TypeInv' /\ CallInv' /\ LockInv' /\ VectorInv' /\ AddrInv'
    BY ReseedCalls, <1>ReseedVectors, <1>ReseedAddrs DEF IInv
  <2>2. thr'[t].pc = "empty" /\ (\A u \in Threads \ {t} : thr'[u] = thr[u])
    BY ReseedStep DEF IInv
  <2>3. thr'[t].pc \notin Past
    BY <2>2, NotPast, PcSets
  <2>4. BoundInv'
    BY <2>2, <2>3, <1>SameBound DEF IInv
  <2> QED BY <2>1, <2>4 DEF IInv

<1>EmptyIInv.
      ASSUME Ground, IInv, NEW t \in Threads, empty_bucket(t) PROVE IInv'
  <2> USE <1>EmptyIInv
  <2>1. TypeInv' /\ CallInv' /\ LockInv' /\ VectorInv' /\ AddrInv'
    BY EmptyStep, <1>EmptyVectors, <1>EmptyAddrs DEF IInv
  <2>2. thr'[t].pc = "cells" /\ num' = num /\ (\A u \in Threads \ {t} : thr'[u] = thr[u])
    BY EmptyStep DEF IInv
  <2>3. thr'[t].pc \notin Past
    BY <2>2, NotPast, PcSets
  <2>4. BoundInv'
    BY <2>2, <2>3, <1>SameBound DEF IInv
  <2> QED BY <2>1, <2>4 DEF IInv

<1>WriteIInv.
      ASSUME Ground, IInv, NEW t \in Threads, write_cell(t) PROVE IInv'
  <2> USE <1>WriteIInv
  <2>1. TypeInv' /\ CallInv' /\ LockInv' /\ VectorInv' /\ AddrInv'
    BY WriteStep, <1>WriteVectors, <1>WriteAddrs DEF IInv
  <2>2. thr'[t].pc = "cells" /\ num' = num /\ (\A u \in Threads \ {t} : thr'[u] = thr[u])
    BY WriteStep DEF IInv
  <2>3. thr'[t].pc \notin Past
    BY <2>2, NotPast, PcSets
  <2>4. BoundInv'
    BY <2>2, <2>3, <1>SameBound DEF IInv
  <2> QED BY <2>1, <2>4 DEF IInv

<1> SUFFICES ASSUME Ground, IInv, [Next]_vars PROVE IInv'
  OBVIOUS
<1> USE DEF IInv
<1>1. ASSUME UNCHANGED vars PROVE IInv'
  BY <1>1, StopStep, <1>QuietIInv DEF vars
<1>2. ASSUME NEW q \in Cors, NEW w \in Workload, Call(q, w[1], w[2]) PROVE IInv'
  BY <1>2, CallStep, <1>QuietIInv
<1>3. ASSUME NEW q \in Cors, Return(q) PROVE IInv'
  BY <1>3, ReturnStep, <1>QuietIInv
<1>4. ASSUME NEW q \in Cors, NEW t \in Threads, Begin(t, q) PROVE IInv'
  BY <1>4, BeginStep, <1>QuietIInv
<1>5. ASSUME NEW t \in Threads, GetAddr(t) PROVE IInv'
  BY <1>5, GetAddrStep, <1>QuietIInv
<1>6. ASSUME NEW t \in Threads, GetData(t) PROVE IInv'
  BY <1>6, GetDataStep, <1>QuietIInv
<1>7. ASSUME NEW t \in Threads, BulkCheck(t), num >= numElements PROVE IInv'
  BY <1>7, StopStep, <1>QuietIInv DEF BulkCheck
<1>8. ASSUME NEW t \in Threads, Reseed(t) PROVE IInv'
  <2>1. CASE UNCHANGED <<seed, thr, op>>
    BY <1>8, <2>1, SearchStep, StopStep, <1>QuietIInv
  <2>2. ASSUME NEW new \in Seeds, Searched(t, new) PROVE IInv'
    BY <1>8, <2>2, SearchStep, <1>ReseedIInv
  <2> QED BY <1>8, <2>1, <2>2, SearchStep
<1> HIDE DEF IInv
<1> QED BY <1>1, <1>2, <1>3, <1>4, <1>5, <1>6, <1>7, <1>8, Steps, <1>LockIInv, <1>UnlockIInv,
           <1>BulkIInv, <1>CountIInv, <1>LinkIInv, <1>EmptyIInv, <1>WriteIInv

(***************************************************************************)
(* Serial puts: at most one callback holds a mutex.                        *)
(***************************************************************************)

\* A step of t while no other thread holds a mutex.
SoloStep(t) == \A u \in Threads \ {t} : thr[u].pc \notin Locked /\ thr'[u] = thr[u]

LEMMA SoloHeld ==
  ASSUME Ground, Serial, IInv, NEW t \in Threads, thr[t].pc \in Locked,
         \A u \in Threads \ {t} : thr'[u] = thr[u]
  PROVE  SoloStep(t)
<1>1. ASSUME NEW u \in Threads, thr[u].pc \in Locked PROVE u = t
  <2>1. R(t) \in Rows /\ R(u) \in Rows
    BY <1>1, NotLocked, ServedCall DEF IInv
  <2> QED BY <1>1, <2>1, OtherRow DEF Serial, IInv
<1> QED BY <1>1 DEF SoloStep

LEMMA SoloTaken ==
  ASSUME Ground, Serial, IInv, NEW t \in Threads, Put(t) \/ Update(t)
  PROVE  SoloStep(t)
<1>1. thr'[t].pc \in Locked /\ TypeInv' /\ CallInv' /\ LockInv'
  BY TakeLock, LockTypes DEF IInv
<1>2. \A u \in Threads \ {t} : thr'[u] = thr[u]
  BY LockStep DEF IInv
<1>3. ASSUME NEW u \in Threads \ {t}, thr'[u].pc \in Locked PROVE FALSE
  <2>1. R(t)' \in Rows /\ R(u)' \in Rows /\ R(t)' # R(u)'
    <3>1. TypeInv' /\ CallInv' /\ LockInv'
      BY <1>1
    <3>2. thr'[t].pc # "idle" /\ thr'[u].pc # "idle"
      BY <1>1, <1>3, NotLocked
    <3>3. /\ op'[thr'[t].q].st # "idle" /\ op'[thr'[u].q].st # "idle"
          /\ thr'[t].q \in Cors /\ thr'[u].q \in Cors
      BY <3>1, <3>2 DEF CallInv
    <3>4. K(t)' \in Keys /\ K(u)' \in Keys
      BY <3>1, <3>3 DEF CallInv, K
    <3>5. R(t)' \in Rows /\ R(u)' \in Rows
      BY <3>4, ConstantFacts DEF R
    <3>6. mutexArray'[R(t)'] = t /\ mutexArray'[R(u)'] = u
      BY <1>1, <1>3, <3>1 DEF LockInv
    <3> QED BY <3>5, <3>6
  <2> QED BY <2>1 DEF Serial
<1> QED BY <1>2, <1>3 DEF SoloStep

\* Then only t can be re-seeding.
LEMMA SoloReseeding ==
  ASSUME NEW t \in Threads, SoloStep(t), NEW r
  PROVE  /\ Reseeding(r) <=> thr[t].pc \in Moving /\ R(t) = r
         /\ Reseeding(r)' <=> thr'[t].pc \in Moving /\ R(t)' = r
         /\ Emptying(r) <=> thr[t].pc = "empty" /\ R(t) = r
         /\ Emptying(r)' <=> thr'[t].pc = "empty" /\ R(t)' = r
<1>1. \A u \in Threads \ {t} : /\ thr[u].pc \notin Moving /\ thr'[u].pc \notin Moving
                               /\ thr[u].pc # "empty" /\ thr'[u].pc # "empty"
  BY PcSets DEF SoloStep
<1>2. Moving = {"empty", "cells"}
  BY DEF Moving
<1>3. Reseeding(r) <=> \E u \in Threads : thr[u].pc \in Moving /\ R(u) = r
  BY <1>2 DEF Reseeding, R, K
<1>4. Reseeding(r)' <=> \E u \in Threads : thr'[u].pc \in Moving /\ R(u)' = r
  BY <1>2 DEF Reseeding, R, K
<1>5. Emptying(r)' <=> \E u \in Threads : thr'[u].pc = "empty" /\ R(u)' = r
  BY DEF Emptying, R, K
<1>6. Emptying(r) <=> \E u \in Threads : thr[u].pc = "empty" /\ R(u) = r
  BY DEF Emptying
<1> QED BY <1>1, <1>3, <1>4, <1>5, <1>6

LEMMA EmptyingReseeds == ASSUME NEW r, Emptying(r) PROVE Reseeding(r)
BY DEF Emptying, Reseeding, R, K

\* A quiet step does not end or begin a re-seeding.
LEMMA QuietReseeding ==
  ASSUME QuietStep, NEW r
  PROVE  /\ Reseeding(r)' <=> Reseeding(r)
         /\ Emptying(r)' <=> Emptying(r)
<1>1. \A u \in Threads : /\ thr'[u].pc \in Moving <=> thr[u].pc \in Moving
                         /\ thr'[u].pc = "empty" <=> thr[u].pc = "empty"
                         /\ thr[u].pc \in Moving => R(u)' = R(u)
  BY PcSets DEF QuietStep
<1>2. Moving = {"empty", "cells"}
  BY DEF Moving
<1>3. Reseeding(r) <=> \E u \in Threads : thr[u].pc \in Moving /\ R(u) = r
  BY <1>2 DEF Reseeding, R, K
<1>4. Reseeding(r)' <=> \E u \in Threads : thr'[u].pc \in Moving /\ R(u)' = r
  BY <1>2 DEF Reseeding, R, K
<1>5. Emptying(r)' <=> \E u \in Threads : thr'[u].pc = "empty" /\ R(u)' = r
  BY DEF Emptying, R, K
<1>6. Emptying(r) <=> \E u \in Threads : thr[u].pc = "empty" /\ R(u) = r
  BY DEF Emptying
<1> QED BY <1>1, <1>2, <1>3, <1>4, <1>5, <1>6

(***************************************************************************)
(* What a step of the only holder has to show.                             *)
(***************************************************************************)

\* Placed, Stored and Kept in the next state.
PlacedNext(r, s, c) ==
    LET k == rawArray'[c.addr].key IN
    /\ RowOf[k] = r /\ hash[seed'[r]][k] = s
    /\ c.finger = fingerprint[k]
    /\ rawArray'[c.addr].data \in Own(k)
StoredNext(k) ==
    LET c == bucketsArray'[RowOf[k]][hash[seed'[RowOf[k]]][k]] IN
    c.length = 1 /\ rawArray'[c.addr].key = k
KeptNext(t, k) == \E i \in DOMAIN thr'[t].cells : rawArray'[thr'[t].cells[i].cell.addr].key = k

\* The writes of a callback that does not move cells leave the keys of the entries
\* that cells lead to, and their values are still values of those keys.
KeepEntry(a) ==
    /\ rawArray'[a].key = rawArray[a].key
    /\ rawArray[a].data \in Own(rawArray[a].key) => rawArray'[a].data \in Own(rawArray[a].key)

LEMMA StoredAt ==
  ASSUME Ground, TypeInv, NEW k \in Keys, Stored(k)
  PROVE  /\ RowOf[k] \in Rows /\ hash[seed[RowOf[k]]][k] \in Slots
         /\ ~Free(bucketsArray[RowOf[k]], hash[seed[RowOf[k]]][k])
         /\ rawArray[bucketsArray[RowOf[k]][hash[seed[RowOf[k]]][k]].addr].key = k
<1>1. RowOf[k] \in Rows /\ hash[seed[RowOf[k]]][k] \in Slots
  BY ConstantFacts, SMTT(30) DEF TypeInv
<1>2. PICK b, s : b = bucketsArray[RowOf[k]] /\ s = hash[seed[RowOf[k]]][k]
  OBVIOUS
<1>3. b[s].length = 1 /\ rawArray[b[s].addr].key = k
  BY <1>2 DEF Stored
<1>4. ~Free(b, s)
  BY <1>3, SMTT(30) DEF Free
<1> QED BY <1>1, <1>2, <1>3, <1>4

\* A step keeps what the invariant says of entries, places and acknowledged keys.
\* First what a step has to show if only one callback holds a mutex, then the
\* kinds of steps one by one (.. SInv).
LEMMA EntriesStep ==
  Ground /\ Serial /\ IInv /\ EntryInv /\ PlaceInv /\ AckInv /\ [Next]_vars
    => EntryInv' /\ PlaceInv' /\ AckInv'
<1>CellFields.
      /\ ZeroCell.length = 0
      /\ \A k, a : /\ combine(k, a).length = 1 /\ combine(k, a).addr = a
                   /\ combine(k, a).finger = fingerprint[k]
  BY SMTT(30) DEF ZeroCell, combine

<1>ReseedCell.
      ASSUME Ground, TypeInv, CallInv, VectorInv, NEW t \in Threads, thr[t].pc = "reseed",
             NEW new \in Seeds, Searched(t, new),
             UNCHANGED <<bucketsArray, rawArray, num, mutexArray, cseed, acked>>,
             NEW i \in DOMAIN thr[t].cells
      PROVE  /\ thr'[t].cells[i].cell = bucketsArray[R(t)][i]
             /\ thr'[t].cells[i].slot = hash[new][thr[t].keys[i]]
  BY <1>ReseedCell, ReseedStep, SMTT(30)

<1>QuietEntries.
      ASSUME EntryInv, QuietStep PROVE EntryInv'
  <2> USE <1>QuietEntries
  <2>1. ASSUME NEW u \in Threads PROVE EntryOK(u)'
    <3>1. CASE thr[u].pc \in Locked
      <4>1. thr'[u] = thr[u] /\ K(u)' = K(u) /\ R(u)' = R(u)
            /\ UNCHANGED <<bucketsArray, seed, rawArray, num>>
        BY <3>1 DEF QuietStep
      <4>2. slot(u)' = slot(u)
        BY <4>1 DEF slot
      <4>3. EntryOK(u)
        BY DEF EntryInv
      <4> QED BY <4>1, <4>2, <4>3 DEF EntryOK, read_batch_keys, Free
    <3>2. CASE thr[u].pc \notin Locked
      <4>1. thr'[u].pc \notin Bulk \union Pending /\ thr'[u].pc \notin {"value", "count", "update_data"}
        BY <3>2, PcSets DEF QuietStep, Past
      <4> QED BY <4>1 DEF EntryOK
    <3> QED BY <3>1, <3>2
  <2> QED BY <2>1 DEF EntryInv

<1>SoloEntries.
      ASSUME NEW t \in Threads, SoloStep(t), EntryOK(t)' PROVE EntryInv'
  <2> USE <1>SoloEntries
  <2>1. ASSUME NEW u \in Threads, u # t PROVE EntryOK(u)'
    <3>1. thr'[u].pc \notin Bulk \union Pending /\ thr'[u].pc \notin {"value", "count", "update_data"}
      BY <2>1, PcSets DEF SoloStep, Past
    <3> QED BY <3>1 DEF EntryOK
  <2> QED BY <2>1 DEF EntryInv

<1>IdleEntries.
      ASSUME NEW t \in Threads, SoloStep(t), thr'[t].pc \in {"idle"} \union Moving PROVE EntryInv'
  <2> USE <1>IdleEntries
  <2>1. thr'[t].pc \notin Bulk \union Pending /\ thr'[t].pc \notin {"value", "count", "update_data"}
    BY DEF Bulk, Pending, Moving, Past
  <2>2. EntryOK(t)'
    BY <2>1 DEF EntryOK
  <2> QED BY <2>2, <1>SoloEntries

<1>SoloPlaced.
      ASSUME PlaceInv, NEW t \in Threads, SoloStep(t), NEW r \in Rows, NEW s \in Slots,
             ~Free(bucketsArray[r], s), ~(thr[t].pc = "empty" /\ R(t) = r)
      PROVE  Placed(r, s, bucketsArray[r][s])
  BY <1>SoloPlaced, SoloReseeding DEF PlaceInv

<1>SoloStored.
      ASSUME AckInv, NEW t \in Threads, SoloStep(t), NEW k \in acked,
             ~(thr[t].pc \in Moving /\ R(t) = RowOf[k])
      PROVE  Stored(k)
  BY <1>SoloStored, SoloReseeding DEF AckInv

<1>SoloPlace.
      ASSUME NEW t \in Threads, SoloStep(t),
             \A r \in Rows, s \in Slots :
               bucketsArray'[r][s].length # 0 /\ ~(thr'[t].pc = "empty" /\ R(t)' = r) =>
                 PlacedNext(r, s, bucketsArray'[r][s]),
             thr'[t].pc \in Moving => \A i \in DOMAIN thr'[t].cells :
               PlacedNext(R(t)', thr'[t].cells[i].slot, thr'[t].cells[i].cell)
      PROVE  PlaceInv'
  <2> USE <1>SoloPlace
  <2>1. ASSUME NEW r \in Rows, NEW s \in Slots, bucketsArray'[r][s].length # 0, ~Emptying(r)'
        PROVE  Placed(r, s, bucketsArray[r][s])'
    <3>1. PlacedNext(r, s, bucketsArray'[r][s])
      BY <2>1, SoloReseeding
    <3> QED BY <3>1 DEF PlacedNext, Placed
  <2>2. ASSUME NEW u \in Threads, thr'[u].pc \in Moving, NEW i \in DOMAIN thr'[u].cells
        PROVE  Placed(R(u), thr[u].cells[i].slot, thr[u].cells[i].cell)'
    <3>1. u = t
      BY <2>2, PcSets DEF SoloStep
    <3>2. PlacedNext(R(u)', thr'[u].cells[i].slot, thr'[u].cells[i].cell)
      BY <2>2, <3>1
    <3> QED BY <3>2 DEF PlacedNext, Placed
  <2> QED BY <2>1, <2>2 DEF PlaceInv, Free

<1>SoloAck.
      ASSUME NEW t \in Threads, SoloStep(t),
             \A k \in acked' : ~(thr'[t].pc \in Moving /\ R(t)' = RowOf[k]) => StoredNext(k),
             thr'[t].pc \in Moving => \A k \in acked' \union {K(t)'} : RowOf[k] = R(t)' =>
               KeptNext(t, k) \/ (thr'[t].pc = "cells" /\ StoredNext(k))
      PROVE  AckInv'
  <2> USE <1>SoloAck
  <2>1. ASSUME NEW k \in acked', ~Reseeding(RowOf[k])'
        PROVE  Stored(k)'
    <3>1. StoredNext(k)
      BY <2>1, SoloReseeding
    <3> QED BY <3>1 DEF StoredNext, Stored
  <2>2. ASSUME NEW u \in Threads, thr'[u].pc \in Moving, NEW k \in acked' \union {K(u)'},
               RowOf[k] = R(u)'
        PROVE  Kept(u, k)' \/ (thr'[u].pc = "cells" /\ Stored(k)')
    <3>1. u = t
      BY <2>2, PcSets DEF SoloStep
    <3>2. KeptNext(u, k) \/ (thr'[u].pc = "cells" /\ StoredNext(k))
      BY <2>2, <3>1
    <3> QED BY <3>2 DEF KeptNext, Kept, StoredNext, Stored
  <2> QED BY <2>1, <2>2 DEF AckInv

\* A cell leads to an entry below the counter.
<1>Occupied.
      ASSUME Ground, TypeInv, AddrInv, NEW r \in Rows, NEW s \in Slots, ~Free(bucketsArray[r], s)
      PROVE  /\ bucketsArray[r][s].length = 1 /\ bucketsArray[r][s].addr \in Indexes
             /\ bucketsArray[r][s].addr < num
  <2> USE <1>Occupied
  <2>1. bucketsArray[r][s] \in CellIn
    BY DEF TypeInv
  <2>2. bucketsArray[r][s].length = 1 /\ bucketsArray[r][s].addr \in Indexes
    BY <2>1 DEF CellIn, Free
  <2>3. CellAt(r, s, bucketsArray[r][s].addr) /\ bucketsArray[r][s].addr \in Nat
    <3>1. Indexes \subseteq Nat
      BY SMT DEF Indexes
    <3> QED BY <2>2, <3>1 DEF CellAt
  <2> QED BY <2>2, <2>3 DEF AddrInv

<1>KeepPlaced.
      ASSUME NEW r, NEW s, NEW c, Placed(r, s, c), KeepEntry(c.addr), seed'[r] = seed[r]
      PROVE  PlacedNext(r, s, c)
  BY <1>KeepPlaced DEF Placed, PlacedNext, KeepEntry

<1>KeepPlace.
      ASSUME Ground, TypeInv, AddrInv, PlaceInv, NEW t \in Threads, SoloStep(t),
             UNCHANGED <<bucketsArray, seed>>, \A a \in Indexes : a < num => KeepEntry(a),
             thr[t].pc # "empty", thr'[t].pc \notin Moving
      PROVE  PlaceInv'
  <2> USE <1>KeepPlace
  <2>1. ASSUME NEW r \in Rows, NEW s \in Slots, bucketsArray'[r][s].length # 0
        PROVE  PlacedNext(r, s, bucketsArray'[r][s])
    <3>1. ~Free(bucketsArray[r], s)
      BY <2>1 DEF Free
    <3>2. Placed(r, s, bucketsArray[r][s])
      BY <3>1, <1>SoloPlaced
    <3>3. KeepEntry(bucketsArray[r][s].addr)
      BY <3>1, <1>Occupied
    <3> QED BY <3>2, <3>3, <1>KeepPlaced
  <2> QED BY <2>1, <1>SoloPlace

<1>KeepStored.
      ASSUME Ground, TypeInv, AddrInv, UNCHANGED <<bucketsArray, seed>>,
             \A a \in Indexes : a < num => KeepEntry(a), NEW k \in Keys, Stored(k)
      PROVE  StoredNext(k)
  <2> USE <1>KeepStored
  <2>1. PICK r, s : r = RowOf[k] /\ s = hash[seed[RowOf[k]]][k]
    OBVIOUS
  <2>2. r \in Rows /\ s \in Slots
    BY <2>1, ConstantFacts, SMTT(30) DEF TypeInv
  <2>3. bucketsArray[r][s].length = 1 /\ rawArray[bucketsArray[r][s].addr].key = k
    BY <2>1 DEF Stored
  <2>4. KeepEntry(bucketsArray[r][s].addr)
    BY <2>2, <2>3, <1>Occupied, SMTT(30) DEF Free
  <2> QED BY <2>1, <2>3, <2>4 DEF StoredNext, KeepEntry

<1>KeepAck.
      ASSUME Ground, TypeInv, AddrInv, AckInv, NEW t \in Threads, SoloStep(t),
             UNCHANGED <<bucketsArray, seed, acked>>, \A a \in Indexes : a < num => KeepEntry(a),
             thr[t].pc \notin Moving, thr'[t].pc \notin Moving
      PROVE  AckInv'
  <2> USE <1>KeepAck
  <2>1. ASSUME NEW k \in acked' PROVE StoredNext(k)
    <3>1. k \in acked /\ k \in Keys
      BY <2>1 DEF TypeInv
    <3> QED BY <3>1, <1>SoloStored, <1>KeepStored
  <2> QED BY <2>1, <1>SoloAck

<1>SameEntries.
      ASSUME UNCHANGED rawArray PROVE \A a \in Indexes : KeepEntry(a)
  BY <1>SameEntries DEF KeepEntry

<1>LockSInv.
      ASSUME Ground, Serial, IInv, EntryInv, PlaceInv, AckInv, NEW t \in Threads, Put(t) \/ Update(t)
      PROVE  EntryInv' /\ PlaceInv' /\ AckInv'
  <2> USE <1>LockSInv
  <2> USE DEF IInv
  <2>1. SoloStep(t)
    BY SoloTaken
  <2>2. /\ thr[t].pc \in {"put", "update"} /\ thr'[t].q = thr[t].q
        /\ \/ /\ thr'[t].pc = "check" /\ thr'[t].then = "link"
              /\ Free(bucketsArray[R(t)], slot(t))
           \/ /\ thr'[t].pc = "update_data" /\ rawArray[thr'[t].addr].key = K(t)
           \/ /\ thr'[t].pc = "check" /\ thr'[t].then = "orphan"
           \/ /\ thr'[t].pc = "check" /\ thr'[t].then = "reseed"
              /\ thr'[t].cells = read_bucket_addrs(bucketsArray[R(t)])
              /\ thr'[t].keys = read_batch_keys(thr'[t].cells)
        /\ UNCHANGED <<bucketsArray, seed, rawArray, num, op, acked>>
    BY LockStep
  <2>3. K(t)' = K(t) /\ R(t)' = R(t) /\ slot(t)' = slot(t)
    BY <2>2 DEF K, R, slot
  <2>4. thr[t].pc \notin Moving /\ thr'[t].pc \notin Moving /\ thr[t].pc # "empty"
    BY <2>2 DEF Moving
  <2>5. PlaceInv' /\ AckInv'
    BY <2>1, <2>2, <2>4, <1>SameEntries, <1>KeepPlace, <1>KeepAck
  <2>6. EntryOK(t)'
    <3>1. "check" \notin Pending /\ "update_data" \notin Bulk \union Pending
      BY DEF Pending, Bulk, Past
    <3>2. CASE thr'[t].pc = "update_data" /\ rawArray[thr'[t].addr].key = K(t)
      BY <2>2, <2>3, <3>1, <3>2 DEF EntryOK
    <3>3. CASE thr'[t].pc = "check" /\ thr'[t].then = "orphan"
      BY <3>1, <3>3 DEF EntryOK
    <3>4. CASE thr'[t].pc = "check" /\ thr'[t].then = "link" /\ Free(bucketsArray[R(t)], slot(t))
      <4>1. Free(bucketsArray[R(t)], slot(t))'
        BY <2>2, <2>3, <3>4 DEF Free
      <4> QED BY <3>1, <3>4, <4>1 DEF EntryOK
    <3>5. CASE thr'[t].pc = "check" /\ thr'[t].then = "reseed"
               /\ thr'[t].keys = read_batch_keys(thr'[t].cells)
      <4>1. thr'[t].keys = read_batch_keys(thr[t].cells)'
        BY <2>2, <3>5 DEF read_batch_keys
      <4> QED BY <3>1, <3>5, <4>1 DEF EntryOK
    <3> QED BY <2>2, <3>2, <3>3, <3>4, <3>5
  <2> QED BY <2>1, <2>5, <2>6, <1>SoloEntries

\* The keys that a put has read are of entries below the counter.
<1>KeepKeysRead.
      ASSUME Ground, TypeInv, AddrInv, VectorInv, EntryInv, NEW t \in Threads,
             thr[t].pc \in Bulk \union Pending, thr[t].then = "reseed", R(t) \in Rows,
             thr'[t].cells = thr[t].cells, thr'[t].keys = thr[t].keys,
             \A a \in Indexes : a < num => rawArray'[a].key = rawArray[a].key
      PROVE  thr'[t].keys = read_batch_keys(thr[t].cells)'
  <2> USE <1>KeepKeysRead
  <2>1. thr[t].keys = read_batch_keys(thr[t].cells)
    BY DEF EntryInv, EntryOK
  <2>2. thr[t].cells = read_bucket_addrs(bucketsArray[R(t)])
    BY DEF VectorInv, VectorOK
  <2>3. ASSUME NEW i \in DOMAIN thr[t].cells
        PROVE  rawArray'[thr[t].cells[i].addr].key = rawArray[thr[t].cells[i].addr].key
    <3>1. i \in Slots /\ ~Free(bucketsArray[R(t)], i) /\ thr[t].cells[i] = bucketsArray[R(t)][i]
      BY <2>2, <2>3 DEF read_bucket_addrs
    <3> QED BY <3>1, <1>Occupied
  <2>4. [i \in DOMAIN thr[t].cells |-> rawArray'[thr[t].cells[i].addr].key]
          = [i \in DOMAIN thr[t].cells |-> rawArray[thr[t].cells[i].addr].key]
    BY <2>3
  <2> QED BY <2>1, <2>4 DEF read_batch_keys

<1>BulkSInv.
      ASSUME Ground, Serial, IInv, EntryInv, PlaceInv, AckInv, NEW t \in Threads,
             (BulkCheck(t) /\ ~(num >= numElements)) \/ BulkKey(t) \/ BulkData(t)
      PROVE  EntryInv' /\ PlaceInv' /\ AckInv'
  <2> USE <1>BulkSInv
  <2> USE DEF IInv
  <2>1. /\ KeepKeys /\ (\A u \in Threads \ {t} : thr'[u] = thr[u])
        /\ \/ thr[t].pc = "check" /\ thr'[t].pc = "key"
           \/ thr[t].pc = "key" /\ thr'[t].pc = "value"
           \/ thr[t].pc = "value" /\ thr'[t].pc = "count"
        /\ thr'[t].addr = thr[t].addr /\ thr'[t].cells = thr[t].cells
        /\ thr'[t].keys = thr[t].keys /\ thr'[t].then = thr[t].then
        /\ \A a \in Indexes : a # num => rawArray'[a] = rawArray[a]
        /\ thr'[t].pc = "value" => rawArray'[num].key = K(t)
        /\ thr'[t].pc = "count" => /\ rawArray'[num].key = rawArray[num].key
                                   /\ rawArray'[num].data = K(t)
        /\ UNCHANGED <<bucketsArray, seed, num, acked>>
    BY BulkStep
  <2>2. /\ thr[t].pc \in Bulk /\ thr[t].pc \in Locked /\ thr[t].pc \notin Moving
        /\ thr[t].pc \notin {"idle", "empty"}
        /\ thr'[t].pc \notin Pending \union Moving /\ thr'[t].pc \notin {"idle", "update_data", "empty"}
    BY <2>1 DEF Bulk, Past, Locked, Pending, Moving
  <2>3. SoloStep(t)
    BY <2>1, <2>2, SoloHeld
  <2>4. K(t)' = K(t) /\ R(t)' = R(t)
    BY <2>1, <2>2 DEF KeepKeys
  <2>5. slot(t)' = slot(t) /\ R(t) \in Rows
    BY <2>1, <2>2, <2>4, ServedCall DEF slot
  <2>6. \A a \in Indexes : a < num => rawArray'[a] = rawArray[a]
    <3>1. \A a \in Indexes : a < num => a # num
      BY SMT DEF Indexes, TypeInv
    <3> QED BY <2>1, <3>1
  <2>7. PlaceInv' /\ AckInv'
    <3>1. \A a \in Indexes : a < num => KeepEntry(a)
      BY <2>6 DEF KeepEntry
    <3> QED BY <2>1, <2>2, <2>3, <3>1, <1>KeepPlace, <1>KeepAck
  <2>8. EntryOK(t)'
    <3>1. EntryOK(t)
      BY DEF EntryInv
    <3>2. thr[t].then = "reseed" => thr'[t].keys = read_batch_keys(thr[t].cells)'
      BY <2>1, <2>2, <2>5, <2>6, <1>KeepKeysRead
    <3>3. thr[t].then = "link" => Free(bucketsArray[R(t)], slot(t))'
      BY <2>1, <2>2, <2>4, <2>5, <3>1 DEF EntryOK, Free
    <3>4. thr'[t].pc \in {"value", "count"} => rawArray'[num].key = K(t)
      BY <2>1, <3>1 DEF EntryOK
    <3> QED BY <2>1, <2>2, <2>4, <3>2, <3>3, <3>4 DEF EntryOK
  <2> QED BY <2>3, <2>7, <2>8, <1>SoloEntries

<1>CountSInv.
      ASSUME Ground, Serial, IInv, EntryInv, PlaceInv, AckInv, NEW t \in Threads, BulkCount(t)
      PROVE  EntryInv' /\ PlaceInv' /\ AckInv'
  <2> USE <1>CountSInv
  <2> USE DEF IInv
  <2>1. /\ KeepKeys /\ (\A u \in Threads \ {t} : thr'[u] = thr[u])
        /\ thr[t].pc = "count" /\ thr'[t].pc = thr[t].then /\ thr[t].then \in Pending
        /\ thr'[t].addr = num /\ thr'[t].cells = thr[t].cells
        /\ thr'[t].keys = thr[t].keys /\ thr'[t].then = thr[t].then
        /\ UNCHANGED <<bucketsArray, seed, rawArray, acked>>
    BY CountStep
  <2>2. /\ thr[t].pc \in Bulk /\ thr[t].pc \in Locked /\ thr[t].pc \notin Moving
        /\ thr[t].pc \notin {"idle", "empty"}
        /\ thr'[t].pc \notin Moving
        /\ thr'[t].pc \notin {"idle", "update_data", "empty", "value", "count"}
    BY <2>1 DEF Bulk, Past, Locked, Pending, Moving
  <2>3. SoloStep(t)
    BY <2>1, <2>2, SoloHeld
  <2>4. K(t)' = K(t) /\ R(t)' = R(t)
    BY <2>1, <2>2 DEF KeepKeys
  <2>5. slot(t)' = slot(t) /\ R(t) \in Rows
    BY <2>1, <2>2, <2>4, ServedCall DEF slot
  <2>6. PlaceInv' /\ AckInv'
    BY <2>1, <2>2, <2>3, <1>SameEntries, <1>KeepPlace, <1>KeepAck
  <2>7. EntryOK(t)'
    <3>1. EntryOK(t)
      BY DEF EntryInv
    <3>2. thr[t].then = "reseed" => thr'[t].keys = read_batch_keys(thr[t].cells)'
      BY <2>1, <2>2, <2>5, <1>KeepKeysRead
    <3>3. thr[t].then = "link" => Free(bucketsArray[R(t)], slot(t))'
      BY <2>1, <2>2, <2>4, <2>5, <3>1 DEF EntryOK, Free
    <3>4. rawArray[num].key = K(t) /\ rawArray[num].data = K(t)
      BY <2>1, <3>1 DEF EntryOK
    <3> QED BY <2>1, <2>2, <2>4, <3>2, <3>3, <3>4 DEF EntryOK
  <2> QED BY <2>3, <2>6, <2>7, <1>SoloEntries

<1>UnlockSInv.
      ASSUME Ground, Serial, IInv, EntryInv, PlaceInv, AckInv, NEW t \in Threads,
             update_data(t) \/ Orphan(t) \/ Reseeded(t)
      PROVE  EntryInv' /\ PlaceInv' /\ AckInv'
  <2> USE <1>UnlockSInv
  <2> USE DEF IInv
  <2>1. /\ (\A u \in Threads \ {t} : thr'[u] = thr[u])
        /\ thr[t].pc \in Locked /\ thr'[t].pc = "idle"
        /\ \/ /\ thr[t].pc = "update_data" /\ acked' = acked /\ thr[t].addr \in Indexes
              /\ rawArray'[thr[t].addr] = [key |-> K(t), data |-> K(t)]
              /\ \A a \in Indexes : a # thr[t].addr => rawArray'[a] = rawArray[a]
           \/ thr[t].pc = "orphan" /\ acked' = acked /\ rawArray' = rawArray
           \/ /\ thr[t].pc = "cells" /\ DOMAIN thr[t].cells = {}
              /\ acked' = acked \union {K(t)} /\ rawArray' = rawArray
        /\ UNCHANGED <<bucketsArray, seed, num>>
    BY UnlockStep
  <2>2. SoloStep(t)
    BY <2>1, SoloHeld
  <2>3. \A a \in Indexes : KeepEntry(a)
    <3>1. CASE thr[t].pc = "update_data"
      <4>1. rawArray[thr[t].addr].key = K(t)
        BY <3>1 DEF EntryInv, EntryOK
      <4>2. /\ rawArray'[thr[t].addr].key = K(t) /\ rawArray'[thr[t].addr].data = K(t)
            /\ \A a \in Indexes : a # thr[t].addr => rawArray'[a] = rawArray[a]
        BY <2>1, <3>1, SMTT(30)
      <4> QED BY <4>1, <4>2 DEF KeepEntry, Own
    <3>2. CASE thr[t].pc # "update_data"
      BY <2>1, <3>2, <1>SameEntries
    <3> QED BY <3>1, <3>2
  <2>4. thr[t].pc # "empty" /\ thr'[t].pc \notin Moving /\ ("cells" \in Moving)
        /\ "update_data" \notin Moving /\ "orphan" \notin Moving
    BY <2>1 DEF Moving
  <2>5. PlaceInv'
    BY <2>1, <2>2, <2>3, <2>4, <1>KeepPlace
  <2>6. AckInv'
    <3>1. CASE thr[t].pc # "cells"
      BY <2>1, <2>2, <2>3, <2>4, <3>1, <1>KeepAck
    <3>2. CASE thr[t].pc = "cells"
      <4>1. ASSUME NEW k \in acked' PROVE StoredNext(k)
        <5>1. k \in acked \union {K(t)} /\ k \in Keys
          BY <2>1, <3>2, <4>1, ServedCall, NotLocked DEF TypeInv
        <5>2. ~Kept(t, k)
          BY <2>1, <3>2 DEF Kept
        <5>3. CASE RowOf[k] = R(t)
          BY <2>1, <2>3, <2>4, <3>2, <5>1, <5>2, <5>3, <1>KeepStored DEF AckInv
        <5>4. CASE RowOf[k] # R(t)
          <6>1. k \in acked
            BY <5>1, <5>4 DEF R
          <6> QED BY <2>1, <2>2, <2>3, <5>1, <5>4, <6>1, <1>SoloStored, <1>KeepStored
        <5> QED BY <5>3, <5>4
      <4> QED BY <2>2, <2>4, <4>1, <1>SoloAck
    <3> QED BY <3>1, <3>2
  <2> QED BY <2>1, <2>2, <2>5, <2>6, <1>IdleEntries

\* An occupied cell that a step leaves alone stays placed, a stored key stored.
<1>SameCellPlaced.
      ASSUME PlaceInv, NEW t \in Threads, SoloStep(t), UNCHANGED rawArray,
             NEW r \in Rows, NEW s \in Slots, seed'[r] = seed[r],
             bucketsArray'[r][s] = bucketsArray[r][s], bucketsArray[r][s].length # 0,
             ~(thr[t].pc = "empty" /\ R(t) = r)
      PROVE  PlacedNext(r, s, bucketsArray'[r][s])
  <2> USE <1>SameCellPlaced
  <2>1. Placed(r, s, bucketsArray[r][s])
    BY <1>SoloPlaced DEF Free
  <2>2. KeepEntry(bucketsArray[r][s].addr)
    BY DEF KeepEntry
  <2> QED BY <2>1, <2>2, <1>KeepPlaced

<1>SameCellStored.
      ASSUME NEW k, Stored(k), UNCHANGED rawArray, seed'[RowOf[k]] = seed[RowOf[k]],
             LET s == hash[seed[RowOf[k]]][k] IN
               bucketsArray'[RowOf[k]][s] = bucketsArray[RowOf[k]][s]
      PROVE  StoredNext(k)
  BY <1>SameCellStored DEF Stored, StoredNext

<1>LinkSInv.
      ASSUME Ground, Serial, IInv, EntryInv, PlaceInv, AckInv, NEW t \in Threads, Link(t)
      PROVE  EntryInv' /\ PlaceInv' /\ AckInv'
  <2> USE <1>LinkSInv
  <2> USE DEF IInv
  <2>1. /\ (\A u \in Threads \ {t} : thr'[u] = thr[u])
        /\ thr[t].pc = "link" /\ thr'[t].pc = "idle" /\ acked' = acked \union {K(t)}
        /\ bucketsArray'[R(t)][slot(t)] = combine(K(t), thr[t].addr)
        /\ \A r \in Rows, s \in Slots : <<r, s>> # <<R(t), slot(t)>> =>
             bucketsArray'[r][s] = bucketsArray[r][s]
        /\ UNCHANGED <<seed, rawArray>>
    BY LinkStep
  <2>2. /\ thr[t].pc \in Locked /\ thr[t].pc \in Pending /\ thr[t].pc \notin Moving
        /\ thr[t].pc \notin {"idle", "empty"} /\ thr'[t].pc \notin Moving
    BY <2>1 DEF Locked, Pending, Moving
  <2>3. SoloStep(t)
    BY <2>1, <2>2, SoloHeld
  <2>4. /\ rawArray[thr[t].addr].key = K(t) /\ rawArray[thr[t].addr].data = K(t)
        /\ Free(bucketsArray[R(t)], slot(t))
    <3>1. thr[t].then = "link"
      BY <2>1, <2>2 DEF VectorInv, VectorOK
    <3> QED BY <2>2, <3>1 DEF EntryInv, EntryOK
  <2>5. PICK c : c = combine(K(t), thr[t].addr)
    OBVIOUS
  <2>6. c.length = 1 /\ c.addr = thr[t].addr /\ c.finger = fingerprint[K(t)]
    BY <2>5 DEF combine
  <2>7. PlacedNext(R(t), slot(t), c)
    BY <2>1, <2>4, <2>6 DEF PlacedNext, Own, slot, R
  <2>8. PlaceInv'
    <3>1. ASSUME NEW r \in Rows, NEW s \in Slots, bucketsArray'[r][s].length # 0
          PROVE  PlacedNext(r, s, bucketsArray'[r][s])
      <4>1. CASE r = R(t) /\ s = slot(t)
        BY <2>1, <2>5, <2>7, <4>1
      <4>2. CASE ~(r = R(t) /\ s = slot(t))
        <5>1. bucketsArray'[r][s] = bucketsArray[r][s]
          BY <2>1, <4>2
        <5> QED BY <2>1, <2>2, <2>3, <3>1, <5>1, <1>SameCellPlaced
      <4> QED BY <4>1, <4>2
    <3> QED BY <2>2, <2>3, <3>1, <1>SoloPlace
  <2>9. AckInv'
    <3>1. StoredNext(K(t))
      BY <2>1, <2>4, <2>5, <2>6 DEF StoredNext, slot, R
    <3>2. ASSUME NEW k \in acked PROVE StoredNext(k)
      <4>1. k \in Keys /\ Stored(k)
        BY <2>2, <2>3, <1>SoloStored DEF TypeInv
      <4>2. PICK r, s : r = RowOf[k] /\ s = hash[seed[RowOf[k]]][k]
        OBVIOUS
      <4>3. r \in Rows /\ s \in Slots /\ ~Free(bucketsArray[r], s)
        BY <4>1, <4>2, StoredAt
      <4>4. ~(r = R(t) /\ s = slot(t))
        BY <2>4, <4>3
      <4>5. bucketsArray'[r][s] = bucketsArray[r][s]
        BY <2>1, <4>3, <4>4
      <4> QED BY <2>1, <4>1, <4>2, <4>5, <1>SameCellStored
    <3>3. \A k \in acked' : StoredNext(k)
      BY <2>1, <3>1, <3>2
    <3> QED BY <2>2, <2>3, <3>3, <1>SoloAck
  <2> QED BY <2>1, <2>3, <2>8, <2>9, <1>IdleEntries

<1>ReseedSInv.
      ASSUME Ground, Serial, IInv, EntryInv, PlaceInv, AckInv, NEW t \in Threads,
             thr[t].pc = "reseed", NEW new \in Seeds, Searched(t, new),
             UNCHANGED <<bucketsArray, rawArray, num, mutexArray, cseed, acked>>
      PROVE  EntryInv' /\ PlaceInv' /\ AckInv'
  <2> USE <1>ReseedSInv
  <2>0. TypeInv /\ CallInv /\ VectorInv
    BY DEF IInv
  <2>1. /\ seed' = [seed EXCEPT ![R(t)] = new] /\ (\A u \in Threads \ {t} : thr'[u] = thr[u])
        /\ thr'[t].pc = "empty"
        /\ DOMAIN thr[t].cells = {s \in Slots : ~Free(bucketsArray[R(t)], s)}
        /\ DOMAIN thr'[t].cells = DOMAIN thr[t].cells \union {SLOTS_NUM_BUCKET}
        /\ \A i \in DOMAIN thr[t].cells :
             /\ thr'[t].cells[i].cell = bucketsArray[R(t)][i]
             /\ thr'[t].cells[i].slot = hash[new][thr[t].keys[i]]
        /\ thr'[t].cells[SLOTS_NUM_BUCKET].cell = combine(K(t), thr[t].addr)
        /\ thr'[t].cells[SLOTS_NUM_BUCKET].slot = hash[new][K(t)]
    <3>1. seed' = [seed EXCEPT ![R(t)] = new] /\ (\A u \in Threads \ {t} : thr'[u] = thr[u])
          /\ thr'[t].pc = "empty"
      BY <2>0, ReseedStep
    <3>2. /\ DOMAIN thr[t].cells = {s \in Slots : ~Free(bucketsArray[R(t)], s)}
          /\ DOMAIN thr'[t].cells = DOMAIN thr[t].cells \union {SLOTS_NUM_BUCKET}
      BY <2>0, ReseedStep
    <3>3. ASSUME NEW i \in DOMAIN thr[t].cells
          PROVE  /\ thr'[t].cells[i].cell = bucketsArray[R(t)][i]
                 /\ thr'[t].cells[i].slot = hash[new][thr[t].keys[i]]
      BY <2>0, <3>3, <1>ReseedCell
    <3>4. /\ thr'[t].cells[SLOTS_NUM_BUCKET].cell = combine(K(t), thr[t].addr)
          /\ thr'[t].cells[SLOTS_NUM_BUCKET].slot = hash[new][K(t)]
      BY <2>0, ReseedStep
    <3> QED BY <3>1, <3>2, <3>3, <3>4
  <2> USE DEF IInv
  <2>2. KeepKeys
    BY ReseedCalls
  <2>3. /\ thr[t].pc \in Locked /\ thr[t].pc \in Pending /\ thr[t].pc \notin Moving
        /\ thr[t].pc \notin {"idle", "empty"} /\ thr'[t].pc \in Moving /\ thr'[t].pc # "idle"
    BY <2>1 DEF Locked, Pending, Moving
  <2>4. SoloStep(t)
    BY <2>1, <2>3, SoloHeld
  <2>5. K(t)' = K(t) /\ R(t)' = R(t) /\ R(t) \in Rows /\ K(t) \in Keys
    BY <2>2, <2>3, ServedCall DEF KeepKeys
  <2>6. seed'[R(t)] = new /\ \A r \in Rows : r # R(t) => seed'[r] = seed[r]
    BY <2>1, <2>5 DEF TypeInv
  <2>7. /\ thr[t].then = "reseed" /\ rawArray[thr[t].addr].key = K(t)
        /\ rawArray[thr[t].addr].data = K(t)
    BY <2>3 DEF EntryInv, EntryOK, VectorInv, VectorOK
  <2>8. ASSUME NEW i \in DOMAIN thr[t].cells
        PROVE  /\ Placed(R(t), i, bucketsArray[R(t)][i])
               /\ thr[t].keys[i] = rawArray[bucketsArray[R(t)][i].addr].key
    <3>1. i \in Slots /\ ~Free(bucketsArray[R(t)], i)
      BY <2>1
    <3>2. Placed(R(t), i, bucketsArray[R(t)][i])
      BY <2>3, <2>4, <2>5, <3>1, <1>SoloPlaced
    <3>3. thr[t].keys = read_batch_keys(thr[t].cells)
          /\ thr[t].cells = read_bucket_addrs(bucketsArray[R(t)])
      BY <2>3, <2>7 DEF EntryInv, EntryOK, VectorInv, VectorOK
    <3>4. thr[t].keys[i] = rawArray[thr[t].cells[i].addr].key
      BY <3>3 DEF read_batch_keys
    <3>5. thr[t].cells[i] = bucketsArray[R(t)][i]
      BY <3>1, <3>3 DEF read_bucket_addrs
    <3> QED BY <3>2, <3>4, <3>5
  <2>9. PlaceInv'
    <3>1. ASSUME NEW r \in Rows, NEW s \in Slots, bucketsArray'[r][s].length # 0, r # R(t)
          PROVE  PlacedNext(r, s, bucketsArray'[r][s])
      BY <2>3, <2>4, <2>6, <3>1, <1>SameCellPlaced
    <3>2. ASSUME NEW i \in DOMAIN thr'[t].cells
          PROVE  PlacedNext(R(t), thr'[t].cells[i].slot, thr'[t].cells[i].cell)
      <4>1. CASE i \in DOMAIN thr[t].cells
        <5>1. PICK c, k : c = bucketsArray[R(t)][i] /\ k = thr[t].keys[i]
          OBVIOUS
        <5>2. /\ k = rawArray[c.addr].key /\ RowOf[k] = R(t) /\ c.finger = fingerprint[k]
              /\ rawArray[c.addr].data \in Own(k)
          BY <2>8, <4>1, <5>1 DEF Placed
        <5>3. PlacedNext(R(t), hash[new][k], c)
          BY <2>6, <5>2 DEF PlacedNext
        <5> QED BY <2>1, <4>1, <5>1, <5>3
      <4>2. CASE i = SLOTS_NUM_BUCKET
        <5>1. PICK c : c = combine(K(t), thr[t].addr)
          OBVIOUS
        <5>2. c.addr = thr[t].addr /\ c.finger = fingerprint[K(t)]
          BY <5>1 DEF combine
        <5>3. PlacedNext(R(t), hash[new][K(t)], c)
          BY <2>6, <2>7, <5>2 DEF PlacedNext, Own, R
        <5> QED BY <2>1, <4>2, <5>1, <5>3
      <4> QED BY <2>1, <3>2, <4>1, <4>2
    <3>3. \A i \in DOMAIN thr'[t].cells :
            PlacedNext(R(t)', thr'[t].cells[i].slot, thr'[t].cells[i].cell)
      BY <2>5, <3>2
    <3> QED BY <2>1, <2>4, <2>5, <3>1, <3>3, <1>SoloPlace
  <2>10. AckInv'
    <3>1. ASSUME NEW k \in acked PROVE k \in Keys /\ Stored(k)
      BY <2>3, <2>4, <3>1, <1>SoloStored DEF TypeInv
    <3>2. ASSUME NEW k \in acked, RowOf[k] # R(t) PROVE StoredNext(k)
      <4>1. RowOf[k] \in Rows /\ Stored(k)
        BY <3>1, <3>2, StoredAt
      <4> QED BY <2>6, <3>2, <4>1, <1>SameCellStored
    <3>3. KeptNext(t, K(t))
      <4>0. thr'[t].cells[SLOTS_NUM_BUCKET].cell = combine(K(t), thr[t].addr)
        BY <2>1
      <4>1. thr'[t].cells[SLOTS_NUM_BUCKET].cell.addr = thr[t].addr
        BY <4>0, <1>CellFields, SMTT(30)
      <4> QED BY <2>1, <2>7, <4>1 DEF KeptNext
    <3>4. ASSUME NEW k \in acked, RowOf[k] = R(t) PROVE KeptNext(t, k)
      <4>1. PICK s : s = hash[seed[R(t)]][k]
        OBVIOUS
      <4>2. /\ s \in Slots /\ ~Free(bucketsArray[R(t)], s)
            /\ rawArray[bucketsArray[R(t)][s].addr].key = k
        BY <3>1, <3>4, <4>1, StoredAt
      <4>3. s \in DOMAIN thr[t].cells
        BY <2>1, <4>2
      <4>4. s \in DOMAIN thr'[t].cells /\ thr'[t].cells[s].cell = bucketsArray[R(t)][s]
        BY <2>1, <4>3
      <4> QED BY <4>2, <4>4 DEF KeptNext
    <3>5. \A k \in acked' : ~(thr'[t].pc \in Moving /\ R(t)' = RowOf[k]) => StoredNext(k)
      BY <2>3, <2>5, <3>2
    <3>6. \A k \in acked' \union {K(t)'} : RowOf[k] = R(t)' => KeptNext(t, k)
      BY <2>5, <3>3, <3>4
    <3> QED BY <2>4, <3>5, <3>6, <1>SoloAck
  <2> QED BY <2>3, <2>4, <2>9, <2>10, <1>IdleEntries

<1>EmptySInv.
      ASSUME Ground, Serial, IInv, EntryInv, PlaceInv, AckInv, NEW t \in Threads, empty_bucket(t)
      PROVE  EntryInv' /\ PlaceInv' /\ AckInv'
  <2> USE <1>EmptySInv
  <2> USE DEF IInv
  <2>1. /\ KeepKeys /\ (\A u \in Threads \ {t} : thr'[u] = thr[u])
        /\ thr[t].pc = "empty" /\ thr'[t].pc = "cells" /\ thr'[t].cells = thr[t].cells
        /\ \A s \in Slots : bucketsArray'[R(t)][s] = ZeroCell
        /\ \A r \in Rows : r # R(t) => bucketsArray'[r] = bucketsArray[r]
        /\ UNCHANGED <<seed, rawArray, acked>>
    BY EmptyStep
  <2>2. /\ thr[t].pc \in Locked /\ thr[t].pc \in Moving /\ thr[t].pc # "idle"
        /\ thr'[t].pc \in Moving /\ thr'[t].pc # "idle" /\ thr'[t].pc # "empty"
    BY <2>1 DEF Locked, Moving
  <2>3. SoloStep(t)
    BY <2>1, <2>2, SoloHeld
  <2>4. K(t)' = K(t) /\ R(t)' = R(t) /\ R(t) \in Rows
    BY <2>1, <2>2, ServedCall DEF KeepKeys
  <2>5. PlaceInv'
    <3>1. ASSUME NEW r \in Rows, NEW s \in Slots, bucketsArray'[r][s].length # 0
          PROVE  PlacedNext(r, s, bucketsArray'[r][s])
      <4>1. r # R(t)
        BY <2>1, <3>1, <1>CellFields
      <4>2. bucketsArray'[r][s] = bucketsArray[r][s]
        BY <2>1, <4>1
      <4> QED BY <2>1, <2>3, <3>1, <4>1, <4>2, <1>SameCellPlaced
    <3>2. ASSUME NEW i \in DOMAIN thr'[t].cells
          PROVE  PlacedNext(R(t)', thr'[t].cells[i].slot, thr'[t].cells[i].cell)
      <4>1. PICK c, s : c = thr[t].cells[i].cell /\ s = thr[t].cells[i].slot
        OBVIOUS
      <4>2. Placed(R(t), s, c)
        BY <2>1, <2>2, <3>2, <4>1 DEF PlaceInv
      <4>3. KeepEntry(c.addr)
        BY <2>1 DEF KeepEntry
      <4>4. PlacedNext(R(t), s, c)
        BY <2>1, <4>2, <4>3, <1>KeepPlaced
      <4> QED BY <2>1, <2>4, <4>1, <4>4
    <3> QED BY <2>3, <3>1, <3>2, <1>SoloPlace
  <2>6. AckInv'
    <3>1. ASSUME NEW k \in acked', ~(thr'[t].pc \in Moving /\ R(t)' = RowOf[k]) PROVE StoredNext(k)
      <4>1. k \in acked /\ k \in Keys /\ RowOf[k] # R(t)
        BY <2>1, <2>2, <2>4, <3>1 DEF TypeInv
      <4>2. Stored(k)
        BY <2>3, <4>1, <1>SoloStored
      <4>3. RowOf[k] \in Rows
        BY <4>1, <4>2, StoredAt
      <4> QED BY <2>1, <4>1, <4>2, <4>3, <1>SameCellStored
    <3>2. ASSUME NEW k \in acked' \union {K(t)'}, RowOf[k] = R(t)' PROVE KeptNext(t, k)
      <4>1. Kept(t, k)
        BY <2>1, <2>2, <2>4, <3>2 DEF AckInv
      <4> QED BY <2>1, <4>1 DEF Kept, KeptNext
    <3> QED BY <2>3, <3>1, <3>2, <1>SoloAck
  <2> QED BY <2>2, <2>3, <2>5, <2>6, <1>IdleEntries

<1>WriteSInv.
      ASSUME Ground, Serial, IInv, EntryInv, PlaceInv, AckInv, NEW t \in Threads, write_cell(t)
      PROVE  EntryInv' /\ PlaceInv' /\ AckInv'
  <2> USE <1>WriteSInv
  <2> USE DEF IInv
  <2>1. /\ KeepKeys /\ (\A u \in Threads \ {t} : thr'[u] = thr[u])
        /\ thr[t].pc = "cells" /\ thr'[t].pc = "cells"
        /\ \A r \in Rows : r # R(t) => bucketsArray'[r] = bucketsArray[r]
        /\ UNCHANGED <<seed, rawArray, acked>>
    BY WriteStep
  <2>2. PICK i \in DOMAIN thr[t].cells :
          /\ DOMAIN thr'[t].cells = DOMAIN thr[t].cells \ {i}
          /\ \A j \in DOMAIN thr'[t].cells : thr'[t].cells[j] = thr[t].cells[j]
          /\ bucketsArray'[R(t)][thr[t].cells[i].slot] = thr[t].cells[i].cell
          /\ \A r \in Rows, s \in Slots : <<r, s>> # <<R(t), thr[t].cells[i].slot>> =>
               bucketsArray'[r][s] = bucketsArray[r][s]
    BY WriteStep
  <2>3. PICK c, x : c = thr[t].cells[i].cell /\ x = thr[t].cells[i].slot
    OBVIOUS
  <2>4. /\ thr[t].pc \in Locked /\ thr[t].pc \in Moving /\ thr[t].pc # "idle"
        /\ thr[t].pc # "empty" /\ thr'[t].pc \in Moving /\ thr'[t].pc # "idle" /\ thr'[t].pc # "empty"
    BY <2>1 DEF Locked, Moving
  <2>5. SoloStep(t)
    BY <2>1, <2>4, SoloHeld
  <2>6. K(t)' = K(t) /\ R(t)' = R(t) /\ R(t) \in Rows /\ K(t) \in Keys
    BY <2>1, <2>4, ServedCall DEF KeepKeys
  <2>7. c.length = 1 /\ Free(bucketsArray[R(t)], x)
    BY <2>1, <2>3, <2>4 DEF VectorInv, VectorOK
  <2>8. ASSUME NEW j \in DOMAIN thr[t].cells
        PROVE  PlacedNext(R(t), thr[t].cells[j].slot, thr[t].cells[j].cell)
    <3>1. PICK d, s : d = thr[t].cells[j].cell /\ s = thr[t].cells[j].slot
      OBVIOUS
    <3>2. Placed(R(t), s, d)
      BY <2>4, <3>1 DEF PlaceInv
    <3>3. KeepEntry(d.addr)
      BY <2>1 DEF KeepEntry
    <3>4. PlacedNext(R(t), s, d)
      BY <2>1, <3>2, <3>3, <1>KeepPlaced
    <3> QED BY <3>1, <3>4
  <2>9. PlacedNext(R(t), x, c)
    BY <2>3, <2>8
  <2>10. PlaceInv'
    <3>1. ASSUME NEW r \in Rows, NEW s \in Slots, bucketsArray'[r][s].length # 0
          PROVE  PlacedNext(r, s, bucketsArray'[r][s])
      <4>1. CASE r = R(t) /\ s = x
        BY <2>2, <2>3, <2>9, <4>1
      <4>2. CASE ~(r = R(t) /\ s = x)
        <5>1. bucketsArray'[r][s] = bucketsArray[r][s]
          BY <2>2, <2>3, <4>2
        <5> QED BY <2>1, <2>4, <2>5, <3>1, <5>1, <1>SameCellPlaced
      <4> QED BY <4>1, <4>2
    <3>2. ASSUME NEW j \in DOMAIN thr'[t].cells
          PROVE  PlacedNext(R(t)', thr'[t].cells[j].slot, thr'[t].cells[j].cell)
      BY <2>2, <2>6, <2>8, <3>2
    <3> QED BY <2>4, <2>5, <3>1, <3>2, <1>SoloPlace
  <2>11. AckInv'
    <3>1. ASSUME NEW k \in Keys, Stored(k) PROVE StoredNext(k)
      <4>1. PICK r, s : r = RowOf[k] /\ s = hash[seed[RowOf[k]]][k]
        OBVIOUS
      <4>2. r \in Rows /\ s \in Slots /\ ~Free(bucketsArray[r], s)
        BY <3>1, <4>1, StoredAt
      <4>3. ~(r = R(t) /\ s = x)
        BY <2>7, <4>2
      <4>4. bucketsArray'[r][s] = bucketsArray[r][s]
        BY <2>2, <2>3, <4>2, <4>3
      <4> QED BY <2>1, <3>1, <4>1, <4>4, <1>SameCellStored
    <3>2. ASSUME NEW k \in acked', ~(thr'[t].pc \in Moving /\ R(t)' = RowOf[k]) PROVE StoredNext(k)
      <4>1. k \in acked /\ k \in Keys /\ RowOf[k] # R(t)
        BY <2>1, <2>4, <2>6, <3>2 DEF TypeInv
      <4> QED BY <2>5, <3>1, <4>1, <1>SoloStored
    <3>3. ASSUME NEW k \in acked' \union {K(t)'}, RowOf[k] = R(t)'
          PROVE  KeptNext(t, k) \/ (thr'[t].pc = "cells" /\ StoredNext(k))
      <4>1. k \in acked \union {K(t)} /\ k \in Keys /\ RowOf[k] = R(t)
        BY <2>1, <2>6, <3>3 DEF TypeInv
      <4>2. CASE Stored(k)
        BY <2>1, <3>1, <4>1, <4>2
      <4>3. CASE Kept(t, k)
        <5>1. PICK j \in DOMAIN thr[t].cells : rawArray[thr[t].cells[j].cell.addr].key = k
          BY <4>3 DEF Kept
        <5>2. CASE j = i
          <6>1. rawArray'[c.addr].key = k /\ hash[seed'[R(t)]][k] = x
            BY <2>1, <2>3, <2>9, <5>1, <5>2 DEF PlacedNext
          <6>2. StoredNext(k)
            <7>1. bucketsArray'[RowOf[k]][hash[seed'[RowOf[k]]][k]] = c
              BY <2>2, <2>3, <4>1, <6>1
            <7> QED BY <2>7, <6>1, <7>1 DEF StoredNext
          <6> QED BY <2>1, <6>2
        <5>3. CASE j # i
          <6>1. j \in DOMAIN thr'[t].cells /\ thr'[t].cells[j] = thr[t].cells[j]
            BY <2>2, <5>3
          <6> QED BY <2>1, <5>1, <6>1 DEF KeptNext
        <5> QED BY <5>2, <5>3
      <4> QED BY <2>4, <4>1, <4>2, <4>3 DEF AckInv
    <3> QED BY <2>5, <3>2, <3>3, <1>SoloAck
  <2> QED BY <2>4, <2>5, <2>10, <2>11, <1>IdleEntries

<1>QuietSInv.
      ASSUME EntryInv, PlaceInv, AckInv, QuietStep PROVE EntryInv' /\ PlaceInv' /\ AckInv'
  <2> USE <1>QuietSInv
  <2>1. UNCHANGED <<bucketsArray, seed, rawArray, acked>>
    BY DEF QuietStep
  <2>2. \A u \in Threads : thr'[u].pc \in Moving =>
          thr'[u] = thr[u] /\ K(u)' = K(u) /\ R(u)' = R(u)
    BY PcSets DEF QuietStep
  <2>3. PlaceInv'
    <3>1. ASSUME NEW r \in Rows, NEW s \in Slots, ~Free(bucketsArray[r], s)', ~Emptying(r)'
          PROVE  Placed(r, s, bucketsArray[r][s])'
      <4>1. Placed(r, s, bucketsArray[r][s])
        BY <2>1, <3>1, QuietReseeding DEF PlaceInv, Free
      <4> QED BY <2>1, <4>1 DEF Placed
    <3>2. ASSUME NEW u \in Threads, thr'[u].pc \in Moving, NEW i \in DOMAIN thr'[u].cells
          PROVE  Placed(R(u), thr[u].cells[i].slot, thr[u].cells[i].cell)'
      <4>1. Placed(R(u), thr[u].cells[i].slot, thr[u].cells[i].cell)
        BY <2>2, <3>2 DEF PlaceInv
      <4> QED BY <2>1, <2>2, <3>2, <4>1 DEF Placed
    <3> QED BY <3>1, <3>2 DEF PlaceInv
  <2>4. AckInv'
    <3>1. ASSUME NEW k PROVE Stored(k)' <=> Stored(k)
      BY <2>1 DEF Stored
    <3>2. ASSUME NEW k \in acked', ~Reseeding(RowOf[k])' PROVE Stored(k)'
      BY <2>1, <3>1, <3>2, QuietReseeding DEF AckInv
    <3>3. ASSUME NEW u \in Threads, thr'[u].pc \in Moving, NEW k \in acked' \union {K(u)'},
                 RowOf[k] = R(u)'
          PROVE  Kept(u, k)' \/ (thr'[u].pc = "cells" /\ Stored(k)')
      <4>1. Kept(u, k) \/ (thr[u].pc = "cells" /\ Stored(k))
        BY <2>1, <2>2, <3>3 DEF AckInv
      <4>2. Kept(u, k)' <=> Kept(u, k)
        BY <2>1, <2>2, <3>3 DEF Kept
      <4> QED BY <2>2, <3>1, <3>3, <4>1, <4>2
    <3> QED BY <3>2, <3>3 DEF AckInv
  <2> QED BY <2>3, <2>4, <1>QuietEntries

<1> SUFFICES ASSUME Ground, Serial, IInv, EntryInv, PlaceInv, AckInv, [Next]_vars
             PROVE  EntryInv' /\ PlaceInv' /\ AckInv'
  OBVIOUS
<1> DEFINE Goal == EntryInv' /\ PlaceInv' /\ AckInv'
<1>0. TypeInv /\ CallInv /\ VectorInv /\ BoundInv
  BY DEF IInv
<1>1. ASSUME UNCHANGED <<bucketsArray, seed, rawArray, num, mutexArray, thr, cseed, op, acked>>
      PROVE  Goal
  BY <1>0, <1>1, StopStep, <1>QuietSInv
<1>2. ASSUME NEW q \in Cors, NEW w \in Workload, Call(q, w[1], w[2]) PROVE Goal
  BY <1>0, <1>2, CallStep, <1>QuietSInv
<1>3. ASSUME NEW q \in Cors, Return(q) PROVE Goal
  BY <1>0, <1>3, ReturnStep, <1>QuietSInv
<1>4. ASSUME NEW q \in Cors, NEW t \in Threads, Begin(t, q) PROVE Goal
  BY <1>0, <1>4, BeginStep, <1>QuietSInv
<1>5. ASSUME NEW t \in Threads, GetAddr(t) PROVE Goal
  BY <1>0, <1>5, GetAddrStep, <1>QuietSInv
<1>6. ASSUME NEW t \in Threads, GetData(t) PROVE Goal
  BY <1>0, <1>6, GetDataStep, <1>QuietSInv
<1>7. ASSUME NEW t \in Threads, BulkCheck(t), num >= numElements PROVE Goal
  BY <1>1, <1>7 DEF BulkCheck
<1>8. ASSUME NEW t \in Threads, Reseed(t) PROVE Goal
  <2>1. CASE UNCHANGED <<seed, thr, op>>
    BY <1>1, <1>8, <2>1, SearchStep
  <2>2. ASSUME NEW new \in Seeds, Searched(t, new) PROVE Goal
    BY <1>0, <1>8, <2>2, SearchStep, <1>ReseedSInv
  <2> QED BY <1>8, <2>1, <2>2, SearchStep
<1>9. ASSUME UNCHANGED vars PROVE Goal
  BY <1>1, <1>9 DEF vars
<1> QED BY <1>2, <1>3, <1>4, <1>5, <1>6, <1>7, <1>8, <1>9, Steps, <1>LockSInv, <1>UnlockSInv, <1>BulkSInv,
           <1>CountSInv, <1>LinkSInv, <1>EmptySInv, <1>WriteSInv

(***************************************************************************)
(* Gets.                                                                   *)
(***************************************************************************)

FreshNext(q) == op'[q].st # "idle" /\ op'[q].kind = "get" /\ op'[q].fresh

\* The call was a fresh get before and has gone no further than to be served.
OldCall(q) ==
    /\ op[q].st # "idle" /\ op[q].kind = "get" /\ op[q].fresh
    /\ op'[q].key = op[q].key /\ op'[q].slot = op[q].slot
    /\ op'[q].st = "replied" => op[q].st = "replied" /\ op'[q].reply = op[q].reply

\* What a get reads of its row is as before.
KeepRow(q) ==
    \A r \in {RowOf[op[q].key]} :
        /\ ~Reseeding(r)' /\ seed'[r] = seed[r]
        /\ bucketsArray'[r][op[q].slot] = bucketsArray[r][op[q].slot]

\* A step keeps what the invariant says of the gets under way.
LEMMA GetsStep ==
  Ground /\ Serial /\ IInv /\ SInv /\ [Next]_vars => GetInv'
<1>GetFrame.
      ASSUME CallInv', GetInv, acked \subseteq acked',
             \A q \in Cors : FreshNext(q) => FreshOK(q)' \/ (OldCall(q) /\ KeepRow(q)),
             \A u \in Threads : thr'[u].pc = "data" =>
               DataOK(u)' \/ (/\ thr'[u] = thr[u]
                              /\ FreshNext(thr[u].q) => OldCall(thr[u].q) /\ KeepRow(thr[u].q))
      PROVE  GetInv'
  <2> USE <1>GetFrame
  <2>1. ASSUME NEW q \in Cors PROVE FreshOK(q)'
    <3>1. CASE ~FreshNext(q)
      BY <3>1 DEF FreshOK, FreshNext
    <3>2. CASE OldCall(q) /\ KeepRow(q)
      <4>1. /\ op[q].key \in acked
            /\ op[q].slot = hash[seed[RowOf[op[q].key]]][op[q].key]
            /\ op[q].st = "replied" => op[q].reply \in Own(op[q].key)
        BY <3>2 DEF GetInv, FreshOK, OldCall
      <4>2. /\ op'[q].key = op[q].key /\ op'[q].slot = op[q].slot
            /\ op'[q].st = "replied" => op[q].st = "replied" /\ op'[q].reply = op[q].reply
        BY <3>2 DEF OldCall
      <4>3. PICK k : k = op[q].key
        OBVIOUS
      <4>4. op'[q].key = k /\ ~Reseeding(RowOf[k])' /\ seed'[RowOf[k]] = seed[RowOf[k]]
        BY <3>2, <4>2, <4>3 DEF KeepRow
      <4>5. /\ k \in acked' /\ op'[q].slot = hash[seed'[RowOf[k]]][k]
            /\ op'[q].st = "replied" => op'[q].reply \in Own(k)
        BY <4>1, <4>2, <4>3, <4>4
      <4>6. ~Reseeding(RowOf[op[q].key])'
        BY <4>4 DEF Reseeding
      <4> QED BY <4>4, <4>5, <4>6 DEF FreshOK, Own
    <3> QED BY <3>1, <3>2
  <2>2. ASSUME NEW u \in Threads PROVE DataOK(u)'
    <3>1. CASE ~(thr'[u].pc = "data" /\ op'[thr'[u].q].fresh)
      BY <3>1 DEF DataOK
    <3>2. CASE thr'[u].pc = "data" /\ op'[thr'[u].q].fresh /\ ~DataOK(u)'
      <4>1. thr'[u] = thr[u]
        BY <3>2
      <4>2. op'[thr'[u].q].st = "served" /\ op'[thr'[u].q].kind = "get"
        BY <3>2 DEF CallInv
      <4>3. FreshNext(thr[u].q)
        BY <3>2, <4>1, <4>2 DEF FreshNext
      <4>4. OldCall(thr[u].q) /\ KeepRow(thr[u].q)
        BY <3>2, <4>3
      <4>5. thr[u].addr = bucketsArray[R(u)][op[thr[u].q].slot].addr
        BY <3>2, <4>1, <4>4 DEF GetInv, DataOK, OldCall
      <4>6. R(u)' = R(u) /\ op'[thr'[u].q].slot = op[thr[u].q].slot
        BY <4>1, <4>4 DEF OldCall, R, K
      <4>7. bucketsArray'[R(u)][op[thr[u].q].slot] = bucketsArray[R(u)][op[thr[u].q].slot]
        BY <4>4 DEF KeepRow, R, K
      <4> QED BY <4>1, <4>5, <4>6, <4>7 DEF DataOK
    <3> QED BY <3>1, <3>2
  <2> QED BY <2>1, <2>2 DEF GetInv

<1>SameCall.
      ASSUME NEW q \in Cors, FreshNext(q), op'[q] = op[q] PROVE OldCall(q)
  BY <1>SameCall, SMTT(30) DEF FreshNext, OldCall

<1>QuietRow.
      ASSUME GetInv, QuietStep, NEW q \in Cors, OldCall(q) PROVE KeepRow(q)
  <2> USE <1>QuietRow
  <2>1. ~Reseeding(RowOf[op[q].key])
    BY DEF GetInv, FreshOK, OldCall
  <2>2. PICK r : r = RowOf[op[q].key]
    OBVIOUS
  <2>3. ~Reseeding(r)'
    BY <2>1, <2>2, QuietReseeding
  <2>4. UNCHANGED <<seed, bucketsArray>>
    BY DEF QuietStep
  <2> QED BY <2>2, <2>3, <2>4 DEF KeepRow

\* Of steps that only change calls, the one of q may have to be looked at.
<1>QuietGets.
      ASSUME CallInv, CallInv', GetInv, QuietStep, NEW q \in Cors,
             \A p \in Cors \ {q} : op'[p] = op[p],
             FreshNext(q) => FreshOK(q)',
             \A u \in Threads : thr'[u].pc = "data" => thr'[u] = thr[u] /\ thr[u].q # q
      PROVE  GetInv'
  <2> USE <1>QuietGets
  <2>1. ASSUME NEW p \in Cors, p # q, FreshNext(p) PROVE OldCall(p) /\ KeepRow(p)
    BY <2>1, <1>SameCall, <1>QuietRow
  <2>2. \A u \in Threads : thr'[u].pc = "data" => thr[u].q \in Cors
    BY DEF CallInv
  <2>3. acked \subseteq acked'
    BY DEF QuietStep
  <2> QED BY <2>1, <2>2, <2>3, <1>GetFrame

<1>SameGets.
      ASSUME CallInv', GetInv, QuietStep, UNCHANGED op,
             \A u \in Threads : thr'[u].pc = "data" => thr'[u] = thr[u] \/ DataOK(u)'
      PROVE  GetInv'
  <2> USE <1>SameGets
  <2>1. ASSUME NEW p \in Cors, FreshNext(p) PROVE OldCall(p) /\ KeepRow(p)
    BY <2>1, <1>SameCall, <1>QuietRow
  <2>2. \A u \in Threads : thr'[u].pc = "data" => thr'[u].q \in Cors
    BY DEF CallInv
  <2>3. acked \subseteq acked'
    BY DEF QuietStep
  <2> QED BY <2>1, <2>2, <2>3, <1>GetFrame

\* The server's seed and the client's agree when a fresh get is sent.
<1>CallGets.
      ASSUME Ground, IInv, GetInv, NEW q \in Cors, NEW w \in Workload, Call(q, w[1], w[2])
      PROVE  GetInv'
  <2> USE <1>CallGets
  <2> USE DEF IInv
  <2>1. /\ CallInv' /\ QuietStep
        /\ op[q].st = "idle" /\ (\A p \in Cors \ {q} : op'[p] = op[p])
        /\ op'[q].st = "sent" /\ op'[q].key = w[2] /\ op'[q].slot = lookup_slot(q, w[2])
        /\ UNCHANGED thr
    BY CallStep
  <2>2. op'[q].fresh => /\ w[2] \in acked /\ ~Reseeding(RowOf[w[2]])
                        /\ cseed[ClientOf[q]][RowOf[w[2]]] = seed[RowOf[w[2]]]
    BY CallStep, Zenon
  <2>3. \A u \in Threads : thr'[u].pc = "data" => thr'[u] = thr[u] /\ thr[u].q # q
    BY <2>1 DEF CallInv
  <2>4. FreshNext(q) => FreshOK(q)'
    <3>1. PICK k : k = w[2]
      OBVIOUS
    <3>2. SUFFICES ASSUME op'[q].fresh PROVE FreshOK(q)'
      BY DEF FreshNext
    <3>3. k \in acked /\ ~Reseeding(RowOf[k]) /\ op'[q].slot = hash[seed[RowOf[k]]][k]
      BY <2>1, <2>2, <3>1, <3>2 DEF lookup_slot
    <3>4. UNCHANGED <<seed, acked>> /\ ~Reseeding(RowOf[k])'
      BY <2>1, <3>3, QuietReseeding DEF QuietStep
    <3>5. op'[q].key = k /\ op'[q].st # "replied"
      BY <2>1, <3>1
    <3>6. ~Reseeding(RowOf[op[q].key])'
      BY <3>4, <3>5 DEF Reseeding
    <3> QED BY <3>3, <3>4, <3>5, <3>6 DEF FreshOK
  <2> QED BY <2>1, <2>3, <2>4, <1>QuietGets

<1>ReturnGets.
      ASSUME Ground, IInv, GetInv, NEW q \in Cors, Return(q)
      PROVE  GetInv'
  <2> USE <1>ReturnGets
  <2> USE DEF IInv
  <2>1. /\ CallInv' /\ QuietStep /\ op[q].st = "replied"
        /\ op'[q].st = "idle" /\ (\A p \in Cors \ {q} : op'[p] = op[p]) /\ UNCHANGED thr
    BY ReturnStep DEF Return
  <2>2. \A u \in Threads : thr'[u].pc = "data" => thr'[u] = thr[u] /\ thr[u].q # q
    BY <2>1 DEF CallInv
  <2>3. ~FreshNext(q)
    BY <2>1 DEF FreshNext
  <2> QED BY <2>1, <2>2, <2>3, <1>QuietGets

<1>BeginGets.
      ASSUME Ground, IInv, GetInv, NEW q \in Cors, NEW t \in Threads, Begin(t, q)
      PROVE  GetInv'
  <2> USE <1>BeginGets
  <2> USE DEF IInv
  <2>1. /\ CallInv' /\ QuietStep
        /\ (\A u \in Threads : thr'[u].pc = "data" => thr'[u] = thr[u])
        /\ (\A p \in Cors \ {q} : op'[p] = op[p])
        /\ op[q].st = "sent" /\ op'[q].st \in {"sent", "served"} /\ op'[q].kind = op[q].kind
        /\ op'[q].key = op[q].key /\ op'[q].slot = op[q].slot
    BY BeginStep
  <2>2. op'[q].fresh = op[q].fresh
    BY BeginStep
  <2>3. ASSUME NEW p \in Cors, FreshNext(p) PROVE OldCall(p) /\ KeepRow(p)
    <3>1. OldCall(p)
      <4>1. CASE p = q
        BY <2>1, <2>2, <2>3, <4>1 DEF FreshNext, OldCall
      <4>2. CASE p # q
        BY <2>1, <2>3, <4>2, <1>SameCall
      <4> QED BY <4>1, <4>2
    <3> QED BY <2>1, <3>1, <1>QuietRow
  <2>4. \A u \in Threads : thr'[u].pc = "data" => thr[u].q \in Cors
    BY <2>1 DEF CallInv
  <2>5. acked \subseteq acked'
    BY <2>1 DEF QuietStep
  <2> QED BY <2>1, <2>3, <2>4, <2>5, <1>GetFrame

<1>GetAddrGets.
      ASSUME Ground, IInv, GetInv, NEW t \in Threads, GetAddr(t)
      PROVE  GetInv'
  <2> USE <1>GetAddrGets
  <2> USE DEF IInv
  <2>1. /\ CallInv' /\ QuietStep /\ UNCHANGED op
        /\ (\A u \in Threads \ {t} : thr'[u] = thr[u]) /\ thr'[t].q = thr[t].q
        /\ thr'[t].addr = bucketsArray[R(t)][op[thr[t].q].slot].addr
    BY GetAddrStep
  <2>2. UNCHANGED bucketsArray /\ R(t)' = R(t)
    BY <2>1 DEF QuietStep, R, K
  <2>3. DataOK(t)'
    BY <2>1, <2>2 DEF DataOK
  <2> QED BY <2>1, <2>3, <1>SameGets

\* The cell that a fresh get read leads to the entry of its key.
<1>GetDataGets.
      ASSUME Ground, IInv, PlaceInv, AckInv, GetInv, NEW t \in Threads, GetData(t)
      PROVE  GetInv'
  <2> USE <1>GetDataGets
  <2> USE DEF IInv
  <2>1. /\ CallInv' /\ QuietStep /\ thr[t].pc = "data" /\ thr'[t] = Idle
        /\ (\A u \in Threads \ {t} : thr'[u] = thr[u])
        /\ op' = Answered(t, rawArray[thr[t].addr].data)
    BY GetDataStep
  <2>2. PICK q : q = thr[t].q
    OBVIOUS
  <2>3. q \in Cors /\ ThreadOf[q] = t /\ op[q].st = "served" /\ op[q].kind = "get"
    BY <2>1, <2>2 DEF CallInv
  <2>4. \A u \in Threads : thr'[u].pc = "data" => thr'[u] = thr[u] /\ thr[u].q # q
    <3>1. thr'[t].pc # "data"
      BY <2>1, IdlePc
    <3>2. \A u \in Threads : thr'[u].pc = "data" => ThreadOf[thr'[u].q] = u
      BY <2>1 DEF CallInv
    <3> QED BY <2>1, <2>3, <3>1, <3>2
  <2>5. /\ \A p \in Cors \ {q} : op'[p] = op[p]
        /\ op'[q].key = op[q].key /\ op'[q].slot = op[q].slot
        /\ op'[q].reply = rawArray[thr[t].addr].data
    <3>1. op[q] \in Calls /\ op \in [Cors -> Calls]
      BY <2>3 DEF TypeInv
    <3>2. op' = [op EXCEPT ![q].st = "replied", ![q].reply = rawArray[thr[t].addr].data]
      BY <2>1, <2>2 DEF Answered
    <3>3. \A p \in Cors \ {q} : op'[p] = op[p]
      BY <3>1, <3>2
    <3>4. op'[q] = [op[q] EXCEPT !.st = "replied", !.reply = rawArray[thr[t].addr].data]
      BY <2>3, <3>1, <3>2
    <3> QED BY <3>1, <3>3, <3>4 DEF Calls
  <2>6. op'[q].fresh = op[q].fresh
    <3>1. op[q] \in Calls /\ op \in [Cors -> Calls]
      BY <2>3 DEF TypeInv
    <3>2. op' = [op EXCEPT ![q].st = "replied", ![q].reply = rawArray[thr[t].addr].data]
      BY <2>1, <2>2 DEF Answered
    <3>3. op'[q] = [op[q] EXCEPT !.st = "replied", !.reply = rawArray[thr[t].addr].data]
      BY <2>3, <3>1, <3>2
    <3> QED BY <3>1, <3>3, Zenon DEF Calls
  <2>7. FreshNext(q) => FreshOK(q)'
    <3>1. SUFFICES ASSUME op[q].fresh PROVE FreshOK(q)'
      BY <2>6 DEF FreshNext
    <3>2. PICK k, r, s : k = op[q].key /\ r = RowOf[k] /\ s = op[q].slot
      OBVIOUS
    <3>3. k \in acked /\ k \in Keys /\ ~Reseeding(r) /\ s = hash[seed[r]][k]
      BY <2>3, <3>1, <3>2 DEF GetInv, FreshOK, TypeInv
    <3>4. thr[t].addr = bucketsArray[r][s].addr
      BY <2>1, <2>2, <3>1, <3>2 DEF GetInv, DataOK, R, K
    <3>5. Stored(k)
      BY <3>2, <3>3 DEF AckInv
    <3>6. /\ r \in Rows /\ s \in Slots /\ ~Free(bucketsArray[r], s)
          /\ rawArray[bucketsArray[r][s].addr].key = k
      BY <3>2, <3>3, <3>5, StoredAt
    <3>7. Placed(r, s, bucketsArray[r][s])
      BY <3>3, <3>6, EmptyingReseeds DEF PlaceInv
    <3>8. op'[q].reply \in Own(k)
      BY <2>5, <3>4, <3>6, <3>7 DEF Placed
    <3>9. UNCHANGED <<seed, acked>> /\ ~Reseeding(r)'
      BY <2>1, <3>3, QuietReseeding DEF QuietStep
    <3>10. op'[q].key = k /\ op'[q].slot = s
      BY <2>5, <3>2
    <3>11. ~Reseeding(RowOf[op[q].key])'
      BY <3>2, <3>9, <3>10 DEF Reseeding
    <3> QED BY <3>2, <3>3, <3>8, <3>9, <3>10, <3>11 DEF FreshOK, Own
  <2> QED BY <2>1, <2>3, <2>4, <2>5, <2>7, <1>QuietGets

\* The calls that a holder's step leaves, or answers, are no gets.
<1>HolderCalls.
      ASSUME TypeInv, CallInv, NEW t \in Threads, thr[t].pc \in Locked, NEW val,
             UNCHANGED op \/ op' = Answered(t, val), NEW q \in Cors, FreshNext(q)
      PROVE  op'[q] = op[q]
  <2> USE <1>HolderCalls
  <2>1. /\ thr[t].q \in Cors /\ op[thr[t].q].kind # "get"
        /\ op \in [Cors -> Calls] /\ op[thr[t].q] \in Calls
    BY NotLocked DEF CallInv, TypeInv
  <2>2. CASE op' = Answered(t, val)
    <3>1. q # thr[t].q => op'[q] = op[q]
      BY <2>1, <2>2 DEF Answered
    <3>2. op'[thr[t].q].kind = op[thr[t].q].kind
      BY <2>1, <2>2 DEF Answered, Calls
    <3> QED BY <2>1, <3>1, <3>2 DEF FreshNext
  <2> QED BY <2>2

\* A holder whose step leaves the seeds and the row of a fresh get does not disturb it.
<1>SoloGets.
      ASSUME TypeInv, CallInv, CallInv', GetInv, NEW t \in Threads, SoloStep(t),
             thr'[t].pc # "data", acked \subseteq acked',
             \A q \in Cors : FreshNext(q) => OldCall(q),
             \A q \in Cors, r \in Rows :
               FreshNext(q) /\ OldCall(q) /\ r = RowOf[op[q].key] /\ ~Reseeding(r) =>
                 /\ ~(thr'[t].pc \in Moving /\ R(t)' = r) /\ seed'[r] = seed[r]
                 /\ bucketsArray'[r][op[q].slot] = bucketsArray[r][op[q].slot],
             RowOf \in [Keys -> Rows]
      PROVE  GetInv'
  <2> USE <1>SoloGets
  <2>1. ASSUME NEW q \in Cors, FreshNext(q) PROVE OldCall(q) /\ KeepRow(q)
    <3>1. OldCall(q)
      BY <2>1
    <3>2. PICK r : r = RowOf[op[q].key]
      OBVIOUS
    <3>3. ~Reseeding(r) /\ op[q].key \in Keys
      BY <3>1, <3>2 DEF GetInv, FreshOK, OldCall, CallInv
    <3>4. r \in Rows
      BY <3>2, <3>3
    <3>5. /\ ~(thr'[t].pc \in Moving /\ R(t)' = r) /\ seed'[r] = seed[r]
          /\ bucketsArray'[r][op[q].slot] = bucketsArray[r][op[q].slot]
      BY <2>1, <3>1, <3>2, <3>3, <3>4
    <3>6. ~Reseeding(r)'
      BY <3>5, SoloReseeding
    <3> QED BY <3>1, <3>2, <3>5, <3>6 DEF KeepRow
  <2>2. \A u \in Threads : thr'[u].pc = "data" => thr'[u] = thr[u] /\ thr'[u].q \in Cors
    BY DEF SoloStep, CallInv
  <2> QED BY <2>1, <2>2, <1>GetFrame

\* The steps that leave the seeds and the cells.
<1>SameRowsGets.
      ASSUME Ground, TypeInv, CallInv, CallInv', GetInv, NEW t \in Threads, SoloStep(t),
             thr'[t].pc # "data", thr'[t].pc \notin Moving, acked \subseteq acked',
             \A q \in Cors : FreshNext(q) => op'[q] = op[q], UNCHANGED <<seed, bucketsArray>>
      PROVE  GetInv'
  <2> USE <1>SameRowsGets
  <2>1. \A q \in Cors : FreshNext(q) => OldCall(q)
    BY <1>SameCall
  <2>2. RowOf \in [Keys -> Rows]
    BY DEF Ground, Setting
  <2> QED BY <2>1, <2>2, <1>SoloGets

<1>HolderGets.
      ASSUME Ground, Serial, IInv, GetInv, NEW t \in Threads,
             \/ Put(t) \/ Update(t) \/ update_data(t) \/ Orphan(t) \/ Reseeded(t)
             \/ (BulkCheck(t) /\ ~(num >= numElements)) \/ BulkKey(t) \/ BulkData(t) \/ BulkCount(t)
      PROVE  GetInv'
  <2> USE <1>HolderGets
  <2> USE DEF IInv
  <2>1. CASE Put(t) \/ Update(t)
    <3>1. UNCHANGED <<bucketsArray, seed, op, acked>>
      BY <2>1, LockStep
    <3>2. thr'[t].pc \in {"check", "update_data"}
      BY <2>1, LockStep
    <3>3. thr'[t].pc \notin Moving /\ thr'[t].pc # "data"
      BY <3>2 DEF Moving
    <3>4. SoloStep(t) /\ CallInv'
      BY <2>1, SoloTaken, LockTypes
    <3> QED BY <3>1, <3>3, <3>4, <1>SameRowsGets
  <2>2. CASE update_data(t) \/ Orphan(t) \/ Reseeded(t)
    <3>1. /\ thr[t].pc \in Locked /\ thr'[t].pc = "idle" /\ op' = Answered(t, thr[t].reply)
          /\ \A u \in Threads \ {t} : thr'[u] = thr[u]
          /\ acked \subseteq acked' /\ UNCHANGED <<bucketsArray, seed>> /\ CallInv'
      BY <2>2, UnlockStep
    <3>2. thr'[t].pc \notin Moving /\ thr'[t].pc # "data"
      BY <3>1 DEF Moving
    <3>3. SoloStep(t)
      BY <3>1, SoloHeld
    <3>4. \A q \in Cors : FreshNext(q) => op'[q] = op[q]
      BY <3>1, <1>HolderCalls
    <3> QED BY <3>1, <3>2, <3>3, <3>4, <1>SameRowsGets
  <2>3. CASE (BulkCheck(t) /\ ~(num >= numElements)) \/ BulkKey(t) \/ BulkData(t)
    <3>1. /\ thr[t].pc \in {"check", "key", "value"} /\ thr'[t].pc \in {"key", "value", "count"}
          /\ \A u \in Threads \ {t} : thr'[u] = thr[u]
          /\ UNCHANGED <<bucketsArray, seed, op, acked>> /\ CallInv'
      BY <2>3, BulkStep
    <3>2. thr'[t].pc \notin Moving /\ thr'[t].pc # "data" /\ thr[t].pc \in Locked
      BY <3>1 DEF Moving, Locked, Bulk, Past
    <3>3. SoloStep(t)
      BY <3>1, <3>2, SoloHeld
    <3> QED BY <3>1, <3>2, <3>3, <1>SameRowsGets
  <2>4. CASE BulkCount(t)
    <3>1. /\ thr[t].pc = "count" /\ thr'[t].pc \in Pending
          /\ \A u \in Threads \ {t} : thr'[u] = thr[u]
          /\ UNCHANGED <<bucketsArray, seed, op, acked>> /\ CallInv'
      BY <2>4, CountStep
    <3>2. thr'[t].pc \notin Moving /\ thr'[t].pc # "data" /\ thr[t].pc \in Locked
      BY <3>1 DEF Moving, Locked, Bulk, Past, Pending
    <3>3. SoloStep(t)
      BY <3>1, <3>2, SoloHeld
    <3> QED BY <3>1, <3>2, <3>3, <1>SameRowsGets
  <2> QED BY <2>1, <2>2, <2>3, <2>4

\* A put fills a slot that was free, so not the one of a key that is stored.
<1>LinkGets.
      ASSUME Ground, Serial, IInv, EntryInv, AckInv, GetInv, NEW t \in Threads, Link(t)
      PROVE  GetInv'
  <2> USE <1>LinkGets
  <2> USE DEF IInv
  <2>1. /\ CallInv' /\ (\A u \in Threads \ {t} : thr'[u] = thr[u])
        /\ thr[t].pc = "link" /\ thr'[t].pc = "idle" /\ op' = Answered(t, 0)
        /\ acked \subseteq acked'
        /\ \A r \in Rows, s \in Slots : <<r, s>> # <<R(t), slot(t)>> =>
             bucketsArray'[r][s] = bucketsArray[r][s]
        /\ UNCHANGED seed
    BY LinkStep
  <2>2. thr[t].pc \in Locked /\ thr[t].pc \in Pending /\ thr'[t].pc \notin Moving /\ thr'[t].pc # "data"
    BY <2>1 DEF Locked, Pending, Moving
  <2>3. SoloStep(t)
    BY <2>1, <2>2, SoloHeld
  <2>4. Free(bucketsArray[R(t)], slot(t))
    <3>1. thr[t].then = "link"
      BY <2>1, <2>2 DEF VectorInv, VectorOK
    <3> QED BY <2>2, <3>1 DEF EntryInv, EntryOK
  <2>5. \A q \in Cors : FreshNext(q) => OldCall(q)
    BY <2>1, <2>2, <1>HolderCalls, <1>SameCall
  <2>6. ASSUME NEW q \in Cors, NEW r \in Rows, OldCall(q), r = RowOf[op[q].key], ~Reseeding(r)
        PROVE  bucketsArray'[r][op[q].slot] = bucketsArray[r][op[q].slot]
    <3>1. PICK k, s : k = op[q].key /\ s = op[q].slot
      OBVIOUS
    <3>2. k \in acked /\ k \in Keys /\ s = hash[seed[r]][k]
      BY <2>6, <3>1 DEF GetInv, FreshOK, OldCall, TypeInv
    <3>3. Stored(k)
      BY <2>6, <3>1, <3>2 DEF AckInv
    <3>4. s \in Slots /\ ~Free(bucketsArray[r], s)
      BY <2>6, <3>1, <3>2, <3>3, StoredAt
    <3>5. ~(r = R(t) /\ s = slot(t))
      BY <2>4, <3>4
    <3> QED BY <2>1, <3>1, <3>4, <3>5
  <2>7. RowOf \in [Keys -> Rows]
    BY DEF Ground, Setting
  <2> QED BY <2>1, <2>2, <2>3, <2>5, <2>6, <2>7, <1>SoloGets

<1>ReseedGets.
      ASSUME Ground, Serial, IInv, GetInv, NEW t \in Threads,
             thr[t].pc = "reseed", NEW new \in Seeds, Searched(t, new),
             UNCHANGED <<bucketsArray, rawArray, num, mutexArray, cseed, acked>>
      PROVE  GetInv'
  <2> USE <1>ReseedGets
  <2>0. TypeInv /\ CallInv /\ VectorInv
    BY DEF IInv
  <2>1. /\ seed' = [seed EXCEPT ![R(t)] = new] /\ (\A u \in Threads \ {t} : thr'[u] = thr[u])
        /\ thr'[t].pc = "empty"
    BY <2>0, ReseedStep
  <2> USE DEF IInv
  <2>2. /\ CallInv' /\ KeepKeys
        /\ \A q \in Cors :
             /\ op'[q].st = op[q].st /\ op'[q].kind = op[q].kind /\ op'[q].key = op[q].key
             /\ op'[q].slot = op[q].slot /\ op'[q].reply = op[q].reply
    BY ReseedCalls
  <2>3. \A q \in Cors : /\ op'[q].fresh => op[q].fresh
                        /\ op[q].st # "idle" /\ RowOf[op[q].key] = R(t) => ~op'[q].fresh
    BY ReseedCalls, Zenon
  <2>4. thr[t].pc \in Locked /\ thr[t].pc # "idle" /\ thr'[t].pc # "data" /\ thr'[t].pc # "idle"
    BY <2>1 DEF Locked, Pending
  <2>5. SoloStep(t)
    BY <2>1, <2>4, SoloHeld
  <2>6. R(t)' = R(t) /\ R(t) \in Rows
    BY <2>2, <2>4, ServedCall DEF KeepKeys
  <2>7. \A r \in Rows : r # R(t) => seed'[r] = seed[r]
    BY <2>1, <2>6 DEF TypeInv
  <2>8. ASSUME NEW q \in Cors, FreshNext(q) PROVE OldCall(q) /\ RowOf[op[q].key] # R(t)
    BY <2>2, <2>3, <2>8, Zenon DEF FreshNext, OldCall
  <2>9. RowOf \in [Keys -> Rows]
    BY DEF Ground, Setting
  <2> QED BY <2>2, <2>4, <2>5, <2>6, <2>7, <2>8, <2>9, <1>SoloGets, SMTT(30)

\* A fresh get is not in a row that is being moved.
<1>MoveGets.
      ASSUME Ground, Serial, IInv, GetInv, NEW t \in Threads, empty_bucket(t) \/ write_cell(t)
      PROVE  GetInv'
  <2> USE <1>MoveGets
  <2> USE DEF IInv
  <2>1. /\ CallInv' /\ KeepKeys /\ (\A u \in Threads \ {t} : thr'[u] = thr[u])
        /\ thr[t].pc \in {"empty", "cells"} /\ thr'[t].pc = "cells"
        /\ \A r \in Rows : r # R(t) => bucketsArray'[r] = bucketsArray[r]
        /\ UNCHANGED <<seed, op, acked>>
    BY EmptyStep, WriteStep
  <2>2. /\ thr[t].pc \in Locked /\ thr[t].pc \in Moving /\ thr[t].pc # "idle"
        /\ thr'[t].pc # "data" /\ thr'[t].pc # "idle"
    BY <2>1 DEF Locked, Moving
  <2>3. SoloStep(t)
    BY <2>1, <2>2, SoloHeld
  <2>4. R(t)' = R(t) /\ Reseeding(R(t))
    <3>1. R(t)' = R(t)
      BY <2>1, <2>2 DEF KeepKeys
    <3> QED BY <2>2, <2>3, <3>1, SoloReseeding
  <2>5. \A q \in Cors : FreshNext(q) => OldCall(q)
    BY <2>1, <1>SameCall
  <2>6. RowOf \in [Keys -> Rows]
    BY DEF Ground, Setting
  <2> QED BY <2>1, <2>2, <2>3, <2>4, <2>5, <2>6, <1>SoloGets

<1> SUFFICES ASSUME Ground, Serial, IInv, SInv, [Next]_vars PROVE GetInv'
  OBVIOUS
<1>0. EntryInv /\ PlaceInv /\ AckInv /\ GetInv /\ TypeInv /\ CallInv /\ VectorInv /\ BoundInv
  BY DEF SInv, IInv
<1>1. ASSUME UNCHANGED <<bucketsArray, seed, rawArray, num, mutexArray, thr, cseed, op, acked>>
      PROVE  GetInv'
  <2>1. QuietStep /\ CallInv'
    BY <1>0, <1>1, StopStep
  <2> QED BY <1>0, <1>1, <2>1, <1>SameGets
<1>2. ASSUME NEW q \in Cors, NEW w \in Workload, Call(q, w[1], w[2]) PROVE GetInv'
  BY <1>0, <1>2, <1>CallGets
<1>3. ASSUME NEW q \in Cors, Return(q) PROVE GetInv'
  BY <1>0, <1>3, <1>ReturnGets
<1>4. ASSUME NEW q \in Cors, NEW t \in Threads, Begin(t, q) PROVE GetInv'
  BY <1>0, <1>4, <1>BeginGets
<1>5. ASSUME NEW t \in Threads, GetAddr(t) PROVE GetInv'
  BY <1>0, <1>5, <1>GetAddrGets
<1>6. ASSUME NEW t \in Threads, GetData(t) PROVE GetInv'
  BY <1>0, <1>6, <1>GetDataGets
<1>7. ASSUME NEW t \in Threads, BulkCheck(t), num >= numElements PROVE GetInv'
  BY <1>1, <1>7 DEF BulkCheck
<1>8. ASSUME NEW t \in Threads, Reseed(t) PROVE GetInv'
  <2>1. CASE UNCHANGED <<seed, thr, op>>
    BY <1>1, <1>8, <2>1, SearchStep
  <2>2. ASSUME NEW new \in Seeds, Searched(t, new) PROVE GetInv'
    BY <1>0, <1>8, <2>2, SearchStep, <1>ReseedGets
  <2> QED BY <1>8, <2>1, <2>2, SearchStep
<1>9. ASSUME UNCHANGED vars PROVE GetInv'
  BY <1>1, <1>9 DEF vars
<1> QED BY <1>0, <1>2, <1>3, <1>4, <1>5, <1>6, <1>7, <1>8, <1>9, Steps, <1>HolderGets, <1>LinkGets,
           <1>MoveGets

LEMMA SInvStep ==
  ASSUME Ground, Serial, IInv, SInv, [Next]_vars PROVE SInv'
BY EntriesStep, GetsStep DEF SInv

\* The entry of a loaded key.
(***************************************************************************)
(* The loaded table.                                                       *)
(***************************************************************************)

LEMMA LoadedFacts ==
  ASSUME Ground, NEW i \in DOMAIN Loaded
  PROVE  /\ i \in Nat /\ 1 <= i /\ i <= Len(Loaded) /\ i - 1 \in Indexes /\ i - 1 \in Nat
         /\ i - 1 < Len(Loaded) /\ Loaded[i] \in Keys
<1>1. i \in 1 .. Len(Loaded) /\ Loaded[i] \in Keys
  BY SMTT(30) DEF Ground, Setting
<1>2. i \in Nat /\ 1 <= i /\ i <= Len(Loaded) /\ Len(Loaded) \in Nat /\ numElements \in Nat
      /\ Len(Loaded) <= numElements /\ LastIndex \in Nat /\ numElements <= LastIndex
  BY <1>1, ConstantFacts, IndexFacts, SMTT(30)
<1>3. i - 1 \in Indexes /\ i - 1 \in Nat /\ i - 1 < Len(Loaded)
  BY <1>2, SMTT(30) DEF Indexes
<1> QED BY <1>1, <1>2, <1>3

\* An occupied cell is that of the key whose entry it leads to.
LEMMA InitCell ==
  ASSUME Ground, Init, NEW r \in Rows, NEW s \in Slots
  PROVE  \/ bucketsArray[r][s] = ZeroCell /\ LoadedAt(r, s) = {}
         \/ \E i \in DOMAIN Loaded :
              /\ RowOf[Loaded[i]] = r /\ hash[0][Loaded[i]] = s
              /\ bucketsArray[r][s] = combine(Loaded[i], i - 1)
<1>1. CASE LoadedAt(r, s) = {}
  BY <1>1 DEF Init
<1>2. CASE LoadedAt(r, s) # {}
  <2> DEFINE i == CHOOSE i \in LoadedAt(r, s) : TRUE
  <2>1. i \in LoadedAt(r, s)
    BY <1>2
  <2>2. bucketsArray[r][s] = combine(Loaded[i], i - 1)
    BY <1>2 DEF Init
  <2> HIDE DEF i
  <2> QED BY <2>1, <2>2 DEF LoadedAt
<1> QED BY <1>1, <1>2

LEMMA InitTypes ==
  ASSUME Ground, Init PROVE TypeInv /\ \A t \in Threads : thr[t].pc = "idle"
<1>1. bucketsArray \in [Rows -> [Slots -> CellIn]]
  <2>1. ZeroCell \in CellIn
    BY IndexFacts, SMTT(30) DEF ZeroCell, CellIn, Indexes
  <2>2. \A i \in DOMAIN Loaded : combine(Loaded[i], i - 1) \in CellIn
    BY LoadedFacts, ConstantFacts DEF combine, CellIn
  <2>3. \A r \in Rows, s \in Slots : bucketsArray[r][s] \in CellIn
    BY <2>1, <2>2, InitCell, SMTT(30)
  <2>4. PICK F : bucketsArray = [r \in Rows |-> [s \in Slots |-> F[r][s]]]
    <3> DEFINE G == [r \in Rows |-> [s \in Slots |->
                 IF LoadedAt(r, s) = {} THEN ZeroCell
                 ELSE LET i == CHOOSE i \in LoadedAt(r, s) : TRUE IN combine(Loaded[i], i - 1)]]
    <3>1. bucketsArray = G
      BY DEF Init
    <3>2. G = [r \in Rows |-> [s \in Slots |-> G[r][s]]]
      BY SMTT(30)
    <3> HIDE DEF G
    <3> QED BY <3>1, <3>2
  <2> QED BY <2>3, <2>4
<1>2. seed \in [Rows -> Seeds] /\ cseed \in [ClientProcs -> [Rows -> Seeds]]
  BY ConstantFacts DEF Init
<1>3. rawArray \in [Indexes -> [key : Keys, data : Keys \union Nat]]
  <2>1. \A i \in Indexes : i \in Nat
    BY SMTT(30) DEF Indexes
  <2>2. \A i \in Indexes : i + 1 \in DOMAIN Loaded => Loaded[i + 1] \in Keys
    BY LoadedFacts
  <2>3. Garbage \in Keys
    BY ConstantFacts
  <2> QED BY <2>1, <2>2, <2>3 DEF Init
<1>4. num \in Nat
  BY ConstantFacts DEF Init
<1>5. mutexArray \in [Rows -> Threads \union {Free_}]
  BY DEF Init
<1>6. thr \in [Threads -> Callbacks] /\ \A t \in Threads : thr[t].pc = "idle"
  BY IdleType, IdlePc DEF Init
<1>7. op \in [Cors -> Calls]
  BY NoOpType DEF Init
<1>8. acked \subseteq Keys
  BY LoadedFacts DEF Init
<1> QED BY <1>1, <1>2, <1>3, <1>4, <1>5, <1>6, <1>7, <1>8 DEF TypeInv

LEMMA IInvInit ==
  ASSUME Ground, Init PROVE IInv
<1>1. TypeInv /\ \A t \in Threads : thr[t].pc = "idle"
  BY InitTypes
<1>2. \A t \in Threads : thr[t].pc \notin Locked
  BY <1>1, NotLocked
<1>3. CallInv
  <2>1. \A q \in Cors : op[q].st = "idle"
    BY DEF Init, NoOp
  <2> QED BY <1>1, <2>1 DEF CallInv
<1>4. LockInv
  <2>1. \A r \in Rows, t \in Threads : mutexArray[r] # t
    BY DEF Init, Ground, Setting
  <2> QED BY <1>2, <2>1 DEF LockInv
<1>5. VectorInv
  <2>1. \A t \in Threads : thr[t].pc \notin Bulk \union Pending \union Moving
    BY <1>2, PcSets
  <2> QED BY <2>1, PcSets DEF VectorInv, VectorOK
<1>6. AddrInv
  <2>1. \A t \in Threads, a \in Nat, i \in Nat : ~Pend(t, a) /\ ~Move(t, i, a)
    BY <1>2, PcSets DEF Pend, Move
  <2>2. ASSUME NEW a \in Nat, NEW r \in Rows, NEW s \in Slots, CellAt(r, s, a)
        PROVE  \E i \in DOMAIN Loaded : a = i - 1 /\ RowOf[Loaded[i]] = r /\ hash[0][Loaded[i]] = s
    <3>1. bucketsArray[r][s] # ZeroCell
      BY <2>2, SMTT(30) DEF CellAt, ZeroCell
    <3>2. PICK i \in DOMAIN Loaded :
            /\ RowOf[Loaded[i]] = r /\ hash[0][Loaded[i]] = s
            /\ bucketsArray[r][s] = combine(Loaded[i], i - 1)
      BY <3>1, InitCell
    <3>3. a = i - 1
      BY <2>2, <3>2, SMTT(30) DEF CellAt, combine
    <3> QED BY <3>2, <3>3
  <2>3. ASSUME NEW a \in Nat, NEW r \in Rows, NEW s \in Slots, CellAt(r, s, a)
        PROVE  a < num /\ \A p \in Rows, x \in Slots : CellAt(p, x, a) => p = r /\ x = s
    <3>1. PICK i \in DOMAIN Loaded : a = i - 1 /\ RowOf[Loaded[i]] = r /\ hash[0][Loaded[i]] = s
      BY <2>2, <2>3, SMTT(30)
    <3>2. i \in Nat /\ a < num
      BY <3>1, LoadedFacts DEF Init
    <3>3. ASSUME NEW p \in Rows, NEW x \in Slots, CellAt(p, x, a)
          PROVE  p = r /\ x = s
      <4>1. PICK j \in DOMAIN Loaded : a = j - 1 /\ RowOf[Loaded[j]] = p /\ hash[0][Loaded[j]] = x
        BY <2>2, <3>3, SMTT(30)
      <4>2. i = j
        BY <3>1, <3>2, <4>1, LoadedFacts, SMTT(30)
      <4> QED BY <3>1, <4>1, <4>2
    <3> QED BY <3>2, <3>3
  <2> QED BY <2>1, <2>3 DEF AddrInv
<1>7. BoundInv
  <2>1. PastCheck = {}
    BY <1>1, NotPast DEF PastCheck
  <2>2. Cardinality(PastCheck) = 0
    BY <2>1 DEF Ground, Counting
  <2>3. num = Len(Loaded) /\ Len(Loaded) \in Nat /\ Len(Loaded) <= numElements
        /\ numElements \in Nat /\ LastIndex \in Nat /\ numElements <= LastIndex
    BY ConstantFacts, IndexFacts DEF Init
  <2> QED BY <2>2, <2>3, SMTT(30) DEF BoundInv
<1> QED BY <1>1, <1>3, <1>4, <1>5, <1>6, <1>7 DEF IInv

LEMMA InitEntry ==
  ASSUME Ground, Init, NEW i \in DOMAIN Loaded
  PROVE  /\ rawArray[i - 1].key = Loaded[i] /\ rawArray[i - 1].data = i - 1
         /\ i - 1 \in Own(Loaded[i])
<1>1. i - 1 \in Indexes /\ (i - 1) + 1 = i
  BY LoadedFacts, SMTT(30)
<1>2. PICK a : a = i - 1
  OBVIOUS
<1>3. a \in Indexes /\ a + 1 = i
  BY <1>1, <1>2
<1>4. rawArray[a] = [key |-> Loaded[i], data |-> a]
  BY <1>3 DEF Init
<1>5. a \in Own(Loaded[i])
  BY <1>2 DEF Own
<1> QED BY <1>2, <1>4, <1>5, SMTT(30)

LEMMA SInvInit ==
  ASSUME Ground, Init PROVE SInv
<1>1. TypeInv /\ \A t \in Threads : thr[t].pc = "idle"
  BY InitTypes
<1>2. \A t \in Threads : /\ thr[t].pc \notin Bulk \union Pending
                         /\ thr[t].pc \notin Moving
                         /\ thr[t].pc \notin {"value", "count", "update_data", "data"}
  BY <1>1 DEF Bulk, Pending, Moving, Past
<1>3. EntryInv
  BY <1>2 DEF EntryInv, EntryOK
<1>4. PlaceInv
  <2>1. ASSUME NEW r \in Rows, NEW s \in Slots, ~Free(bucketsArray[r], s)
        PROVE  Placed(r, s, bucketsArray[r][s])
    <3>1. bucketsArray[r][s] # ZeroCell
      BY <2>1, SMTT(30) DEF Free, ZeroCell
    <3>2. PICK i \in DOMAIN Loaded :
            /\ RowOf[Loaded[i]] = r /\ hash[0][Loaded[i]] = s
            /\ bucketsArray[r][s] = combine(Loaded[i], i - 1)
      BY <3>1, InitCell
    <3>3. PICK c : c = bucketsArray[r][s]
      OBVIOUS
    <3>4. c.addr = i - 1 /\ c.finger = fingerprint[Loaded[i]]
      BY <3>2, <3>3, SMTT(30) DEF combine
    <3>5. rawArray[c.addr].key = Loaded[i] /\ rawArray[c.addr].data \in Own(Loaded[i])
      BY <3>4, InitEntry
    <3>6. seed[r] = 0
      BY DEF Init
    <3> QED BY <3>2, <3>3, <3>4, <3>5, <3>6 DEF Placed
  <2> QED BY <1>2, <2>1 DEF PlaceInv
<1>5. AckInv
  <2>1. ASSUME NEW k \in acked PROVE Stored(k)
    <3>1. PICK i \in DOMAIN Loaded : Loaded[i] = k
      BY <2>1 DEF Init
    <3>2. k \in Keys
      BY <3>1, LoadedFacts
    <3>3. PICK r, s : r = RowOf[k] /\ s = hash[0][k]
      OBVIOUS
    <3>4. r \in Rows /\ s \in Slots /\ seed[r] = 0
      BY <3>2, <3>3, ConstantFacts DEF Init
    <3>5. LoadedAt(r, s) # {}
      BY <3>1, <3>3 DEF LoadedAt
    <3>6. PICK j \in DOMAIN Loaded :
            /\ RowOf[Loaded[j]] = r /\ hash[0][Loaded[j]] = s
            /\ bucketsArray[r][s] = combine(Loaded[j], j - 1)
      BY <3>4, <3>5, InitCell
    <3>7. j = i
      BY <3>1, <3>3, <3>6 DEF Ground, Setting
    <3>8. bucketsArray[r][s].length = 1 /\ bucketsArray[r][s].addr = i - 1
      BY <3>6, <3>7, SMTT(30) DEF combine
    <3>9. rawArray[bucketsArray[r][s].addr].key = k
      BY <3>1, <3>8, InitEntry
    <3> QED BY <3>3, <3>4, <3>8, <3>9 DEF Stored
  <2> QED BY <1>2, <2>1 DEF AckInv
<1>6. GetInv
  <2>1. \A q \in Cors : op[q].st = "idle"
    BY DEF Init, NoOp
  <2> QED BY <1>2, <2>1 DEF GetInv, FreshOK, DataOK
<1> QED BY <1>3, <1>4, <1>5, <1>6 DEF SInv

\* While a mutex is free nobody re-seeds the row.
LEMMA FreeRow ==
  ASSUME Ground, IInv, NEW r \in Rows, mutexArray[r] = Free_
  PROVE  ~Reseeding(r) /\ ~Emptying(r)
<1>1. ~Reseeding(r)
  <2> SUFFICES ASSUME NEW t \in Threads, thr[t].pc \in {"empty", "cells"}, R(t) = r
               PROVE  FALSE
    BY DEF Reseeding, R, K
  <2>1. mutexArray[r] = t
    BY DEF IInv, LockInv, Locked, Moving
  <2> QED BY <2>1 DEF Ground, Setting
<1> QED BY <1>1, EmptyingReseeds

(***************************************************************************)
(* The theorems.                                                           *)
(***************************************************************************)

INSTANCE FiniteSetTheorems

\* The facts about sets and numbers that the lemmas assume.
LEMMA GroundHolds == ASSUME Setting PROVE Ground
<1>1. ASSUME NEW S \in SUBSET Threads
      PROVE  /\ IsFiniteSet(S) /\ Cardinality(S) \in Nat /\ (Cardinality(S) = 0 <=> S = {})
             /\ \A T \in SUBSET S : Cardinality(T) <= Cardinality(S)
             /\ \A t \in S : Cardinality(S \ {t}) = Cardinality(S) - 1
  <2>1. IsFiniteSet(S) /\ Cardinality(S) \in Nat
    BY FS_Subset, FS_CardinalityType DEF Setting
  <2>2. Cardinality(S) = 0 <=> S = {}
    BY <2>1, FS_EmptySet
  <2>3. \A T \in SUBSET S : Cardinality(T) <= Cardinality(S)
    BY <2>1, FS_Subset
  <2>4. \A t \in S : Cardinality(S \ {t}) = Cardinality(S) - 1
    BY <2>1, FS_RemoveElement
  <2> QED BY <2>1, <2>2, <2>3, <2>4
<1>2. ASSUME NEW T \in SUBSET Nat, T # {} PROVE \E x \in T : \A y \in T : x <= y
  <2> DEFINE Below == OpToRel(<, Nat)
  <2>1. IsWellFoundedOn(Below, Nat)
    BY NatLessThanWellFounded, Zenon
  <2>2. \A x, y \in Nat : x < y => <<x, y>> \in Below
    BY DEF OpToRel
  <2> HIDE DEF Below
  <2>3. PICK x \in T : \A y \in T : ~(<<y, x>> \in Below)
    BY <1>2, <2>1, WFMin
  <2>4. \A y \in T : x \in Nat /\ y \in Nat /\ ~(y < x)
    BY <2>2, <2>3
  <2> QED BY <2>4, SMTT(30)
<1> QED BY <1>1, <1>2 DEF Ground, Counting, LeastNumber

\* The invariant of any number of threads: callbacks, mutexes, vectors, addresses
\* and the counter.
THEOREM StoreInvariant ==
  ASSUME Setting PROVE Spec => []IInv
<1>0. Ground
  BY GroundHolds
<1>1. Init => IInv
  BY <1>0, IInvInit
<1>2. IInv /\ [Next]_vars => IInv'
  BY <1>0, IInvStep
<1> QED BY <1>1, <1>2, PTL DEF Spec

\* No entry of the packed array is reached from two cells, of one row or of two,
\* however many server threads run bulk_load_data under the mutexes of different
\* rows: every address below the counter has been given out once.
THEOREM StoreEntries ==
  ASSUME Setting PROVE Spec => []EntriesDistinct
<1>1. IInv => EntriesDistinct
  <2> SUFFICES ASSUME IInv, NEW r1 \in Rows, NEW r2 \in Rows, NEW s1 \in Slots, NEW s2 \in Slots,
                      bucketsArray[r1][s1].length = 1, bucketsArray[r2][s2].length = 1
               PROVE  /\ bucketsArray[r1][s1].addr < num
                      /\ bucketsArray[r1][s1].addr = bucketsArray[r2][s2].addr => <<r1, s1>> = <<r2, s2>>
    BY SMTT(30) DEF EntriesDistinct
  <2> DEFINE a == bucketsArray[r1][s1].addr
  <2>1. a \in Nat
    <3>1. bucketsArray[r1][s1] \in CellIn
      BY DEF IInv, TypeInv
    <3> QED BY <3>1, SMTT(30) DEF CellIn, Indexes
  <2>2. CellAt(r1, s1, a)
    BY DEF CellAt
  <2>3. bucketsArray[r2][s2].addr = a => CellAt(r2, s2, a)
    BY DEF CellAt
  <2>4. a < num /\ \A p \in Rows, x \in Slots : CellAt(p, x, a) => p = r1 /\ x = s1
    BY <2>1, <2>2, SMTT(30) DEF IInv, AddrInv
  <2> QED BY <2>3, <2>4
<1> QED BY <1>1, StoreInvariant, PTL

\* The types; the counter stays inside of the memory that one entry more for every
\* thread but one needs; who holds a mutex is in a callback of that row.
THEOREM StoreTypes ==
  ASSUME Setting PROVE Spec => []TypeOK
<1>0. Ground
  BY GroundHolds
<1>1. IInv => TypeOK
  <2> SUFFICES ASSUME IInv PROVE TypeOK
    OBVIOUS
  <2>1. CellIn \subseteq Cell
    BY SMTT(30) DEF CellIn, Cell, Indexes
  <2>2. bucketsArray \in [Rows -> [Slots -> Cell]]
    BY <2>1 DEF IInv, TypeInv
  <2>3. num \in Len(Loaded) .. LastIndex
    <3>1. num \in Indexes
      BY <1>0, NumIndex DEF IInv
    <3>2. Len(Loaded) <= num
      BY DEF IInv, BoundInv
    <3> QED BY <1>0, <3>1, <3>2, ConstantFacts, IndexFacts, SMTT(30) DEF Indexes
  <2>4. ASSUME NEW r \in Rows, mutexArray[r] # Free_
        PROVE  thr[mutexArray[r]].pc \notin {"idle", "get", "data"} /\ R(mutexArray[r]) = r
    <3>1. mutexArray[r] \in Threads
      BY <2>4 DEF IInv, TypeInv
    <3>2. thr[mutexArray[r]].pc \in Locked /\ R(mutexArray[r]) = r
      BY <3>1 DEF IInv, LockInv
    <3> QED BY <3>2, NotLocked
  <2> QED BY <2>2, <2>3, <2>4 DEF TypeOK, IInv, TypeInv
<1> QED BY <1>1, StoreInvariant, PTL

\* The invariant of serial puts: what the entries hold, where the cells are, which
\* keys a bucket keeps and what the gets under way have read.
THEOREM SerialInvariant ==
  ASSUME Setting, Serial PROVE Spec => [](IInv /\ SInv)
<1>0. Ground
  BY GroundHolds
<1>1. Init => IInv /\ SInv
  BY <1>0, IInvInit, SInvInit
<1>2. (IInv /\ SInv) /\ [Next]_vars => (IInv /\ SInv)'
  BY <1>0, IInvStep, SInvStep
<1> QED BY <1>1, <1>2, PTL DEF Spec

\* A key that was loaded, or whose put was answered as stored, stays reachable
\* through the server's seed while the mutex of its row is free, whatever puts
\* re-seed its bucket: case 2 of outback_put_callback moves every key.
THEOREM SerialReachable ==
  ASSUME Setting, Serial PROVE Spec => []AckedReachable
<1>0. Ground
  BY GroundHolds
<1>1. IInv /\ SInv => AckedReachable
  <2> SUFFICES ASSUME IInv, SInv, NEW k \in acked, mutexArray[RowOf[k]] = Free_
               PROVE  Stored(k)
    BY DEF AckedReachable
  <2>1. RowOf[k] \in Rows
    BY DEF IInv, TypeInv, Setting
  <2> QED BY <2>1, <1>0, FreeRow DEF SInv, AckInv
<1> QED BY <1>1, SerialInvariant, PTL

\* While the mutex of a row is free, every occupied cell of it is in the slot of
\* its entry's key under the server's seed and has the key's fingerprint.
THEOREM SerialPlacement ==
  ASSUME Setting, Serial PROVE Spec => []Placement
<1>0. Ground
  BY GroundHolds
<1>1. ASSUME IInv, SInv PROVE Placement
  <2>1. ASSUME NEW r \in Rows, NEW s \in Slots
        PROVE  mutexArray[r] = Free_ /\ bucketsArray[r][s].length = 1 =>
                 LET k == rawArray[bucketsArray[r][s].addr].key IN
                 /\ RowOf[k] = r /\ hash[seed[r]][k] = s
                 /\ bucketsArray[r][s].finger = fingerprint[k]
    <3>1. SUFFICES ASSUME mutexArray[r] = Free_, bucketsArray[r][s].length = 1
                   PROVE  Placed(r, s, bucketsArray[r][s])
      BY DEF Placed
    <3>2. ~Free(bucketsArray[r], s) /\ ~Emptying(r)
      BY <1>1, <3>1, <1>0, FreeRow, SMTT(30) DEF Free
    <3> QED BY <1>1, <3>2 DEF SInv, PlaceInv
  <2> QED BY <2>1 DEF Placement
<1> QED BY <1>1, SerialInvariant, PTL

\* A get whose client used the server's seed, of a key that was stored when it was
\* sent, returns a value written for that key, although outback_get_callback takes
\* no mutex and compares no key, unless a put re-seeds the row in between.
THEOREM SerialGets ==
  ASSUME Setting, Serial PROVE Spec => []GetReturnsOwn
<1>1. SInv => GetReturnsOwn
  <2> SUFFICES ASSUME SInv, NEW q \in Cors, op[q].st = "replied", op[q].kind = "get", op[q].fresh
               PROVE  op[q].reply \in Own(op[q].key)
    BY DEF GetReturnsOwn, Own
  <2> QED BY DEF SInv, GetInv, FreshOK
<1> QED BY <1>1, SerialInvariant, PTL
=============================================================================
