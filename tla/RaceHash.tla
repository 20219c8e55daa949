------------------------------- MODULE RaceHash -------------------------------
(***************************************************************************)
(* The RACE baseline: the hash table of race/race_table.hh, the server     *)
(* that fills it (benchs/race/server.cc) and the client threads that work  *)
(* on it with one-sided verbs only (benchs/race/client.cc).                *)
(*                                                                         *)
(* The server is passive once the table is loaded.  A client thread reads  *)
(* the two adjacent buckets of a key's first choice, works on its copy and *)
(* writes the copy back whole; nothing locks a bucket.  A verb moves a     *)
(* bucket (one cache line) or an entry at a time, so every read and write  *)
(* of one is a step, and so is every access to the counter num, which all  *)
(* threads of the client process share.  The coroutines of a thread never  *)
(* yield inside an operation: remote_read and remote_write wait for their  *)
(* completion.                                                             *)
(*                                                                         *)
(* A key's hash values and fingerprint are chosen once, in Init.  lens is  *)
(* left out: it is 16 wherever occupied is set.  The field "key" of a slot *)
(* is a history variable: the key the slot was filled for.                 *)
(***************************************************************************)
EXTENDS Integers, Sequences, FiniteSets

CONSTANTS
    ExistKeys,      \* sequence of the keys the server loads
    NewKeys,        \* nonexist_keys: what clients insert
    Threads,        \* threads of the client process
    OpsOf,          \* the operations each thread runs
    HashChoices,    \* the hash functions considered: key -> [seed, hash, fp]
    nsize,          \* buckets of the table
    SLOTS,          \* SLOTS_NUM_PER_BUCKET
    MaxOps          \* bound: operations of all threads together

VARIABLES
    hashOf,         \* the hash function of this behaviour
    table,          \* cuckoo_buckets
    packed,         \* packed_data: the entries behind the table
    num,            \* the process's std::atomic<size_t> num
    thr,            \* per thread: operation, program counter, local buffer
    done,           \* history: keys whose client insert has finished
    ops,            \* operations started
    loaded          \* keys the server has loaded, -1 once clients run

vars == <<hashOf, table, packed, num, thr, done, ops, loaded>>

ExistSet == {ExistKeys[i] : i \in DOMAIN ExistKeys}
Keys == ExistSet \cup NewKeys

\* What the theorems take of the constants: any table, any load and any number
\* of threads; the keys that clients insert are not among the loaded ones.
Setting ==
    /\ nsize \in Nat /\ nsize >= 2
    /\ SLOTS \in Nat \ {0}
    /\ MaxOps \in Nat
    /\ IsFiniteSet(Threads)
    /\ ExistKeys \in Seq(ExistSet)
    /\ ExistSet \cap NewKeys = {}
    /\ "none" \notin Keys
    /\ \A hf \in HashChoices, k \in Keys : hf[k].seed \in Nat /\ hf[k].hash \in Nat

msize == (nsize * 2) \div 3

Buckets == 0..(nsize - 1)

\* the entries are addressed 0, 1, ...: the server's first, then the clients'
Addrs == 0..(Len(ExistKeys) + MaxOps)

EmptySlot == [occ |-> FALSE, fp |-> 0, addr |-> 0, key |-> "none"]
EmptyBucket == [s \in 1..SLOTS |-> EmptySlot]

-----------------------------------------------------------------------------
(* race_table.hh: where a key may live *)

hash_to_cuckoo_index(h) ==
    IF h % 2 = 1 THEN 3 * (h \div 2 + 1) - 1
    ELSE IF 3 * (h \div 2) < nsize - 1 THEN 3 * (h \div 2) ELSE nsize - 1

\* the two main buckets of a key
cuckoo_hash(hf, k) ==
    <<hash_to_cuckoo_index(hf[k].seed % msize),
      hash_to_cuckoo_index(hf[k].hash % msize)>>

\* the overflow bucket a main bucket shares with its neighbour, -1 if none
spare_of(b) ==
    CASE b % 3 = 0 -> b + 1
      [] b % 3 = 2 -> b - 1
      [] OTHER     -> -1

\* a spare outside the table (or bucket 0) leaves the main bucket in place
spare_bucket(b) ==
    IF spare_of(b) > 0 /\ spare_of(b) < nsize THEN spare_of(b) ELSE b

\* mutant: from the main bucket on, wherever its spare is
remote_lookup_main(hf, k) ==
    LET b == cuckoo_hash(hf, k)[1] IN <<b, b + 1>>

\* what a client reads for k: the lower of main and spare bucket, and the next
remote_lookup(hf, k) ==
    LET b == cuckoo_hash(hf, k)[1]
        s == spare_of(b)
        low == IF b < s THEN b ELSE s
    IN  <<low, low + 1>>

-----------------------------------------------------------------------------
(* The server: RaceHashTable::insert and setup_race_hash_packed_data *)

FreeSlots(bucket) == {s \in 1..SLOTS : ~bucket[s].occ}
FirstFree(bucket) == CHOOSE s \in FreeSlots(bucket) :
                        \A x \in FreeSlots(bucket) : s <= x

Filled(hf, k, a) == [occ |-> TRUE, fp |-> hf[k].fp, addr |-> a, key |-> k]

\* both main buckets, then both spare buckets
Candidates(hf, k) ==
    LET m == cuckoo_hash(hf, k)
    IN  <<m[1], m[2], spare_bucket(m[1]), spare_bucket(m[2])>>

\* the first candidate with a free slot takes the key; none: "fallback buffer"
insert(tbl, hf, k, a) ==
    LET cand == Candidates(hf, k)
        Open == {i \in 1..4 : FreeSlots(tbl[cand[i]]) # {}}
        Put(b) == [tbl EXCEPT ![b][FirstFree(tbl[b])] = Filled(hf, k, a)]
    IN  IF Open = {} THEN tbl
        ELSE Put(cand[CHOOSE i \in Open : \A j \in Open : i <= j])

Idle == [op |-> "none", key |-> "none", pc |-> "idle", buf |-> <<>>,
         at |-> 0, entry |-> [key |-> "none", data |-> "none"], addr |-> 0,
         must |-> FALSE, found |-> TRUE]

Init ==
    /\ hashOf \in HashChoices
    /\ table = [b \in Buckets |-> EmptyBucket]
    /\ packed = [a \in Addrs |-> [key |-> "none", data |-> "none"]]
    /\ num = 0
    /\ thr = [t \in Threads |-> Idle]
    /\ done = {}
    /\ ops = 0
    /\ loaded = 0

\* one iteration of the loading loop; the result of insert is not looked at
Load ==
    /\ loaded >= 0
    /\ loaded < Len(ExistKeys)
    /\ LET k == ExistKeys[loaded + 1]
       IN  /\ packed' = [packed EXCEPT ![loaded] = [key |-> k, data |-> k]]
           /\ table' = insert(table, hashOf, k, loaded)
    /\ loaded' = loaded + 1
    /\ UNCHANGED <<hashOf, num, thr, done, ops>>

\* ctrl->start_daemon: clients connect only after the load
StartDaemon ==
    /\ loaded = Len(ExistKeys)
    /\ loaded' = -1
    /\ UNCHANGED <<hashOf, table, packed, num, thr, done, ops>>

-----------------------------------------------------------------------------
(* The client threads *)

Goto(t, pc) == thr' = [thr EXCEPT ![t].pc = pc]

\* position p of the buffer, counted over the slots of both buckets
BucketAt(p) == ((p - 1) \div SLOTS) + 1
PlaceAt(p) == ((p - 1) % SLOTS) + 1
SlotAt(buf, p) == buf[BucketAt(p)][PlaceAt(p)]
Positions == 1..(2 * SLOTS)

\* a new operation: the loop of a coroutine picks one and a key for it
Begin(t, op, k) ==
    /\ loaded = -1
    /\ ops < MaxOps
    /\ thr[t].pc = "idle"
    /\ op \in OpsOf[t]
    /\ op = "insert" => k \in NewKeys
    /\ thr' = [thr EXCEPT ![t] = [Idle EXCEPT !.op = op, !.key = k,
                                    !.pc = "read", !.must = k \in done]]
    /\ ops' = ops + 1
    /\ UNCHANGED <<hashOf, table, packed, num, done, loaded>>

\* remote_read of the two buckets, one cache line at a time
ReadBucket(t) ==
    /\ thr[t].pc = "read"
    /\ LET i == Len(thr[t].buf) + 1
       IN  thr' = [thr EXCEPT
             ![t].buf = Append(@, table[remote_lookup(hashOf, thr[t].key)[i]]),
             ![t].pc = IF i < 2 THEN "read"
                       ELSE IF thr[t].op = "insert" THEN "match" ELSE "pick"]
    /\ UNCHANGED <<hashOf, table, packed, num, done, ops, loaded>>

\* mutant: a bucket counts only when its last slot is occupied
PickMatchesFull(hf, k, buf) ==
    {p \in Positions : /\ buf[BucketAt(p)][SLOTS].occ
                       /\ SlotAt(buf, p).fp = hf[k].fp}

\* search and update: "occupied & 0x0F != 0" parses as occupied & 1, so a bucket
\* counts as empty when its first slot is; then the first slot with the
\* fingerprint is taken, occupied or not, without a look at the key
PickMatches(hf, k, buf) ==
    {p \in Positions : /\ buf[BucketAt(p)][1].occ
                       /\ SlotAt(buf, p).fp = hf[k].fp}

Pick(t) ==
    /\ thr[t].pc = "pick"
    /\ LET M == PickMatches(hashOf, thr[t].key, thr[t].buf)
           first == CHOOSE p \in M : \A q \in M : p <= q
       IN  IF M = {}
           THEN thr' = [thr EXCEPT ![t] = [Idle EXCEPT
                            !.must = thr[t].must, !.found = FALSE]]
           ELSE thr' = [thr EXCEPT
                  ![t].addr = SlotAt(thr[t].buf, first).addr,
                  ![t].pc = "fetch"]
    /\ UNCHANGED <<hashOf, table, packed, num, done, ops, loaded>>

\* the entry is read; a search ends here, an update writes the entry back
Fetch(t) ==
    /\ thr[t].pc = "fetch"
    /\ thr' = [thr EXCEPT
          ![t] = IF thr[t].op = "search"
                 THEN [Idle EXCEPT !.must = thr[t].must]
                 ELSE [thr[t] EXCEPT !.entry = packed[thr[t].addr],
                                     !.pc = "store"]]
    /\ UNCHANGED <<hashOf, table, packed, num, done, ops, loaded>>

\* insert, first loop: occupied slots with the fingerprint, from position at + 1
InsertMatches(hf, k, buf, from) ==
    {p \in Positions : /\ p > from
                       /\ SlotAt(buf, p).occ
                       /\ SlotAt(buf, p).fp = hf[k].fp}

\* its entry is read and compared; an equal key turns the insert into an update
Match(t) ==
    /\ thr[t].pc = "match"
    /\ LET k == thr[t].key
           M == InsertMatches(hashOf, k, thr[t].buf, thr[t].at)
           first == CHOOSE p \in M : \A q \in M : p <= q
           a == SlotAt(thr[t].buf, first).addr
       IN  IF M = {}
           THEN Goto(t, "compose")
           ELSE thr' = [thr EXCEPT
                  ![t].at = first,
                  ![t].addr = a,
                  ![t].entry = packed[a],
                  ![t].pc = IF packed[a].key = k THEN "store" ELSE "match"]
    /\ UNCHANGED <<hashOf, table, packed, num, done, ops, loaded>>

\* the whole entry is written back with the new data
Store(t) ==
    /\ thr[t].pc = "store"
    /\ packed' = [packed EXCEPT ![thr[t].addr] =
                    [thr[t].entry EXCEPT !.data = thr[t].key]]
    /\ thr' = [thr EXCEPT ![t] = Idle]
    /\ done' = IF thr[t].op = "insert" THEN done \cup {thr[t].key} ELSE done
    /\ UNCHANGED <<hashOf, table, num, ops, loaded>>

\* insert, second loop: the position of the first free slot of the copy
FreePositions(buf) == {p \in Positions : ~SlotAt(buf, p).occ}

FreeChoice(buf) == CHOOSE p \in FreePositions(buf) :
                        \A q \in FreePositions(buf) : p <= q

\* that slot of the copy is filled with the current num; both buckets full
\* skips to num++
Compose(t) ==
    /\ thr[t].pc = "compose"
    /\ LET buf == thr[t].buf
           p == FreeChoice(buf)
       IN  IF FreePositions(buf) = {}
           THEN thr' = [thr EXCEPT ![t].pc = "bump", ![t].found = FALSE]
           ELSE thr' = [thr EXCEPT
                  ![t].buf[BucketAt(p)][PlaceAt(p)] =
                      Filled(hashOf, thr[t].key, num),
                  ![t].at = 1,
                  ![t].pc = "write"]
    /\ UNCHANGED <<hashOf, table, packed, num, done, ops, loaded>>

\* remote_write of both buckets, one cache line at a time
WriteBucket(t) ==
    /\ thr[t].pc = "write"
    /\ table' = [table EXCEPT
          ![remote_lookup(hashOf, thr[t].key)[thr[t].at]] =
              thr[t].buf[thr[t].at]]
    /\ thr' = [thr EXCEPT ![t].at = @ + 1,
                          ![t].pc = IF thr[t].at < 2 THEN "write" ELSE "pdaddr"]
    /\ UNCHANGED <<hashOf, packed, num, done, ops, loaded>>

\* num is read a second time, for the address of the entry
PdAddr(t) ==
    /\ thr[t].pc = "pdaddr"
    /\ thr' = [thr EXCEPT ![t].addr = num, ![t].pc = "entry"]
    /\ UNCHANGED <<hashOf, table, packed, num, done, ops, loaded>>

WriteEntry(t) ==
    /\ thr[t].pc = "entry"
    /\ packed' = [packed EXCEPT ![thr[t].addr] =
                    [key |-> thr[t].key, data |-> thr[t].key]]
    /\ Goto(t, "bump")
    /\ UNCHANGED <<hashOf, table, num, done, ops, loaded>>

\* num++ also when no slot was free
Bump(t) ==
    /\ thr[t].pc = "bump"
    /\ num' = num + 1
    /\ done' = IF thr[t].found THEN done \cup {thr[t].key} ELSE done
    /\ thr' = [thr EXCEPT ![t] = Idle]
    /\ UNCHANGED <<hashOf, table, packed, ops, loaded>>

\* the process is told to stop: running = false, every loop ends
Stop ==
    /\ loaded = -1
    /\ \A t \in Threads : thr[t].pc = "idle"
    /\ UNCHANGED vars

ThreadStep(t) ==
    \/ \E op \in {"search", "insert", "update"}, k \in Keys : Begin(t, op, k)
    \/ ReadBucket(t)
    \/ Pick(t)
    \/ Fetch(t)
    \/ Match(t)
    \/ Store(t)
    \/ Compose(t)
    \/ WriteBucket(t)
    \/ PdAddr(t)
    \/ WriteEntry(t)
    \/ Bump(t)

Next ==
    \/ Load
    \/ StartDaemon
    \/ \E t \in Threads : ThreadStep(t)
    \/ Stop

Spec == Init /\ [][Next]_vars

-----------------------------------------------------------------------------
(* What holds *)

\* The slots of a bucket fill from the first on, whatever two clients that
\* write back stale copies do to each other: a bucket whose first slot is free
\* is empty.  The clients' "occupied & 0x0F != 0" test, which really looks at
\* the first slot only, depends on it.
SlotsFilledInOrder ==
    \A b \in Buckets : \A s \in 1..(SLOTS - 1) :
        table[b][s + 1].occ => table[b][s].occ

\* A slot is filled only for a key that may live in its bucket: a copy written
\* back never lands in another group than the one it was read from.
SlotsAtHome ==
    \A b \in Buckets : \A s \in 1..SLOTS :
        LET c == Candidates(hashOf, table[b][s].key)
        IN  table[b][s].occ => \E i \in 1..4 : c[i] = b

\* With one thread that writes, a key whose insert has finished has a slot with
\* its fingerprint among the buckets clients read, and behind that slot an entry
\* with its key: no later insert or update takes its slot or its entry.
InsertedReachable ==
    Cardinality({t \in Threads : OpsOf[t] # {"search"}}) <= 1 =>
    \A k \in done : \E i \in 1..2 : \E s \in 1..SLOTS :
        LET slot == table[remote_lookup(hashOf, k)[i]][s]
        IN  slot.occ /\ slot.fp = hashOf[k].fp /\ packed[slot.addr].key = k

\* With one thread that writes, a search that began after the insert of its key
\* had finished finds a slot for it, while further inserts go on.
SearchFindsInserted ==
    Cardinality({t \in Threads : OpsOf[t] # {"search"}}) <= 1 =>
    \A t \in Threads : thr[t].pc = "idle" /\ thr[t].must => thr[t].found
=============================================================================
