----------------------------- MODULE RdmaStore -----------------------------
(***************************************************************************)
(* The store over RDMA: the callbacks of the server (outback_server.hh)    *)
(* and the operations of its clients (outback_client.hh).  A client finds  *)
(* the slot of a key with its own copy of the seeds.  A put that finds its *)
(* slot taken searches a new seed for the whole bucket, moves the cells    *)
(* and tells the seed to the client that put, and to no other.             *)
(*                                                                         *)
(* Server threads run callbacks one at a time each.  A callback that       *)
(* writes holds the mutex of its row; a get holds none.  The entry counter *)
(* of the packed array is shared by all rows.  A step is an access to      *)
(* shared memory that another thread can tell apart.                       *)
(*                                                                         *)
(* The server loads a key with its index in the array as its value and the *)
(* clients put a key as its own value, so that (with keys that are no such *)
(* index) a value tells for which key it was written.  A call and its reply*)
(* go through RpcCore, which gives every coroutine one call at a time and  *)
(* its own reply.                                                          *)
(***************************************************************************)
EXTENDS LudoBucket, LruCache

CONSTANTS
    Rows, RowOf,         \* [Keys -> Rows], the Othello half of lookup_slot
    Loaded,              \* keys of the initial load, in the order of the array
    Cors, ClientOf,      \* coroutines, the process each belongs to
    ThreadOf,            \* [Cors -> server thread]
    numElements,         \* entries of the packed array
    Garbage,             \* a key that uninitialized memory may show
    Workload,            \* the operations, pairs of a kind and a key
    MaxCalls             \* bound on the calls of a coroutine

Threads == {ThreadOf[q] : q \in Cors}
ClientProcs == {ClientOf[q] : q \in Cors}
Free_ == "free"

\* What the theorems take the constants to be.  The seeds of the loaded table keep
\* the keys of a bucket apart, as the Ludo maintenance builds them; what
\* uninitialized memory shows is some key.
Setting ==
    /\ RowOf \in [Keys -> Rows] /\ Garbage \in Keys
    /\ Loaded \in Seq(Keys)
    /\ \A i, j \in DOMAIN Loaded :
         (/\ RowOf[Loaded[i]] = RowOf[Loaded[j]]
          /\ hash[0][Loaded[i]] = hash[0][Loaded[j]]) => i = j
    /\ numElements \in Nat /\ Len(Loaded) <= numElements
    /\ SeedCount <= 256
    /\ IsFiniteSet(Threads) /\ Threads # {} /\ Free_ \notin Threads
    /\ Workload \subseteq {"get", "put", "update", "remove"} \X Keys

\* With one server thread, or with one row, no two callbacks hold a mutex at once.
Serial == (\A t, u \in Threads : t = u) \/ (\A r, p \in Rows : r = p)

VARIABLES
    bucketsArray,   \* [Rows -> [Slots -> Cell]]
    seed,           \* [Rows -> Seeds], the server's ludo_lookup_unit
    rawArray, num,  \* the packed array and its counter
    lru,            \* lru_cache
    mutexArray,     \* [Rows -> holder]
    thr,            \* [Threads -> callback under way]
    cseed,          \* [ClientProcs -> [Rows -> Seeds]], the clients' ludo_lookup_unit
    op,             \* [Cors -> call under way]
    up,             \* the server process runs
    acked           \* keys loaded, or put with a reply that says stored

vars == <<bucketsArray, seed, rawArray, num, lru, mutexArray, thr, cseed, op, up, acked>>

Idle == [pc |-> "idle", q |-> 0, addr |-> 0, cells |-> << >>, keys |-> << >>, then |-> "", reply |-> 0]
NoOp == [st |-> "idle", kind |-> "get", key |-> 0, slot |-> 0, reply |-> 0, fresh |-> FALSE, n |-> 0]

\* Entries outside of the array are the memory behind it: bulk_load_data checks
\* the counter before it advances it, so every thread but one can pass the end.
LastIndex == numElements + Cardinality(Threads) - 1
Indexes == 0 .. LastIndex

LoadedAt(r, s) == {i \in DOMAIN Loaded : RowOf[Loaded[i]] = r /\ hash[0][Loaded[i]] = s}

Init ==
    /\ bucketsArray = [r \in Rows |-> [s \in Slots |->
         IF LoadedAt(r, s) = {} THEN ZeroCell
         ELSE LET i == CHOOSE i \in LoadedAt(r, s) : TRUE IN combine(Loaded[i], i - 1)]]
    /\ seed = [r \in Rows |-> 0]
    /\ rawArray = [i \in Indexes |->
         IF i + 1 \in DOMAIN Loaded THEN [key |-> Loaded[i + 1], data |-> i]
         ELSE [key |-> Garbage, data |-> Garbage]]
    /\ num = Len(Loaded)
    /\ lru = EmptyCache
    /\ mutexArray = [r \in Rows |-> Free_]
    /\ thr = [t \in Threads |-> Idle]
    /\ cseed = [c \in ClientProcs |-> [r \in Rows |-> 0]]
    /\ op = [q \in Cors |-> NoOp]
    /\ up = TRUE
    /\ acked = {Loaded[i] : i \in DOMAIN Loaded}

----------------------------------------------------------------------------
(* Clients. *)

Reseeding(r) == \E t \in Threads :
    thr[t].pc \in {"empty", "cells"} /\ RowOf[op[thr[t].q].key] = r

\* ludo_lookup_unit->lookup_slot in the client process.
lookup_slot(q, k) == hash[cseed[ClientOf[q]][RowOf[k]]][k]

\* remote_search, remote_put, remote_update and remote_remove up to their pause.
\* fresh is not in the code: a get is fresh while the key is stored and the
\* server's seed of its row is the one the client used.
Call(q, kind, k) ==
    /\ up /\ op[q].st = "idle" /\ op[q].n < MaxCalls
    /\ LET r == RowOf[k] IN
         op' = [op EXCEPT ![q] =
            [st |-> "sent", kind |-> kind, key |-> k,
             slot |-> lookup_slot(q, k), reply |-> 0,
             fresh |-> k \in acked /\ cseed[ClientOf[q]][r] = seed[r] /\ ~Reseeding(r),
             n |-> op[q].n + 1]]
    /\ UNCHANGED <<bucketsArray, seed, rawArray, num, lru, mutexArray, thr, cseed, up, acked>>

\* The rest of the operation: a put whose reply carries a seed updates the
\* client's seed of the row.
Return(q) ==
    /\ op[q].st = "replied"
    /\ op' = [op EXCEPT ![q] = [NoOp EXCEPT !.n = op[q].n]]
    /\ cseed' = IF op[q].kind = "put" /\ op[q].reply >= 256
                  THEN [cseed EXCEPT ![ClientOf[q]][RowOf[op[q].key]] = op[q].reply % 256]
                  ELSE cseed
    /\ UNCHANGED <<bucketsArray, seed, rawArray, num, lru, mutexArray, thr, up, acked>>

----------------------------------------------------------------------------
(* Server callbacks. *)

K(t) == op[thr[t].q].key
R(t) == RowOf[K(t)]
At(t, pc) == up /\ thr[t].pc = pc

Goto(t, pc) == thr' = [thr EXCEPT ![t].pc = pc]

\* The reply is sent; the mutex has been released before.
Answered(t, val) == [op EXCEPT ![thr[t].q].st = "replied", ![thr[t].q].reply = val]

\* The end of a callback that holds the mutex.
Finish(t, val, stored) ==
    /\ op' = Answered(t, val)
    /\ mutexArray' = [mutexArray EXCEPT ![R(t)] = Free_]
    /\ thr' = [thr EXCEPT ![t] = Idle]
    /\ acked' = IF stored THEN acked \union {K(t)} ELSE acked

\* recv_event_loop hands the request to its callback.  The remove callback
\* asserts a size of its arguments that remote_remove does not send.
Begin(t, q) ==
    /\ At(t, "idle") /\ ThreadOf[q] = t /\ op[q].st = "sent"
    /\ IF op[q].kind = "remove"
         THEN up' = FALSE /\ UNCHANGED <<thr, op>>
         ELSE /\ thr' = [thr EXCEPT ![t] = [Idle EXCEPT !.q = q,
                           !.pc = CASE op[q].kind = "get" -> "get"
                                    [] op[q].kind = "put" -> "put"
                                    [] op[q].kind = "update" -> "update"]]
              /\ op' = [op EXCEPT ![q].st = "served"]
              /\ UNCHANGED up
    /\ UNCHANGED <<bucketsArray, seed, rawArray, num, lru, mutexArray, cseed, acked>>

\* outback_get_callback: the address from the client's slot, then the data,
\* without a mutex and without a look at the key.
GetAddr(t) ==
    /\ At(t, "get")
    /\ thr' = [thr EXCEPT ![t].pc = "data", ![t].addr = bucketsArray[R(t)][op[thr[t].q].slot].addr]
    /\ UNCHANGED <<bucketsArray, seed, rawArray, num, lru, mutexArray, cseed, op, up, acked>>
GetData(t) ==
    /\ At(t, "data")
    /\ op' = Answered(t, rawArray[thr[t].addr].data)
    /\ thr' = [thr EXCEPT ![t] = Idle]
    /\ UNCHANGED <<bucketsArray, seed, rawArray, num, lru, mutexArray, cseed, up, acked>>

\* The slot of the key under the server's seed.
slot(t) == hash[seed[R(t)]][K(t)]

\* A key that finds no place goes to the cache and into an entry that no cell
\* leads to.
Overflow(t, val) ==
    /\ lru' = insert(lru, K(t), K(t))
    /\ thr' = [thr EXCEPT ![t].pc = "check", ![t].then = "orphan", ![t].reply = val]

\* The occupied cells, each at the slot it comes from: their order is that of the
\* vector that the code fills from slot 0 on.
read_bucket_addrs(bucket) == [s \in {i \in Slots : ~Free(bucket, i)} |-> bucket[s]]

\* What is added to such a vector comes behind every slot.
push_back(vector, x) ==
    [i \in DOMAIN vector \union {SLOTS_NUM_BUCKET} |->
        IF i = SLOTS_NUM_BUCKET THEN x ELSE vector[i]]

\* The keys of the entries that the cells lead to.
read_batch_keys(cells) == [i \in DOMAIN cells |-> rawArray[cells[i].addr].key]

\* outback_put_callback under the mutex of the row, up to bulk_load_data.  The
\* bit that set_cachebit sets in case 3 is set in every occupied cell.
Put(t) ==
    /\ At(t, "put") /\ mutexArray[R(t)] = Free_
    /\ mutexArray' = [mutexArray EXCEPT ![R(t)] = t]
    /\ LET bucket == bucketsArray[R(t)]
           a == bucket[slot(t)].addr
           status == check_slots(bucket, K(t), slot(t)) IN
         \/ /\ status = 0
            /\ thr' = [thr EXCEPT ![t].pc = "check", ![t].then = "link"]
            /\ UNCHANGED lru
         \/ /\ status = 1 /\ rawArray[a].key = K(t)
            /\ thr' = [thr EXCEPT ![t].pc = "update_data", ![t].addr = a, ![t].reply = 1]
            /\ UNCHANGED lru
         \/ /\ status = 1 /\ rawArray[a].key # K(t)
            /\ Overflow(t, 1)
         \/ /\ status = 2
            /\ \E cells \in {read_bucket_addrs(bucket)} :
                 thr' = [thr EXCEPT ![t].pc = "check", ![t].then = "reseed",
                                    ![t].cells = cells, ![t].keys = read_batch_keys(cells)]
            /\ UNCHANGED lru
         \/ /\ status = 3
            /\ Overflow(t, 3)
    /\ UNCHANGED <<bucketsArray, seed, rawArray, num, cseed, op, up, acked>>

\* outback_update_callback takes the slot that the client sent.
Update(t) ==
    /\ At(t, "update") /\ mutexArray[R(t)] = Free_
    /\ mutexArray' = [mutexArray EXCEPT ![R(t)] = t]
    /\ LET a == bucketsArray[R(t)][op[thr[t].q].slot].addr IN
         IF rawArray[a].key = K(t)
           THEN /\ thr' = [thr EXCEPT ![t].pc = "update_data", ![t].addr = a, ![t].reply = 1]
                /\ UNCHANGED lru
           ELSE Overflow(t, 2)
    /\ UNCHANGED <<bucketsArray, seed, rawArray, num, cseed, op, up, acked>>

update_data(t) ==
    /\ At(t, "update_data")
    /\ rawArray' = [rawArray EXCEPT ![thr[t].addr] = [key |-> K(t), data |-> K(t)]]
    /\ Finish(t, thr[t].reply, FALSE)
    /\ UNCHANGED <<bucketsArray, seed, num, lru, cseed, up>>

\* bulk_load_data reads the counter for the check, for each of its writes and
\* for the address it returns.
BulkCheck(t) ==
    /\ At(t, "check")
    /\ IF num >= numElements THEN up' = FALSE /\ UNCHANGED thr
                             ELSE Goto(t, "key") /\ UNCHANGED up
    /\ UNCHANGED <<bucketsArray, seed, rawArray, num, lru, mutexArray, cseed, op, acked>>
BulkKey(t) ==
    /\ At(t, "key")
    /\ rawArray' = [rawArray EXCEPT ![num].key = K(t)]
    /\ Goto(t, "value")
    /\ UNCHANGED <<bucketsArray, seed, num, lru, mutexArray, cseed, op, up, acked>>
BulkData(t) ==
    /\ At(t, "value")
    /\ rawArray' = [rawArray EXCEPT ![num].data = K(t)]
    /\ Goto(t, "count")
    /\ UNCHANGED <<bucketsArray, seed, num, lru, mutexArray, cseed, op, up, acked>>

\* Wrong: the entry before.
last_addr == num - 1

\* num ++ is one atomic operation that returns the old value.
next_addr == num
BulkCount(t) ==
    /\ At(t, "count")
    /\ num' = num + 1
    /\ thr' = [thr EXCEPT ![t].addr = next_addr, ![t].pc = thr[t].then]
    /\ UNCHANGED <<bucketsArray, seed, rawArray, lru, mutexArray, cseed, op, up, acked>>

\* Case 0: the cell, the reply.
Link(t) ==
    /\ At(t, "link")
    /\ bucketsArray' = [bucketsArray EXCEPT ![R(t)][slot(t)] = combine(K(t), thr[t].addr)]
    /\ Finish(t, 0, TRUE)
    /\ UNCHANGED <<seed, rawArray, num, lru, cseed, up>>

\* Case 1 with another key, case 3, and an update that misses.
Orphan(t) ==
    /\ At(t, "orphan")
    /\ Finish(t, thr[t].reply, FALSE)
    /\ UNCHANGED <<bucketsArray, seed, rawArray, num, lru, cseed, up>>

\* A seed resolves a bucket when no two of its keys share a slot.
Resolves(s, keys) ==
    \A i, j \in DOMAIN keys : hash[s][keys[i]] = hash[s][keys[j]] => i = j

\* for (; seed < 255; ++seed): the search leaves out the last seed.
Tried == 0 .. SeedCount - 2

\* Wrong: only the new key is compared with the others.
least_seed_new_key_only(keys) ==
    {s \in Tried : \A i \in DOMAIN keys \ {SLOTS_NUM_BUCKET} :
                       hash[s][keys[i]] # hash[s][keys[SLOTS_NUM_BUCKET]]}

\* The seeds that the search of case 2 accepts; it takes the first.
resolving_seeds(keys) == {s \in Tried : Resolves(s, keys)}

\* Case 2: the search, and the new seed.  The gets of the row are not fresh any
\* more.
Reseed(t) ==
    /\ At(t, "reseed")
    /\ LET keys == push_back(thr[t].keys, K(t))
           found == resolving_seeds(keys) IN
         IF found = {} THEN up' = FALSE /\ UNCHANGED <<seed, thr, op>>
         ELSE LET new == CHOOSE s \in found : \A x \in found : s <= x
                  cells == push_back(thr[t].cells, combine(K(t), thr[t].addr)) IN
              /\ seed' = [seed EXCEPT ![R(t)] = new]
              /\ thr' = [thr EXCEPT ![t].pc = "empty", ![t].reply = 256 + new, ![t].keys = << >>,
                           ![t].cells = [i \in DOMAIN cells |->
                              [cell |-> cells[i], slot |-> hash[new][keys[i]]]]]
              /\ op' = [q \in Cors |-> IF op[q].st # "idle" /\ RowOf[op[q].key] = R(t)
                                         THEN [op[q] EXCEPT !.fresh = FALSE] ELSE op[q]]
              /\ UNCHANGED up
    /\ UNCHANGED <<bucketsArray, rawArray, num, lru, mutexArray, cseed, acked>>

empty_bucket(t) ==
    /\ At(t, "empty")
    /\ bucketsArray' = [bucketsArray EXCEPT ![R(t)] = [s \in Slots |-> ZeroCell]]
    /\ Goto(t, "cells")
    /\ UNCHANGED <<seed, rawArray, num, lru, mutexArray, cseed, op, up, acked>>

write_cell(t) ==
    /\ At(t, "cells")
    /\ \E i \in DOMAIN thr[t].cells :
         /\ \A j \in DOMAIN thr[t].cells : i <= j
         /\ LET c == thr[t].cells[i] IN
              bucketsArray' = [bucketsArray EXCEPT ![R(t)][c.slot] = c.cell]
         /\ thr' = [thr EXCEPT ![t].cells = [j \in DOMAIN @ \ {i} |-> @[j]]]
    /\ UNCHANGED <<seed, rawArray, num, lru, mutexArray, cseed, op, up, acked>>

Reseeded(t) ==
    /\ At(t, "cells") /\ DOMAIN thr[t].cells = {}
    /\ Finish(t, thr[t].reply, TRUE)
    /\ UNCHANGED <<bucketsArray, seed, rawArray, num, lru, cseed, up>>

Callback(t) ==
    \/ GetAddr(t) \/ GetData(t) \/ Put(t) \/ Update(t) \/ update_data(t)
    \/ BulkCheck(t) \/ BulkKey(t) \/ BulkData(t) \/ BulkCount(t)
    \/ Link(t) \/ Orphan(t)
    \/ Reseed(t) \/ empty_bucket(t) \/ write_cell(t) \/ Reseeded(t)

Next ==
    \/ \E q \in Cors :
         \/ \E w \in Workload : Call(q, w[1], w[2])
         \/ Return(q)
         \/ \E t \in Threads : Begin(t, q)
    \/ \E t \in Threads : Callback(t)

Spec == Init /\ [][Next]_vars

----------------------------------------------------------------------------
(* Properties. *)

\* The cell that the server's seed gives to k leads to k's entry.
Stored(k) ==
    LET c == bucketsArray[RowOf[k]][hash[seed[RowOf[k]]][k]] IN
    c.length = 1 /\ rawArray[c.addr].key = k

\* A key that was loaded, or whose put was answered as stored, stays reachable
\* through the server's seed whatever puts re-seed its bucket: case 2 of
\* outback_put_callback moves every key of the bucket.
AckedReachable == \A k \in acked : mutexArray[RowOf[k]] = Free_ => Stored(k)

\* While nobody holds the row, every occupied cell is in the slot of its key
\* under the server's seed and has the key's fingerprint.
Placement ==
    \A r \in Rows, s \in Slots :
        (mutexArray[r] = Free_ /\ bucketsArray[r][s].length = 1) =>
            LET k == rawArray[bucketsArray[r][s].addr].key IN
            /\ RowOf[k] = r /\ hash[seed[r]][k] = s
            /\ bucketsArray[r][s].finger = fingerprint[k]

\* outback_get_callback checks no key: it is the agreement of the two seeds that
\* makes the answer to a get the value of its key, also while puts and updates
\* of the row go on.
GetReturnsOwn ==
    \A q \in Cors : op[q].st = "replied" /\ op[q].kind = "get" /\ op[q].fresh =>
        op[q].reply \in {op[q].key} \union {i - 1 : i \in {j \in DOMAIN Loaded : Loaded[j] = op[q].key}}

\* No entry is reached from two cells, of one row or of two, although
\* bulk_load_data runs under the mutexes of different rows.
EntriesDistinct ==
    \A r1, r2 \in Rows, s1, s2 \in Slots :
        LET c == bucketsArray[r1][s1]  d == bucketsArray[r2][s2] IN
        (c.length = 1 /\ d.length = 1) =>
            c.addr < num /\ (c.addr = d.addr => <<r1, s1>> = <<r2, s2>>)

\* The rest is the types, and who holds a mutex is in a callback of that row.
TypeOK ==
    /\ bucketsArray \in [Rows -> [Slots -> Cell]]
    /\ seed \in [Rows -> Seeds] /\ cseed \in [ClientProcs -> [Rows -> Seeds]]
    /\ num \in Len(Loaded) .. LastIndex
    /\ \A r \in Rows : mutexArray[r] # Free_ =>
         thr[mutexArray[r]].pc \notin {"idle", "get", "data"} /\ R(mutexArray[r]) = r
=============================================================================
