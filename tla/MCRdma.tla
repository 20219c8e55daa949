------------------------------- MODULE MCRdma -------------------------------
(***************************************************************************)
(* The RDMA side in one run: a behaviour is one of the remote calls, of    *)
(* the store with one row, of the store with two rows and a server thread  *)
(* for each, or of the overflow cache alone.                               *)
(***************************************************************************)
EXTENDS RpcCore, Sequences

CONSTANTS c1, c2, s1, NoKey, CacheKeys

VARIABLES which, bucketsArray, seed, rawArray, num, lru, mutexArray, thr, cseed,
          op, up, acked, history

storeVars == <<bucketsArray, seed, rawArray, num, mutexArray, thr, cseed, op, up, acked>>

----------------------------------------------------------------------------
\* Two client threads of a process, of which the first calls more.
MCServerOf == [c \in Clients |-> s1]
MCSessionId == [c \in Clients |-> IF c = c1 THEN 1 ELSE 2]
MCLosses == {{}, {"Connect", "Req", "Reply"}}
MCMaxCalls == [c \in Clients |-> IF c = c1 THEN <<2, 1>> ELSE <<1, 1>>]

\* One bucket of three slots.  Key 1 is loaded, key 3 has its fingerprint, and
\* each collision has a seed that resolves it before the last, which is not tried.
Hash1 == [s \in 0 .. 3 |->
            CASE s = 0 -> <<0, 0, 0, 2>> [] s = 1 -> <<0, 1, 1, 1>> [] s = 2 -> <<2, 1, 0, 0>>
              [] s = 3 -> <<0, 1, 2, 0>>]
Workload1 == {<<"get", k>> : k \in 1 .. 3} \union {<<"put", k>> : k \in 1 .. 4}
             \union {<<"update", 1>>, <<"update", 3>>, <<"remove", 1>>}
One == INSTANCE RdmaStore WITH
    Keys <- 1 .. 4, Vals <- 0 .. 4, SLOTS_NUM_BUCKET <- 3, SeedCount <- 4,
    fingerprint <- <<1, 2, 1, 3>>, hash <- Hash1, maxSize_ <- 1, elasticity_ <- 1,
    Rows <- {1}, RowOf <- <<1, 1, 1, 1>>, Loaded <- <<1>>, Cors <- {1, 2},
    ClientOf <- <<"c1", "c2">>, ThreadOf <- <<"t1", "t2">>, numElements <- 4,
    Garbage <- 4, Workload <- Workload1, MaxCalls <- 2

\* Two buckets of two slots; the keys of each are put by one coroutine.
Hash2 == [s \in 0 .. 2 |-> IF s = 0 THEN <<0, 0, 0, 1>> ELSE <<0, 1, 0, 1>>]
Workload2 == {<<"put", k>> : k \in 1 .. 4}
Two == INSTANCE RdmaStore WITH
    Keys <- 1 .. 4, Vals <- 0 .. 4, SLOTS_NUM_BUCKET <- 2, SeedCount <- 3,
    fingerprint <- <<1, 2, 1, 2>>, hash <- Hash2, maxSize_ <- 1, elasticity_ <- 1,
    Rows <- {1, 2}, RowOf <- <<1, 1, 2, 2>>, Loaded <- <<1>>, Cors <- {1, 2},
    ClientOf <- <<"c1", "c1">>, ThreadOf <- <<"t1", "t2">>, numElements <- 4,
    Garbage <- 4, Workload <- Workload2, MaxCalls <- 2

\* Both are instances of what RdmaStoreProofs assumes; the first also has serial puts.
ASSUME RdmaSetting == One!Setting /\ One!Serial /\ Two!Setting

Lru == INSTANCE LruHistory WITH maxSize_ <- 2, elasticity_ <- 2, CacheVals <- {1, 2}

----------------------------------------------------------------------------
MCInit ==
    \/ which = "rpc" /\ Init /\ One!Init /\ history = << >>
    \/ which = "one row" /\ Init /\ lossy = {} /\ One!Init /\ history = << >>
    \/ which = "two rows" /\ Init /\ lossy = {} /\ Two!Init /\ history = << >>
    \/ which = "lru" /\ Init /\ lossy = {} /\ Lru!Init /\ One!Init

RpcStep == which = "rpc" /\ Next /\ UNCHANGED <<which, storeVars, lru, history>>
OneRowStep == which = "one row" /\ One!Next /\ UNCHANGED <<which, vars, history>>
TwoRowsStep == which = "two rows" /\ Two!Next /\ UNCHANGED <<which, vars, history>>
LruStep == which = "lru" /\ Lru!Next /\ UNCHANGED <<which, vars, storeVars>>

allVars == <<which, vars, storeVars, lru, history>>
MCSpec ==
    /\ MCInit
    /\ [][RpcStep \/ OneRowStep \/ TwoRowsStep \/ LruStep]_allVars
    /\ which = "rpc" => Fairness

----------------------------------------------------------------------------
\* RdmaStore: a stored key stays reachable whatever re-seeds its bucket, an
\* occupied cell is where its key's slot is, and a get with the server's seed
\* returns the value of its key.
StoreKeysFound == which = "one row" => One!AckedReachable /\ One!Placement /\ One!GetReturnsOwn
\* RdmaStore: no two cells lead to one entry, also with two rows and threads; the
\* rest is types, and who holds a mutex.
StoreEntriesDistinct ==
    /\ which = "one row" => One!EntriesDistinct /\ One!TypeOK
    /\ which = "two rows" => Two!EntriesDistinct /\ Two!TypeOK
\* LruHistory: what is evicted is the least recently used; the map and the list
\* agree and the size is bounded.
LruHoldsMostRecent == which = "lru" => Lru!HoldsMostRecent /\ Lru!MapAgrees
=============================================================================
