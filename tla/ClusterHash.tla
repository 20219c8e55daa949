----------------------------- MODULE ClusterHash -----------------------------
(***************************************************************************)
(* The DrTM-R baseline: the cluster hash table of drtmr/clusterhash.h, the *)
(* server that loads it and answers RPCs from it (benchs/drtmr/server.cc,  *)
(* built with CLUSTER_HASH_MODE) and the coroutines that call it           *)
(* (benchs/drtmr/client.cc).                                               *)
(*                                                                         *)
(* The table is one array of words.  Header nodes of CLUSTER_H slots come  *)
(* first, and a cluster is a chain of them; a slot holds a key and the     *)
(* index of its data node.  Data nodes follow behind indirect_length       *)
(* header nodes.  Index 0 marks a free slot and next = 0 the end of a      *)
(* chain.  What was never written reads as 0: the buffer is fresh and much *)
(* larger than the table.                                                  *)
(*                                                                         *)
(* Both limits that Insert tests are assertions, and they are compiled     *)
(* out: drtmr/trait.hpp includes btree.h, which defines NDEBUG, before     *)
(* clusterhash.h.  Insert goes on: past total_length into the rest of the  *)
(* buffer, past indirect_length into the data nodes.                       *)
(*                                                                         *)
(* Insert holds the mutex of its cluster, but free_data and free_indirect  *)
(* are shared by all of them.  It is cut wherever others may see or change *)
(* what it uses: at the links it sets and at each use of a counter, which  *)
(* it may read again or take from what it read before.  RPC                *)
(* delivery is RpcCore's subject; here a call waits until a server thread  *)
(* has served it.                                                          *)
(***************************************************************************)
EXTENDS Integers, Sequences, FiniteSets, TLC

CONSTANTS
    length,         \* nkeys: keys loaded, and data nodes
    CLUSTER_H,      \* slots of a header node
    HashChoices,    \* the hash functions considered: key -> Nat
    NewKeys,        \* nonexist_keys: what clients put
    BenchKeys,      \* bench_keys: what clients search, update and remove
    Cors,           \* client coroutines
    MaxCalls        \* bound: calls of all coroutines together

VARIABLES
    hashOf,         \* the hash function of this behaviour
    array,          \* the words written so far
    free_indirect, free_data,
    loaded,         \* keys loaded so far
    server,         \* "loading", "running" or, after a null pointer, "dead"
    call,           \* per coroutine, and the loading thread: its operation
    acked,          \* history: keys an acknowledged update has written
    overrun,        \* history: a header node was laid over data nodes
    calls           \* calls made

tableVars == <<array, free_indirect, free_data>>
vars == <<hashOf, tableVars, loaded, server, call, acked, overrun, calls>>

Logical_length == length \div CLUSTER_H
indirect_length == length \div 2
total_length == length + indirect_length

\* exist_keys[i] is i + 1: keys are numbers, 0 is never one
ExistKey(i) == i + 1

GetHash(k) == hashOf[k] % Logical_length

Slots == 1..CLUSTER_H

\* Words of a HeaderNode (next, keys, indexes) and of a DataNode with its value.
header_size == 2 * CLUSTER_H + 1
data_size == 3

next_at(h) == h * header_size
key_at(h, i) == h * header_size + i
index_at(h, i) == h * header_size + CLUSTER_H + i
getDataNode_loc(d) == indirect_length * header_size + (d - indirect_length) * data_size

Word(w) == IF w \in DOMAIN array THEN array[w] ELSE 0

DataKey(d) == Word(getDataNode_loc(d))
DataVal(d) == Word(getDataNode_loc(d) + 2)

NoCall == [op |-> "none", key |-> 0, val |-> 0, state |-> "idle", must |-> FALSE,
           status |-> FALSE, node |-> 0, slot |-> 0, free |-> 0]

Init ==
    /\ hashOf \in HashChoices
    /\ array = [w \in {} |-> 0]
    /\ free_indirect = Logical_length
    /\ free_data = indirect_length
    /\ loaded = 0
    /\ server = "loading"
    /\ call = [c \in Cors \union {"main"} |-> NoCall]
    /\ acked = {}
    /\ overrun = FALSE
    /\ calls = 0

-----------------------------------------------------------------------------
(* The table *)

\* The header nodes from h on, up to the end of the chain or to one that is
\* already among those seen.
RECURSIVE ChainFrom(_, _)
ChainFrom(h, seen) ==
    IF \E i \in DOMAIN seen : seen[i] = h THEN seen
    ELSE IF Word(next_at(h)) = 0 THEN Append(seen, h)
    ELSE ChainFrom(Word(next_at(h)), Append(seen, h))

Chain(h) == ChainFrom(h, <<>>)

LastNode(h) == Chain(h)[Len(Chain(h))]

\* The chain has no end.
Cyclic(h) == Word(next_at(LastNode(h))) # 0

FreeIn(h) == {i \in Slots : Word(index_at(h, i)) = 0}

\* Get and Update walk the chain to the first used slot with the key; the data
\* node found, or 0 (nullptr)
Lookup(k) ==
    LET ch == Chain(GetHash(k))
        Hits == {p \in (1..Len(ch)) \X Slots :
                    /\ Word(key_at(ch[p[1]], p[2])) = k
                    /\ Word(index_at(ch[p[1]], p[2])) # 0}
        first == CHOOSE p \in Hits : \A q \in Hits :
                    p[1] < q[1] \/ (p[1] = q[1] /\ p[2] <= q[2])
    IN  IF Hits = {} THEN 0 ELSE Word(index_at(ch[first[1]], first[2]))

Inserting == {"grown", "filled", "linked"}

\* mutexArray[hash]: an Insert of the cluster is under way, or an Insert or Update
\* does not come to an end.
Locked(h) ==
    \E c \in DOMAIN call :
        /\ \/ call[c].state \in Inserting
           \/ call[c].state = "spins" /\ call[c].op # "get"
        /\ GetHash(call[c].key) = h

\* The data node is filled and its slot chosen; the slot is written next.
FillDataNode(c, node, i) ==
    /\ array' = (getDataNode_loc(free_data) :> call[c].key)
                @@ (getDataNode_loc(free_data) + 2 :> call[c].val) @@ array
    /\ call' = [call EXCEPT ![c].state = "filled", ![c].node = node,
                            ![c].slot = i, ![c].free = free_data]

\* Insert as far as the data node, when the chain's last node has a free slot
InsertInLast(c) ==
    LET h == GetHash(call[c].key)
        open == FreeIn(LastNode(h))
    IN  /\ call[c].state = "insert"
        /\ ~Locked(h) /\ ~Cyclic(h)
        /\ open # {}
        /\ FillDataNode(c, LastNode(h), CHOOSE i \in open : \A j \in open : i <= j)
        /\ UNCHANGED <<hashOf, free_indirect, free_data, loaded, server, acked,
                       overrun, calls>>


\* ... and as far as the link to a new node when it has none
InsertGrow(c) ==
    LET h == GetHash(call[c].key)
    IN  /\ call[c].state = "insert"
        /\ ~Locked(h) /\ ~Cyclic(h)
        /\ FreeIn(LastNode(h)) = {}
        /\ array' = (next_at(LastNode(h)) :> free_indirect) @@ array
        /\ call' = [call EXCEPT ![c].state = "grown", ![c].free = free_indirect]
        /\ overrun' = (overrun \/ free_indirect >= indirect_length)
        /\ UNCHANGED <<hashOf, free_indirect, free_data, loaded, server, acked,
                       calls>>

\* The new node is counted and the data node filled.
InsertNewNode(c) ==
    /\ call[c].state = "grown"
    /\ \E n, m \in {call[c].free, free_indirect} :
         /\ FillDataNode(c, n, 1)
         /\ free_indirect' = m + 1
         /\ overrun' = (overrun \/ n >= indirect_length)
    /\ UNCHANGED <<hashOf, free_data, loaded, server, acked, calls>>

\* The slot is set: the key can be found from here on.
InsertLink(c) ==
    /\ call[c].state = "filled"
    /\ \E d \in {call[c].free, free_data} :
         /\ array' = (key_at(call[c].node, call[c].slot) :> call[c].key)
                     @@ (index_at(call[c].node, call[c].slot) :> d) @@ array
         /\ call' = [call EXCEPT ![c].state = "linked", ![c].free = d]
    /\ UNCHANGED <<hashOf, free_indirect, free_data, loaded, server, acked,
                   overrun, calls>>

\* What the caller does when Insert returns: the load goes on with the next key,
\* a put is answered; the reply's fields are not set.
Inserted(c) ==
    IF c = "main" THEN loaded' = loaded + 1 /\ call' = [call EXCEPT ![c] = NoCall]
    ELSE loaded' = loaded /\ call' = [call EXCEPT ![c].state = "replied"]

\* The data node is counted and the mutex released.
InsertCount(c) ==
    /\ call[c].state = "linked"
    /\ \E d \in {call[c].free, free_data} : free_data' = d + 1
    /\ Inserted(c)
    /\ UNCHANGED <<hashOf, array, free_indirect, server, acked, overrun, calls>>

\* A walk to the end of a chain that has none: Insert always goes there, Get and
\* Update if they do not meet their key.
Spin(c) ==
    /\ \/ call[c].state = "insert"
       \/ /\ server = "running" /\ call[c].state = "sent"
          /\ call[c].op \in {"get", "update"} /\ Lookup(call[c].key) = 0
    /\ Cyclic(GetHash(call[c].key))
    /\ call[c].op # "get" => ~Locked(GetHash(call[c].key))
    /\ call' = [call EXCEPT ![c].state = "spins"]
    /\ UNCHANGED <<hashOf, tableVars, loaded, server, acked, overrun, calls>>

Insert(c) ==
    \/ InsertInLast(c)
    \/ InsertGrow(c)
    \/ InsertNewNode(c)
    \/ InsertLink(c)
    \/ InsertCount(c)

-----------------------------------------------------------------------------
(* The server *)

\* One iteration of setup_cluster_hash_table up to its Insert; the value is the
\* address bulk_load_data returns, the key's position.
LoadOne ==
    /\ server = "loading"
    /\ loaded < length
    /\ call["main"].state = "idle"
    /\ call' = [call EXCEPT !["main"] = [NoCall EXCEPT
                   !.op = "load", !.key = ExistKey(loaded), !.val = loaded,
                   !.state = "insert"]]
    /\ UNCHANGED <<hashOf, tableVars, loaded, server, acked, overrun, calls>>

\* main: workers start polling once the table is loaded
StartServing ==
    /\ server = "loading"
    /\ loaded = length
    /\ server' = "running"
    /\ UNCHANGED <<hashOf, tableVars, loaded, call, acked, overrun, calls>>

Serving(c, op) ==
    /\ server = "running"
    /\ call[c].state = "sent"
    /\ call[c].op = op

\* Get and Update return: the key is found or the chain ends.
Finds(c) == Lookup(call[c].key) # 0 \/ ~Cyclic(GetHash(call[c].key))

Reply(c, ok, v) ==
    call' = [call EXCEPT ![c].state = "replied", ![c].status = ok,
                         ![c].val = v]

\* Get takes no lock.  A key that is not there makes the callback dereference a
\* null pointer; a value of 0 is answered as "not found".
drtmr_get_callback(c) ==
    /\ Serving(c, "get")
    /\ Finds(c)
    /\ \E d \in {Lookup(call[c].key)} :
          IF d = 0
          THEN server' = "dead" /\ UNCHANGED call
          ELSE Reply(c, DataVal(d) # 0, DataVal(d)) /\ UNCHANGED server
    /\ UNCHANGED <<hashOf, tableVars, loaded, acked, overrun, calls>>

\* Inserts without looking for the key.
drtmr_put_callback(c) ==
    /\ Serving(c, "put")
    /\ call' = [call EXCEPT ![c].state = "insert"]
    /\ UNCHANGED <<hashOf, tableVars, loaded, server, acked, overrun, calls>>

\* Update, under the mutex of the cluster; an absent key is passed over, and the
\* status is true either way.
drtmr_update_callback(c) ==
    /\ Serving(c, "update")
    /\ ~Locked(GetHash(call[c].key))
    /\ Finds(c)
    /\ \E d \in {Lookup(call[c].key)} :
          array' = IF d = 0 THEN array
                   ELSE (getDataNode_loc(d) + 2 :> call[c].key) @@ array
    /\ Reply(c, TRUE, call[c].key)
    /\ UNCHANGED <<hashOf, free_indirect, free_data, loaded, server, acked,
                   overrun, calls>>

\* remove is not supported by the cluster hash: success without any change
drtmr_remove_callback(c) ==
    /\ Serving(c, "remove")
    /\ Reply(c, TRUE, 0)
    /\ UNCHANGED <<hashOf, tableVars, loaded, server, acked, overrun, calls>>

-----------------------------------------------------------------------------
(* The clients *)

\* remote_search, remote_put, remote_update, remote_remove: the request is sent
\* and the coroutine pauses; a put carries its key as the value
Send(c, op, k) ==
    /\ call[c].state = "idle"
    /\ calls < MaxCalls
    /\ server # "loading"
    /\ k \in IF op = "put" THEN NewKeys ELSE BenchKeys
    /\ call' = [call EXCEPT ![c] = [NoCall EXCEPT
                    !.op = op, !.key = k, !.val = IF op = "put" THEN k ELSE 0,
                    !.state = "sent", !.must = k \in acked]]
    /\ calls' = calls + 1
    /\ UNCHANGED <<hashOf, tableVars, loaded, server, acked, overrun>>

\* the reply has arrived: the coroutine goes on with its loop
Return(c) ==
    /\ call[c].state = "replied"
    /\ call' = [call EXCEPT ![c] = NoCall]
    /\ acked' = IF call[c].op = "update" THEN acked \cup {call[c].key} ELSE acked
    /\ UNCHANGED <<hashOf, tableVars, loaded, server, overrun, calls>>

\* the benchmark ends, or waits for ever for a server that has died or spins
Rest ==
    /\ \/ server = "dead"
       \/ \E c \in DOMAIN call : call[c].state = "spins"
       \/ server = "running" /\ \A c \in Cors : call[c].state = "idle"
    /\ UNCHANGED vars

CorStep(c) ==
    \/ \E op \in {"get", "put", "update", "remove"}, k \in BenchKeys \cup NewKeys :
            Send(c, op, k)
    \/ drtmr_get_callback(c)
    \/ drtmr_put_callback(c)
    \/ drtmr_update_callback(c)
    \/ drtmr_remove_callback(c)
    \/ Return(c)

Next ==
    \/ LoadOne
    \/ StartServing
    \/ server # "dead" /\ \E c \in DOMAIN call : Insert(c) \/ Spin(c)
    \/ \E c \in Cors : CorStep(c)
    \/ Rest

Spec == Init /\ [][Next]_vars

-----------------------------------------------------------------------------
(* What holds, as long as no header node is laid over the data nodes *)

\* Every key loaded so far is found, in a data node that holds it with its load
\* address or its updated value, and no other slot of any chain leads to that data
\* node: whatever the hash values do to the chains, and although racing puts may
\* take the same header node or data node and wind the counters back, no put
\* hides, overwrites or shares what the load has stored.
LoadedKeysFound ==
    ~overrun =>
      \A i \in 0..(loaded - 1) :
        LET k == ExistKey(i)
            d == Lookup(k)
            ReachedBy == {<<n, s>> \in (0..(indirect_length - 1)) \X Slots :
                             Word(index_at(n, s)) = d}
        IN  /\ d # 0
            /\ DataKey(d) = k
            /\ DataVal(d) \in {i, k}
            /\ Cardinality(ReachedBy) = 1

\* A search that was sent after an update of its key had been acknowledged is
\* answered with the updated value, and no search or update of a loaded key ends
\* the server, in spite of racing puts.
UpdateSeenAfterAck ==
    ~overrun =>
      /\ server # "dead"
      /\ \A c \in Cors :
           call[c].op = "get" /\ call[c].state = "replied" /\ call[c].must =>
             call[c].status /\ call[c].val = call[c].key
=============================================================================
