------------------------------ MODULE MicaStore ------------------------------
(***************************************************************************)
(* The FaSST baseline: the MICA store of mica/mica.cc (an index of         *)
(* 8-slot buckets over a circular log), the server that loads it and       *)
(* answers RPCs from it (benchs/fasst/server.cc) and the coroutines that   *)
(* call it (benchs/fasst/client.cc).                                       *)
(*                                                                         *)
(* A key reaches the store as its 32-bit bucket hash and its 16-bit tag,   *)
(* so that pair is the key here.  Values are always 8 bytes long, so every *)
(* log entry takes 32 bytes and offsets are counted in entries.  log_head  *)
(* counts virtual positions that never wrap; log_cap is a power of two.    *)
(*                                                                         *)
(* All callbacks use one global mica_op without a lock: the model is of    *)
(* the default of one server thread (mem_threads = 1), where a callback is *)
(* one step.                                                               *)
(***************************************************************************)
EXTENDS Naturals, Sequences, FiniteSets

CONSTANTS
    ExistKeys,      \* sequence of the keys loaded, [bkt, tag]
    ClientKeys,     \* keys the clients use
    Values,         \* values the clients put
    SLOTS,          \* slots of a bucket: 8 in the code
    num_bkts,       \* buckets, a power of two
    log_cap,        \* entries the log holds, a power of two
    ValMod,         \* 2^32: a value is stored in a uint32_t
    Cors,           \* client coroutines
    MaxCalls        \* bound: calls of all coroutines together

VARIABLES
    ht_index,       \* bucket -> slot -> [in_use, tag, offset]
    ht_log,         \* physical position -> [key, val]
    log_head,       \* virtual position of the next entry
    loaded,         \* keys loaded so far
    serving,        \* the load is over
    call,           \* per coroutine: its RPC
    last,           \* history: the last value written for a key, if any
    calls           \* calls made

vars == <<ht_index, ht_log, log_head, loaded, serving, call, last, calls>>

Keys == ClientKeys \cup {ExistKeys[i] : i \in DOMAIN ExistKeys}
SlotIds == 0..(SLOTS - 1)

NoKey == [bkt |-> 0, tag |-> 0]
NoCall == [op |-> "none", key |-> NoKey, val |-> 0, state |-> "idle",
           status |-> FALSE, fresh |-> {}]

Store == [index |-> ht_index, log |-> ht_log, head |-> log_head]

-----------------------------------------------------------------------------
(* mica.cc *)

Bkt(k) == k.bkt % num_bkts

\* after an entry: close to the end of the physical log, go on at its beginning;
\* unsigned, so this happens in the first round only
NextHead(h) ==
    IF h <= log_cap /\ log_cap - h <= 1
    THEN ((h + log_cap) \div log_cap) * log_cap
    ELSE h

\* the loop has no break: the last slot with the tag or not in use is taken
SlotToUse(slots, tag) ==
    LET S == {i \in SlotIds : slots[i].tag = tag \/ ~slots[i].in_use}
    IN  IF S = {} THEN tag % SLOTS
        ELSE CHOOSE i \in S : \A j \in S : j <= i

mica_insert_one(st, k, v) ==
    LET b == Bkt(k)
        slot == [in_use |-> TRUE, tag |-> k.tag, offset |-> st.head]
    IN  [index |-> [st.index EXCEPT ![b][SlotToUse(st.index[b], k.tag)] = slot],
         log   |-> [st.log EXCEPT ![st.head % log_cap] = [key |-> k, val |-> v]],
         head  |-> NextHead(st.head + 1)]

\* the first used slot with the tag is the only one looked at; it is a hit if
\* the log has not wrapped over its entry and the entry has the whole key
TagSlots(st, k) ==
    {i \in SlotIds : /\ st.index[Bkt(k)][i].in_use
                     /\ st.index[Bkt(k)][i].tag = k.tag}

FoundSlot(st, k) ==
    CHOOSE i \in TagSlots(st, k) : \A j \in TagSlots(st, k) : i <= j

FoundAt(st, k) == st.index[Bkt(k)][FoundSlot(st, k)].offset

\* mutant: the key in the log is not compared
tag_in_store(st, k) ==
    /\ TagSlots(st, k) # {}
    /\ st.head - FoundAt(st, k) < log_cap

key_in_store(st, k) ==
    /\ TagSlots(st, k) # {}
    /\ st.head - FoundAt(st, k) < log_cap
    /\ st.log[FoundAt(st, k) % log_cap].key = k

\* mica_batch_op with one operation: a PUT of a key in the store overwrites the
\* value in the log, any other PUT is an insert
batch_put(st, k, v) ==
    IF key_in_store(st, k)
    THEN [st EXCEPT !.log[FoundAt(st, k) % log_cap].val = v]
    ELSE mica_insert_one(st, k, v)

batch_get(st, k) == st.log[FoundAt(st, k) % log_cap].val

-----------------------------------------------------------------------------
(* The server *)

\* mica_init
Init ==
    /\ ht_index = [b \in 0..(num_bkts - 1) |->
                    [i \in SlotIds |-> [in_use |-> FALSE, tag |-> 0,
                                        offset |-> 0]]]
    /\ ht_log = [p \in 0..(log_cap - 1) |-> [key |-> NoKey, val |-> 0]]
    /\ log_head = 0
    /\ loaded = 0
    /\ serving = FALSE
    /\ call = [c \in Cors |-> NoCall]
    /\ last = [k \in Keys |-> {}]
    /\ calls = 0

SetStore(st) ==
    /\ ht_index' = st.index
    /\ ht_log' = st.log
    /\ log_head' = st.head

\* setup_mica_table inserts without looking the key up
LoadOne ==
    /\ ~serving
    /\ loaded < Len(ExistKeys)
    /\ LET k == ExistKeys[loaded + 1]
       IN  /\ SetStore(mica_insert_one(Store, k, loaded))
           /\ last' = [last EXCEPT ![k] = {loaded}]
    /\ loaded' = loaded + 1
    /\ UNCHANGED <<serving, call, calls>>

StartServing ==
    /\ ~serving
    /\ loaded = Len(ExistKeys)
    /\ serving' = TRUE
    /\ UNCHANGED <<ht_index, ht_log, log_head, loaded, call, last, calls>>

Serving(c, op) ==
    /\ serving
    /\ call[c].state = "sent"
    /\ call[c].op = op

fasst_get_callback(c) ==
    /\ Serving(c, "get")
    /\ LET k == call[c].key
           hit == key_in_store(Store, k)
       IN  call' = [call EXCEPT ![c].state = "replied", ![c].status = hit,
                       ![c].val = IF hit THEN batch_get(Store, k) ELSE 0]
    /\ UNCHANGED <<ht_index, ht_log, log_head, loaded, serving, last, calls>>

\* a value counts as fresh for every search of its key that is under way
Answered(c, k, v) ==
    [d \in Cors |->
        IF d = c THEN [call[d] EXCEPT !.state = "replied", !.status = TRUE]
        ELSE IF call[d].op = "get" /\ call[d].key = k /\ call[d].state = "sent"
        THEN [call[d] EXCEPT !.fresh = @ \cup {v}]
        ELSE call[d]]

\* fasst_put_callback and fasst_update_callback are the same code; op->value[0]
\* keeps 32 bits of the value
fasst_put_callback(c) ==
    /\ \/ Serving(c, "put")
       \/ Serving(c, "update")
    /\ \E v \in {call[c].val % ValMod} :
          /\ SetStore(batch_put(Store, call[c].key, v))
          /\ last' = [last EXCEPT ![call[c].key] = {v}]
          /\ call' = Answered(c, call[c].key, v)
    /\ UNCHANGED <<loaded, serving, calls>>

\* removes nothing
fasst_remove_callback(c) ==
    /\ Serving(c, "remove")
    /\ call' = [call EXCEPT ![c].state = "replied", ![c].status = TRUE]
    /\ UNCHANGED <<ht_index, ht_log, log_head, loaded, serving, last, calls>>

-----------------------------------------------------------------------------
(* The clients *)

\* remote_search, remote_put, remote_update, remote_remove
Send(c, op, k, v) ==
    /\ serving
    /\ call[c].state = "idle"
    /\ calls < MaxCalls
    /\ call' = [call EXCEPT ![c] = [NoCall EXCEPT
                    !.op = op, !.key = k, !.val = v, !.state = "sent",
                    !.fresh = IF op = "get" THEN last[k] ELSE {}]]
    /\ calls' = calls + 1
    /\ UNCHANGED <<ht_index, ht_log, log_head, loaded, serving, last>>

\* the coroutine resumes with the reply
Return(c) ==
    /\ call[c].state = "replied"
    /\ call' = [call EXCEPT ![c] = NoCall]
    /\ UNCHANGED <<ht_index, ht_log, log_head, loaded, serving, last, calls>>

\* running = false once the time is over
Rest ==
    /\ serving
    /\ \A c \in Cors : call[c].state = "idle"
    /\ UNCHANGED vars

CorStep(c) ==
    \/ \E k \in ClientKeys : Send(c, "get", k, 0) \/ Send(c, "remove", k, 0)
    \/ \E k \in ClientKeys, v \in Values :
            Send(c, "put", k, v) \/ Send(c, "update", k, v)
    \/ fasst_get_callback(c)
    \/ fasst_put_callback(c)
    \/ fasst_remove_callback(c)
    \/ Return(c)

Next ==
    \/ LoadOne
    \/ StartServing
    \/ \E c \in Cors : CorStep(c)
    \/ Rest

Spec == Init /\ [][Next]_vars

-----------------------------------------------------------------------------
(* What holds *)

\* No bucket has two used slots with one tag, through inserts of colliding tags
\* and evictions.  A GET looks at the first such slot only, and the insert's loop
\* takes the last slot that fits: this agrees because slots are used from the end
\* of the bucket on (not, as the comment in mica_insert_one has it, from the
\* beginning).
TagsUnique ==
    \A b \in DOMAIN ht_index : \A i, j \in SlotIds :
        LET s == ht_index[b]
        IN  s[i].in_use /\ s[j].in_use /\ s[i].tag = s[j].tag => i = j

\* A search that succeeds returns the value last written for exactly its key
\* when it was sent, or one written since: never a value of another key with its
\* tag, an overwritten log entry or an older value, however the log has wrapped.
GetReturnsLatest ==
    \A c \in Cors :
        call[c].op = "get" /\ call[c].state = "replied" /\ call[c].status =>
            call[c].val \in call[c].fresh
=============================================================================
