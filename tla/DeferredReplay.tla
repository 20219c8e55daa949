--------------------------- MODULE DeferredReplay ---------------------------
(***************************************************************************)
(* What a resize does to the data: the server's handlers                   *)
(* (outback_*_direct, outback_server_numa.hh) beside the monitor thread,   *)
(* which copies the region, queues the inserts and deletes that come in    *)
(* meanwhile and replays them into the new region (outback_resize.hh).     *)
(*                                                                         *)
(* One row is modelled, all keys hash to it, and the seed stays 0: these   *)
(* handlers never change it.  When a resize starts and when the waits for  *)
(* acks and grace periods end is left open here; ResizeMonitor has the     *)
(* conditions.  Regions are numbered 1, 2, ...; the handlers work on the   *)
(* globals ludo_buckets and packed_data, which lead into region 1 for      *)
(* ever.                                                                   *)
(***************************************************************************)
EXTENDS LudoBucket, Sequences

CONSTANTS
    Threads,
    Loaded,             \* keys loaded into the row: a sequence
    num_data_entries,   \* size of region 1's packed array
    kMaxDeferredDepth,
    MaxVersion,         \* bound: last region created
    MaxOps              \* bound: operations begun

ASSUME ReplayAssumption ==
    /\ "free" \notin Threads
    /\ Loaded \in Seq(Keys) /\ Loaded # <<>>
    /\ num_data_entries \in Nat /\ Len(Loaded) <= num_data_entries
    /\ {kMaxDeferredDepth, MaxVersion, MaxOps} \subseteq Nat
    /\ \A i, j \in DOMAIN Loaded :
         i # j => hash[0][Loaded[i]] # hash[0][Loaded[j]]

VARIABLES
    region,             \* mapped regions: version -> [bucket, array, num]
    current,            \* version srv_state points to
    pending_old,        \* pending_old_ver_, or 0
    resize_state,
    blocked,            \* g_structural_mutations_blocked
    mpc, running,       \* monitor thread
    deferred_inserts, deferred_deletes,
    defer_mu, mutex,    \* holders of defer_mu_ and mutexArray[row]
    pc, req, slot, addr, ops,      \* handler threads
    overflow,           \* keys given to lru_cache
    dead,               \* why the server process ended, or "no"
    accepted, replayed  \* ghosts: deferred operations in order

monitorVars == <<current, pending_old, resize_state, mpc, running>>
queueVars == <<deferred_inserts, deferred_deletes, accepted, replayed>>
localVars == <<slot, addr, overflow, dead>>
vars == <<region, blocked, defer_mu, mutex, pc, req, ops, monitorVars,
          queueVars, localVars>>

Requests == [op : {"put"}, key : Keys, val : Vals]
            \union [op : {"update"}, key : Keys, val : Vals]
            \union [op : {"remove", "get"}, key : Keys, val : {0}]

\* What an idle thread holds.
NoRequest == [op |-> "get", key |-> Loaded[1], val |-> 0]

slot_of(k) == hash[0][k]

Init ==
    /\ region = [v \in {1} |->
         [bucket |-> [s \in Slots |->
            IF \E i \in DOMAIN Loaded : slot_of(Loaded[i]) = s
            THEN LET i == CHOOSE i \in DOMAIN Loaded : slot_of(Loaded[i]) = s
                 IN  combine(Loaded[i], i - 1)
            ELSE ZeroCell],
          array |-> [i \in 0 .. num_data_entries - 1 |->
            IF i < Len(Loaded) THEN [key |-> Loaded[i + 1], data |-> 0]
            ELSE ZeroEntry],
          num |-> Len(Loaded)]]
    /\ current = 1
    /\ pending_old = 0
    /\ resize_state = "NORMAL"
    /\ blocked = "no"
    /\ mpc = "poll"
    /\ running = "yes"
    /\ deferred_inserts = <<>>
    /\ deferred_deletes = <<>>
    /\ defer_mu = "free"
    /\ mutex = "free"
    /\ pc = [t \in Threads |-> "idle"]
    /\ req = [t \in Threads |-> NoRequest]
    /\ slot = [t \in Threads |-> 0]
    /\ addr = [t \in Threads |-> 0]
    /\ ops = 0
    /\ overflow = {}
    /\ dead = "no"
    /\ accepted = <<>>
    /\ replayed = <<>>

\* Thread t is at point of a handler, in a live process.
On(t, point) == dead = "no" /\ pc[t] = point

Goto(t, point) == pc' = [pc EXCEPT ![t] = point]

Size(r) == Cardinality(DOMAIN r.array)

(***************************************************************************)
(* The handlers.                                                           *)
(***************************************************************************)
\* Puts and removes look at the flag first, an update does not.
FirstPoint(o) ==
    CASE o = "get" -> "read"
      [] o = "update" -> "lock"
      [] OTHER -> "check"

Begin(t) ==
    /\ On(t, "idle")
    /\ ops < MaxOps
    /\ \E r \in Requests :
         /\ req' = [req EXCEPT ![t] = r]
         /\ Goto(t, FirstPoint(r.op))
    /\ ops' = ops + 1
    /\ UNCHANGED <<region, blocked, defer_mu, mutex, monitorVars, queueVars,
                   localVars>>

\* Mutant: the flag is looked at under the row's mutex.
CheckBlockedLocked(t) ==
    /\ On(t, "check")
    /\ mutex = "free"
    /\ mutex' = t
    /\ Goto(t, IF blocked = "yes" THEN "defer" ELSE "apply")
    /\ UNCHANGED <<region, blocked, defer_mu, req, ops, monitorVars, queueVars,
                   localVars>>

CheckBlocked(t) ==
    /\ On(t, "check")
    /\ Goto(t, IF blocked = "yes" THEN "defer" ELSE "lock")
    /\ UNCHANGED <<region, blocked, defer_mu, mutex, req, ops, monitorVars,
                   queueVars, localVars>>

\* A handler returns; a unique_lock it holds is released.
Return(t) ==
    /\ Goto(t, "idle")
    /\ req' = [req EXCEPT ![t] = NoRequest]
    /\ mutex' = IF mutex = t THEN "free" ELSE mutex

\* Mutant: one too many.
HasRoomOffByOne(queue) == Len(queue) <= kMaxDeferredDepth

HasRoom(queue) == Len(queue) < kMaxDeferredDepth

\* defer_insert and defer_delete.  The handler ignores a full queue, and after
\* stop there is no queue: the reply is DEFERRED in every case.
Defer(t) ==
    LET r == req[t]
    IN  /\ On(t, "defer")
        /\ defer_mu = "free"
        /\ \/ /\ r.op = "put" /\ running = "yes" /\ HasRoom(deferred_inserts)
              /\ deferred_inserts' = Append(deferred_inserts, r)
              /\ accepted' = Append(accepted, r)
              /\ UNCHANGED <<deferred_deletes, replayed>>
           \/ /\ r.op = "remove" /\ running = "yes" /\ HasRoom(deferred_deletes)
              /\ deferred_deletes' = Append(deferred_deletes, r)
              /\ accepted' = Append(accepted, r)
              /\ UNCHANGED <<deferred_inserts, replayed>>
           \/ /\ \/ running = "no"
                 \/ r.op = "put" /\ ~HasRoom(deferred_inserts)
                 \/ r.op = "remove" /\ ~HasRoom(deferred_deletes)
              /\ UNCHANGED queueVars
        /\ Return(t)
        /\ UNCHANGED <<region, blocked, defer_mu, ops, monitorVars, localVars>>

RowFree == mutex = "free"

Lock(t) ==
    /\ On(t, "lock")
    /\ RowFree
    /\ mutex' = t
    /\ Goto(t, "apply")
    /\ UNCHANGED <<region, blocked, defer_mu, req, ops, monitorVars, queueVars,
                   localVars>>

\* An access to region 1 after it was unmapped ends the process.
Fault(t) ==
    /\ dead = "no"
    /\ pc[t] \in {"read", "apply", "write_slot", "clear_slot"}
    /\ 1 \notin DOMAIN region
    /\ dead' = "fault"
    /\ UNCHANGED <<region, blocked, defer_mu, mutex, pc, req, ops, monitorVars,
                   queueVars, slot, addr, overflow>>

\* outback_get_direct takes no lock and returns what it reads.
Get(t) ==
    /\ On(t, "read")
    /\ 1 \in DOMAIN region
    /\ Return(t)
    /\ UNCHANGED <<region, blocked, defer_mu, ops, monitorVars, queueVars,
                   localVars>>

\* bulk_load_data: the next entry of the array.
bulk_load_data(r, k, v) ==
    [r EXCEPT !.array[r.num] = [key |-> k, data |-> v], !.num = @ + 1]

update_data(r, a, k, v) == [r EXCEPT !.array[a] = [key |-> k, data |-> v]]

write_addr(r, s, k, a) == [r EXCEPT !.bucket[s] = combine(k, a)]

ToRegion(v, r) == region' = [region EXCEPT ![v] = r]

\* Cases 0 and 2 of outback_put_direct: the entry first, the slot in the next
\* step.  bulk_load_data ends the process when the array is full.
PutNew(t) ==
    LET r == region[1]
        k == req[t].key
    IN  /\ On(t, "apply")
        /\ req[t].op = "put"
        /\ 1 \in DOMAIN region
        /\ check_slots(r.bucket, k, slot_of(k)) \in {0, 2}
        /\ slot' = [slot EXCEPT ![t] = target(r.bucket, k, slot_of(k))]
        /\ IF r.num < Size(r)
           THEN /\ ToRegion(1, bulk_load_data(r, k, req[t].val))
                /\ addr' = [addr EXCEPT ![t] = r.num]
                /\ Goto(t, "write_slot")
                /\ UNCHANGED dead
           ELSE /\ dead' = "exit"
                /\ UNCHANGED <<region, addr, pc>>
        /\ UNCHANGED <<blocked, defer_mu, mutex, req, ops, monitorVars,
                       queueVars, overflow>>

WriteSlot(t) ==
    /\ On(t, "write_slot")
    /\ 1 \in DOMAIN region
    /\ ToRegion(1, write_addr(region[1], slot[t], req[t].key, addr[t]))
    /\ slot' = [slot EXCEPT ![t] = 0]
    /\ addr' = [addr EXCEPT ![t] = 0]
    /\ Return(t)
    /\ UNCHANGED <<blocked, defer_mu, ops, monitorVars, queueVars, overflow, dead>>

\* Case 1: the key's entry, if it is the key's.
PutExisting(t) ==
    LET r == region[1]
        k == req[t].key
        a == r.bucket[slot_of(k)].addr
    IN  /\ On(t, "apply")
        /\ req[t].op = "put"
        /\ 1 \in DOMAIN region
        /\ check_slots(r.bucket, k, slot_of(k)) = 1
        /\ IF r.array[a].key = k
           THEN ToRegion(1, update_data(r, a, k, req[t].val))
           ELSE UNCHANGED region
        /\ Return(t)
        /\ UNCHANGED <<blocked, defer_mu, ops, monitorVars, queueVars,
                       localVars>>

\* Case 3: the bucket is full and the key goes to the cache.
PutOverflow(t) ==
    LET k == req[t].key
    IN  /\ On(t, "apply")
        /\ req[t].op = "put"
        /\ 1 \in DOMAIN region
        /\ check_slots(region[1].bucket, k, slot_of(k)) = 3
        /\ overflow' = overflow \union {k}
        /\ Return(t)
        /\ UNCHANGED <<region, blocked, defer_mu, ops, monitorVars,
                       queueVars, slot, addr, dead>>

Update(t) ==
    LET r == region[1]
        k == req[t].key
        a == r.bucket[slot_of(k)].addr
    IN  /\ On(t, "apply")
        /\ req[t].op = "update"
        /\ 1 \in DOMAIN region
        /\ IF r.array[a].key = k
           THEN ToRegion(1, update_data(r, a, k, req[t].val))
           ELSE UNCHANGED region
        /\ Return(t)
        /\ UNCHANGED <<blocked, defer_mu, ops, monitorVars, queueVars,
                       localVars>>

\* outback_remove_direct: the entry is zeroed first, the slot next.
Remove(t) ==
    LET r == region[1]
        k == req[t].key
        a == r.bucket[slot_of(k)].addr
    IN  /\ On(t, "apply")
        /\ req[t].op = "remove"
        /\ 1 \in DOMAIN region
        /\ IF r.array[a].key = k
           THEN /\ ToRegion(1, [r EXCEPT !.array[a] = ZeroEntry])
                /\ Goto(t, "clear_slot")
                /\ UNCHANGED <<mutex, req>>
           ELSE Return(t) /\ UNCHANGED region
        /\ UNCHANGED <<blocked, defer_mu, ops, monitorVars, queueVars,
                       localVars>>

ClearSlot(t) ==
    /\ On(t, "clear_slot")
    /\ 1 \in DOMAIN region
    /\ ToRegion(1, [region[1] EXCEPT !.bucket[slot_of(req[t].key)] = ZeroCell])
    /\ Return(t)
    /\ UNCHANGED <<blocked, defer_mu, ops, monitorVars, queueVars, localVars>>

Handler(t) ==
    CheckBlocked(t) \/ Defer(t) \/ Lock(t) \/ Fault(t) \/ Get(t) \/ PutNew(t)
    \/ WriteSlot(t) \/ PutExisting(t) \/ PutOverflow(t) \/ Update(t)
    \/ Remove(t) \/ ClearSlot(t)

(***************************************************************************)
(* The monitor thread.                                                     *)
(***************************************************************************)
set_state(s) ==
    /\ blocked' = IF s \in {"COPYING", "READY_TO_SWITCH", "DRAIN_OLD"}
                  THEN "yes" ELSE "no"
    /\ resize_state' = s

handlerVars == <<pc, req, ops, localVars>>

\* The monitor thread is at point in a poll of state.
At(point, state) ==
    dead = "no" /\ running = "yes" /\ mpc = point /\ resize_state = state

\* PRE_RESIZE, which blocks nothing, is passed over.
StartCopy ==
    /\ At("poll", "NORMAL")
    /\ current < MaxVersion
    /\ set_state("COPYING")
    /\ mpc' = "create"
    /\ UNCHANGED <<region, current, pending_old, running, defer_mu, mutex,
                   queueVars, handlerVars>>

\* No memory: back to NORMAL, with what was queued meanwhile.
CreateFails ==
    /\ At("create", "COPYING")
    /\ set_state("NORMAL")
    /\ mpc' = "poll"
    /\ UNCHANGED <<region, current, pending_old, running, defer_mu, mutex,
                   queueVars, handlerVars>>

\* The packed array, twice as large, the old entries in its lower half ...
CopyPacked ==
    LET r == region[current]
    IN  /\ At("create", "COPYING")
        /\ region' = [v \in DOMAIN region \union {current + 1} |->
             IF v # current + 1 THEN region[v]
             ELSE [bucket |-> [s \in Slots |-> ZeroCell],
                   array |-> [i \in 0 .. 2 * Size(r) - 1 |->
                                IF i < Size(r) THEN r.array[i] ELSE ZeroEntry],
                   num |-> 0]]
        /\ mpc' = "copy_buckets"
        /\ UNCHANGED <<current, pending_old, running, resize_state, blocked,
                       defer_mu, mutex, queueVars, handlerVars>>

\* ... and then the buckets.
CopyBuckets ==
    /\ At("copy_buckets", "COPYING")
    /\ ToRegion(current + 1, [region[current + 1] EXCEPT !.bucket = region[current].bucket])
    /\ mpc' = "switch"
    /\ UNCHANGED <<current, pending_old, running, resize_state, blocked,
                   defer_mu, mutex, queueVars, handlerVars>>

Switch ==
    /\ At("switch", "COPYING")
    /\ set_state("READY_TO_SWITCH")
    /\ pending_old' = current
    /\ current' = current + 1
    /\ mpc' = "wrap"
    /\ UNCHANGED <<region, running, defer_mu, mutex, queueVars, handlerVars>>

\* new packed_data_t(...): the constructor copies an uninitialized struct over
\* every entry.  A compiler may leave the loop out, or store what is on the
\* stack.
Wrap ==
    LET r == region[current]
    IN  /\ At("wrap", "READY_TO_SWITCH")
        /\ \E junk \in {r.array} \union {[i \in DOMAIN r.array |-> e] : e \in Entry} :
             ToRegion(current, [r EXCEPT !.array = junk, !.num = 0])
        /\ mpc' = "poll"
        /\ UNCHANGED <<current, pending_old, running, resize_state, blocked,
                       defer_mu, mutex, queueVars, handlerVars>>

\* wait_for_acks_or_timeout is over.
EndWait ==
    /\ At("poll", "READY_TO_SWITCH")
    /\ set_state("DRAIN_OLD")
    /\ UNCHANGED <<region, current, pending_old, running, mpc, defer_mu, mutex,
                   queueVars, handlerVars>>

\* Mutant: defer_mu_ is looked at and not held.
DrainBeginUnlocked ==
    /\ At("poll", "DRAIN_OLD")
    /\ defer_mu = "free"
    /\ mpc' = "replay_inserts"
    /\ UNCHANGED <<region, current, pending_old, running, resize_state, blocked,
                   defer_mu, mutex, queueVars, handlerVars>>

\* drain_old holds defer_mu_ while it replays.
DrainBegin ==
    /\ At("poll", "DRAIN_OLD")
    /\ defer_mu = "free"
    /\ defer_mu' = "monitor"
    /\ mpc' = "replay_inserts"
    /\ UNCHANGED <<region, current, pending_old, running, resize_state, blocked,
                   mutex, queueVars, handlerVars>>

\* replay_insert on region r.  A full bucket drops the insert.
replay_insert(r, k, v) ==
    LET status == check_slots(r.bucket, k, slot_of(k))
        a == r.bucket[slot_of(k)].addr
    IN  CASE status \in {0, 2} ->
               write_addr(bulk_load_data(r, k, v), target(r.bucket, k, slot_of(k)), k, r.num)
          [] status = 1 /\ r.array[a].key = k -> update_data(r, a, k, v)
          [] OTHER -> r

\* The slots replay_delete looks at: the key's own, and the others unless
\* their address is 0.
DeleteCandidates(r, k) ==
    {s \in Slots : /\ s = slot_of(k) \/ r.bucket[s].addr # 0
                   /\ r.array[r.bucket[s].addr].key = k}

replay_delete(r, k) ==
    LET found == DeleteCandidates(r, k)
        s == IF slot_of(k) \in found THEN slot_of(k)
             ELSE CHOOSE i \in found : \A j \in found : i <= j
    IN  IF found = {} THEN r
        ELSE [r EXCEPT !.array[r.bucket[s].addr] = ZeroEntry, !.bucket[s] = ZeroCell]

\* Mutant: the newest insert is replayed, the oldest popped.
Newest(queue) == queue[Len(queue)]

Oldest(queue) == Head(queue)

\* One insert is replayed under the row's mutex.  bulk_load_data ends the
\* process when the array is full.
ReplayInsert ==
    LET r == region[current]
        d == Oldest(deferred_inserts)
    IN  /\ At("replay_inserts", "DRAIN_OLD")
        /\ deferred_inserts # <<>>
        /\ RowFree
        /\ IF check_slots(r.bucket, d.key, slot_of(d.key)) \in {0, 2} /\ r.num = Size(r)
           THEN dead' = "exit" /\ UNCHANGED <<region, queueVars>>
           ELSE /\ ToRegion(current, replay_insert(r, d.key, d.val))
                /\ deferred_inserts' = Tail(deferred_inserts)
                /\ replayed' = Append(replayed, d)
                /\ UNCHANGED <<deferred_deletes, accepted, dead>>
        /\ UNCHANGED <<monitorVars, blocked, defer_mu, mutex, pc, req, ops,
                       slot, addr, overflow>>

\* The first loop is over.
InsertsReplayed ==
    /\ At("replay_inserts", "DRAIN_OLD")
    /\ deferred_inserts = <<>>
    /\ mpc' = "replay_deletes"
    /\ UNCHANGED <<region, current, pending_old, running, resize_state, blocked,
                   defer_mu, mutex, queueVars, handlerVars>>

ReplayDelete ==
    LET d == Oldest(deferred_deletes)
    IN  /\ At("replay_deletes", "DRAIN_OLD")
        /\ deferred_deletes # <<>>
        /\ RowFree
        /\ ToRegion(current, replay_delete(region[current], d.key))
        /\ deferred_deletes' = Tail(deferred_deletes)
        /\ replayed' = Append(replayed, d)
        /\ UNCHANGED <<deferred_inserts, accepted, monitorVars, blocked,
                       defer_mu, mutex, handlerVars>>

\* The lock_guard's block ends: handlers that saw the flag, which is still
\* set, can defer again.
DrainUnlock ==
    /\ At("replay_deletes", "DRAIN_OLD")
    /\ deferred_deletes = <<>>
    /\ defer_mu' = "free"
    /\ mpc' = "drained"
    /\ UNCHANGED <<region, current, pending_old, running, resize_state, blocked,
                   mutex, queueVars, handlerVars>>

\* set_state clears the flag after cleanup_allowed and the times are stored.
DrainEnd ==
    /\ At("drained", "DRAIN_OLD")
    /\ set_state("GC_PENDING")
    /\ mpc' = "poll"
    /\ UNCHANGED <<region, current, pending_old, running, defer_mu, mutex,
                   queueVars, handlerVars>>

\* maybe_gc, once the grace period is over.
Gc ==
    /\ At("poll", "GC_PENDING")
    /\ region' = [v \in DOMAIN region \ {pending_old} |-> region[v]]
    /\ pending_old' = 0
    /\ set_state("NORMAL")
    /\ UNCHANGED <<current, running, mpc, defer_mu, mutex, queueVars, handlerVars>>

\* ResizeOrchestrator::stop joins the thread between two polls, then clears
\* the flag and the pointers the handlers defer through.
Stop ==
    /\ dead = "no"
    /\ running = "yes"
    /\ mpc = "poll"
    /\ running' = "no"
    /\ blocked' = "no"
    /\ UNCHANGED <<region, current, pending_old, resize_state, mpc, defer_mu,
                   mutex, queueVars, handlerVars>>

Copy == StartCopy \/ CreateFails \/ CopyPacked \/ CopyBuckets \/ Switch \/ Wrap \/ EndWait

Drain ==
    DrainBegin \/ ReplayInsert \/ InsertsReplayed \/ ReplayDelete \/ DrainUnlock
    \/ DrainEnd

Next ==
    \/ \E t \in Threads : Begin(t) \/ Handler(t)
    \/ Copy \/ Drain \/ Gc \/ Stop

Spec == Init /\ [][Next]_vars

\* Threads go on with what they are in, the monitor goes on draining.
FairSpec ==
    /\ Spec
    /\ \A t \in Threads : WF_vars(Handler(t))
    /\ WF_vars(Drain)

-----------------------------------------------------------------------------
\* Regions and locals have their types, every slot of a mapped region leads
\* inside its array, the row's mutex has the holder it says, and each of the two
\* queues stays within kMaxDeferredDepth.
TypeOK ==
    /\ \A v \in DOMAIN region :
         LET r == region[v]
         IN  /\ r.bucket \in [Slots -> Cell]
             /\ \A s \in Slots : r.bucket[s].addr \in DOMAIN r.array
             /\ r.array \in [DOMAIN r.array -> Entry]
             /\ r.num \in 0 .. Size(r)
    /\ current \in DOMAIN region
    /\ \A t \in Threads : mutex = t <=> pc[t] \in {"apply", "write_slot", "clear_slot"}
    /\ req \in [Threads -> Requests]
    /\ Len(deferred_inserts) <= kMaxDeferredDepth
    /\ Len(deferred_deletes) <= kMaxDeferredDepth
    /\ dead \in {"no", "exit", "fault"}

\* The requests of kind o in each prefix of q, in order, and in q.
PrefixesOfKind(q, o) ==
    LET F[i \in 0 .. Len(q)] ==
          IF i = 0 THEN <<>>
          ELSE IF q[i].op = o THEN Append(F[i - 1], q[i]) ELSE F[i - 1]
    IN  F

OfKind(q, o) == PrefixesOfKind(q, o)[Len(q)]

\* No operation that was accepted into a queue is lost or replayed twice, and
\* each queue is replayed first in, first out: over aborted copies, late
\* deferrals and several resizes.
DeferredConserved ==
    /\ OfKind(accepted, "put") = OfKind(replayed, "put") \o deferred_inserts
    /\ OfKind(accepted, "remove") = OfKind(replayed, "remove") \o deferred_deletes

\* drain_old holds defer_mu_.
Replaying == mpc \in {"replay_inserts", "replay_deletes"}

\* Handlers defer before, between and after drains, but never during one: with
\* no drain under way, what has been replayed is what was accepted first, of
\* both kinds.  So a drain reorders deletes and inserts only among its own: no
\* operation is replayed in an earlier drain than one accepted before it.
DrainTakesPrefix ==
    ~Replaying =>
      LET first == SubSeq(accepted, 1, Len(replayed))
      IN  /\ OfKind(first, "put") = OfKind(replayed, "put")
          /\ OfKind(first, "remove") = OfKind(replayed, "remove")

\* The monitor takes the row's mutex while it holds defer_mu_, and the handlers
\* take both: a replay that has begun still ends and clears the flag, unless the
\* process ends.
DrainFinishes == Replaying ~> (resize_state = "GC_PENDING" \/ dead # "no")
=============================================================================
