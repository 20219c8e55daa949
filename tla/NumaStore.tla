----------------------------- MODULE NumaStore ------------------------------
(***************************************************************************)
(* The data plane of the NUMA transport between two resizes: threads of    *)
(* the client processes search, put, update and remove directly in the     *)
(* shared region (outback_client_numa.hh).  The writers of a row hold its  *)
(* byte of the lock array, a search holds nothing.                         *)
(*                                                                         *)
(* The model has one row, which all keys hash to, and one allocation lane. *)
(* Every process has a seed table of its own.  The actions are cut at each *)
(* access to the shared region: a key and its value are two words.         *)
(***************************************************************************)
EXTENDS LudoBucket

CONSTANTS
    Procs, Threads,
    ProcOf,            \* [Threads -> Procs]
    Loaded,            \* keys of the row loaded by the server: [1..n -> Keys]
    num_data_entries,
    MaxOps             \* bound: operations a thread begins

ASSUME StoreAssumption ==
    /\ ProcOf \in [Threads -> Procs]
    /\ \A i, j \in DOMAIN Loaded :
         i # j => hash[0][Loaded[i]] # hash[0][Loaded[j]]
    /\ num_data_entries \in Nat \ {0}
    /\ Cardinality(DOMAIN Loaded) \in Nat
    /\ Cardinality(DOMAIN Loaded) <= num_data_entries
    /\ Loaded \in [1 .. Cardinality(DOMAIN Loaded) -> Keys]
    /\ MaxOps \in Nat

VARIABLES
    bucket, rawArray,  \* the row's cells and the packed array
    lock,              \* lock[row]
    lane_next,         \* lane_next_free_index of the lane
    seed,              \* ludo_lookup_unit->buckets[row].seed of each process
    pc, op, key, val,  \* what a thread is doing
    slot, addr,        \* its locals
    scan,              \* the next slot its search falls back to
    then,              \* where it goes once the entry is written
    result,            \* what its last search returned: an Option is a set
    ops,               \* operations it has begun
    stored             \* ghost: the values ever written for a key

vars == <<bucket, rawArray, lock, lane_next, seed, pc, op, key, val, slot,
          addr, scan, then, result, ops, stored>>

Indices == 0 .. num_data_entries - 1

\* The loaded keys sit at the first indices, each in its slot under seed 0.
Init ==
    /\ bucket = [s \in Slots |->
         LET here == {i \in DOMAIN Loaded : hash[0][Loaded[i]] = s}
         IN  IF here = {} THEN ZeroCell
             ELSE LET i == CHOOSE j \in here : TRUE IN combine(Loaded[i], i - 1)]
    /\ rawArray = [i \in Indices |->
         IF i + 1 \in DOMAIN Loaded THEN [key |-> Loaded[i + 1], data |-> 0]
         ELSE ZeroEntry]
    /\ lock = 0
    /\ lane_next = Cardinality(DOMAIN Loaded)
    /\ seed = [p \in Procs |-> 0]
    /\ pc = [t \in Threads |-> "idle"]
    /\ op = [t \in Threads |-> "none"]
    /\ key = [t \in Threads |-> NoKey]
    /\ val = [t \in Threads |-> 0]
    /\ slot = [t \in Threads |-> 0]
    /\ addr = [t \in Threads |-> 0]
    /\ scan = [t \in Threads |-> 0]
    /\ then = [t \in Threads |-> "none"]
    /\ result = [t \in Threads |-> {}]
    /\ ops = [t \in Threads |-> 0]
    /\ stored = [k \in Keys |-> IF \E i \in DOMAIN Loaded : Loaded[i] = k
                                THEN {0} ELSE {}]

Goto(t, point) == pc' = [pc EXCEPT ![t] = point]

\* lookup_slot, with the seed the process has now.
slot_of(t, k) == hash[seed[ProcOf[t]]][k]

\* Two words of a packed_struct.
SetKey(a, k) == rawArray' = [rawArray EXCEPT ![a].key = k]
SetData(a, v) == rawArray' = [rawArray EXCEPT ![a].data = v]

\* An operation begins: the slot is looked up before the lock is taken.
Begin(t) ==
    /\ pc[t] = "idle"
    /\ ops[t] < MaxOps
    /\ \E o \in {"search", "put", "update", "remove"}, k \in Keys, v \in Vals :
         /\ o \in {"search", "remove"} => v = 0
         /\ op' = [op EXCEPT ![t] = o]
         /\ key' = [key EXCEPT ![t] = k]
         /\ val' = [val EXCEPT ![t] = v]
         /\ slot' = [slot EXCEPT ![t] = slot_of(t, k)]
         /\ addr' = [addr EXCEPT ![t] = 0]
         /\ Goto(t, IF o = "search" THEN "primary" ELSE "lock")
    /\ scan' = [scan EXCEPT ![t] = 0]
    /\ then' = [then EXCEPT ![t] = "none"]
    /\ result' = [result EXCEPT ![t] = {}]
    /\ ops' = [ops EXCEPT ![t] = @ + 1]
    /\ UNCHANGED <<bucket, rawArray, lock, lane_next, seed, stored>>

\* What only Begin and the search change.
locals == <<op, key, val, scan, ops>>

(***************************************************************************)
(* The writers.                                                            *)
(***************************************************************************)
\* Mutant: the byte is written, not tested.
LockFreeAny == TRUE

\* numa_lock_byte gets through when the byte was 0.
LockFree == lock = 0

Lock(t) ==
    /\ pc[t] = "lock"
    /\ LockFree
    /\ lock' = 1
    /\ Goto(t, "locked")
    /\ UNCHANGED <<bucket, rawArray, lane_next, seed, slot, addr, then,
                   result, stored, locals>>

WriteEntry(t, a, next) ==
    /\ addr' = [addr EXCEPT ![t] = a]
    /\ then' = [then EXCEPT ![t] = next]
    /\ Goto(t, "write_key")

\* Mutant: an operation with nothing to write returns at once.
LeaveLocked(t) == Goto(t, "idle") /\ UNCHANGED <<addr, then>>

\* Nothing to write: every case of the code falls through to the unlock.
Leave(t) == Goto(t, "unlock") /\ UNCHANGED <<addr, then>>

\* Mutant: the lane is read, not advanced.
LaneStays == lane_next

\* __sync_fetch_and_add on the lane.
LaneAdvanced == lane_next + 1

\* Cases 0 and 2 of a put: take an index, unless none is left.
PutFresh(t) ==
    /\ lane_next' = LaneAdvanced
    /\ IF lane_next < num_data_entries
       THEN WriteEntry(t, lane_next, "write_slot")
       ELSE Leave(t)

PutCheck(t) ==
    LET k == key[t]
        s == slot_of(t, k)          \* the seed is read again under the lock
        status == check_slots(bucket, k, s)
        a == bucket[s].addr
    IN  /\ pc[t] = "locked"
        /\ op[t] = "put"
        /\ slot' = [slot EXCEPT ![t] = target(bucket, k, s)]
        /\ \/ /\ status \in {0, 2}
              /\ PutFresh(t)
           \/ /\ status = 1
              /\ IF rawArray[a].key = k THEN WriteEntry(t, a, "unlock") ELSE Leave(t)
              /\ UNCHANGED lane_next
           \/ /\ status = 3
              /\ WriteEntry(t, a, "reseed")
              /\ UNCHANGED lane_next
        /\ UNCHANGED <<bucket, rawArray, lock, seed, result, stored, locals>>

\* Mutant: the entry is updated whatever key it holds.
EntryHoldsAny(a, k) == TRUE

EntryHolds(a, k) == rawArray[a].key = k

UpdateCheck(t) ==
    LET a == bucket[slot[t]].addr
    IN  /\ pc[t] = "locked"
        /\ op[t] = "update"
        /\ IF EntryHolds(a, key[t]) THEN WriteEntry(t, a, "unlock") ELSE Leave(t)
        /\ UNCHANGED <<bucket, rawArray, lock, lane_next, seed, slot, result,
                       stored, locals>>

WriteKey(t) ==
    /\ pc[t] = "write_key"
    /\ SetKey(addr[t], key[t])
    /\ stored' = [stored EXCEPT ![key[t]] = @ \union {val[t]}]
    /\ Goto(t, "write_data")
    /\ UNCHANGED <<bucket, lock, lane_next, seed, slot, addr, then, result, locals>>

WriteData(t) ==
    /\ pc[t] = "write_data"
    /\ SetData(addr[t], val[t])
    /\ Goto(t, then[t])
    /\ UNCHANGED <<bucket, lock, lane_next, seed, slot, addr, then, result,
                   stored, locals>>

WriteSlot(t) ==
    /\ pc[t] = "write_slot"
    /\ bucket' = [bucket EXCEPT ![slot[t]] = combine(key[t], addr[t])]
    /\ Goto(t, "unlock")
    /\ UNCHANGED <<rawArray, lock, lane_next, seed, slot, addr, then, result,
                   stored, locals>>

\* Case 3 of a put, after the entry of another key was overwritten: the
\* process, and nobody else, moves to the next seed.
Reseed(t) ==
    /\ pc[t] = "reseed"
    /\ seed' = [seed EXCEPT ![ProcOf[t]] = (@ + 1) % SeedCount]
    /\ Goto(t, "unlock")
    /\ UNCHANGED <<bucket, rawArray, lock, lane_next, slot, addr, then, result,
                   stored, locals>>

\* remove_data_with_key_check clears the key and then the value.
RemoveCheck(t) ==
    LET a == bucket[slot[t]].addr
    IN  /\ pc[t] = "locked"
        /\ op[t] = "remove"
        /\ addr' = [addr EXCEPT ![t] = a]
        /\ IF EntryHolds(a, key[t])
           THEN SetKey(a, NoKey) /\ Goto(t, "zero_data")
           ELSE Goto(t, "unlock") /\ UNCHANGED rawArray
        /\ UNCHANGED <<bucket, lock, lane_next, seed, slot, then, result,
                       stored, locals>>

ZeroData(t) ==
    /\ pc[t] = "zero_data"
    /\ SetData(addr[t], 0)
    /\ Goto(t, "remove_slot")
    /\ UNCHANGED <<bucket, lock, lane_next, seed, slot, addr, then, result,
                   stored, locals>>

\* remove_addr.
RemoveSlot(t) ==
    /\ pc[t] = "remove_slot"
    /\ bucket' = [bucket EXCEPT ![slot[t]] = ZeroCell]
    /\ Goto(t, "unlock")
    /\ UNCHANGED <<rawArray, lock, lane_next, seed, slot, addr, then, result,
                   stored, locals>>

Unlock(t) ==
    /\ pc[t] = "unlock"
    /\ lock' = 0
    /\ Goto(t, "idle")
    /\ UNCHANGED <<bucket, rawArray, lane_next, seed, slot, addr, then, result,
                   stored, locals>>

Write(t) ==
    Lock(t) \/ PutCheck(t) \/ UpdateCheck(t) \/ WriteKey(t) \/ WriteData(t)
    \/ WriteSlot(t) \/ Reseed(t) \/ RemoveCheck(t) \/ ZeroData(t) \/ RemoveSlot(t)
    \/ Unlock(t)

(***************************************************************************)
(* The search: the key's own slot, then the other slots in turn.           *)
(***************************************************************************)
ReadPrimary(t) ==
    /\ pc[t] = "primary"
    /\ addr' = [addr EXCEPT ![t] = bucket[slot[t]].addr]
    /\ Goto(t, "read_key")
    /\ UNCHANGED <<bucket, rawArray, lock, lane_next, seed, slot, then, result,
                   stored, locals>>

\* A match in one word of the entry ...
ReadKey(t) ==
    /\ pc[t] = "read_key"
    /\ Goto(t, IF EntryHolds(addr[t], key[t]) THEN "read_data" ELSE "fallback")
    /\ UNCHANGED <<bucket, rawArray, lock, lane_next, seed, slot, addr, then,
                   result, stored, locals>>

\* ... and the other word.
ReadData(t) ==
    /\ pc[t] = "read_data"
    /\ result' = [result EXCEPT ![t] = {rawArray[addr[t]].data}]
    /\ Goto(t, "idle")
    /\ UNCHANGED <<bucket, rawArray, lock, lane_next, seed, slot, addr, then,
                   stored, locals>>

\* A slot whose address is 0 counts as empty.
ReadFallback(t) ==
    LET s == scan[t]
        a == bucket[s].addr
    IN  /\ pc[t] = "fallback"
        /\ s \in Slots
        /\ scan' = [scan EXCEPT ![t] = s + 1]
        /\ IF s # slot[t] /\ a # 0
           THEN addr' = [addr EXCEPT ![t] = a] /\ Goto(t, "read_key")
           ELSE UNCHANGED <<addr, pc>>
        /\ UNCHANGED <<bucket, rawArray, lock, lane_next, seed, op, key, val,
                       slot, then, result, ops, stored>>

NotFound(t) ==
    /\ pc[t] = "fallback"
    /\ scan[t] \notin Slots
    /\ Goto(t, "idle")
    /\ UNCHANGED <<bucket, rawArray, lock, lane_next, seed, slot, addr, then,
                   result, stored, locals>>

Search(t) ==
    ReadPrimary(t) \/ ReadKey(t) \/ ReadData(t) \/ ReadFallback(t) \/ NotFound(t)

Next == \E t \in Threads : Begin(t) \/ Write(t) \/ Search(t)

Spec == Init /\ [][Next]_vars

\* A thread that is in an operation goes on with it.
FairSpec == Spec /\ \A t \in Threads : WF_vars(Write(t)) /\ WF_vars(Search(t))

-----------------------------------------------------------------------------
Holding == {t \in Threads : pc[t] \in {"locked", "write_key", "write_data",
              "write_slot", "reseed", "zero_data", "remove_slot", "unlock"}}

\* Cells, entries, seeds and locals have their types; the lock byte is set
\* exactly while one thread is between lock and unlock, and no address leads
\* past the array.
TypeOK ==
    /\ bucket \in [Slots -> Cell]
    /\ \A s \in Slots : bucket[s].addr \in Indices
    /\ rawArray \in [Indices -> Entry]
    /\ lock \in {0, 1}
    /\ Cardinality(Holding) = lock
    /\ lane_next \in Nat
    /\ seed \in [Procs -> Seeds]
    /\ addr \in [Threads -> Indices]
    /\ result \in [Threads -> SUBSET Vals]

\* Two slots never lead to the same entry, so that an update or remove through
\* one key's slot cannot hit another's entry: indices are given out once and
\* the slots are written under the lock.
EntriesNotShared ==
    \A s1, s2 \in Slots :
        s1 # s2 /\ ~Free(bucket, s1) /\ ~Free(bucket, s2)
        => bucket[s1].addr # bucket[s2].addr

\* A key becomes reachable only by a put of that key.  In particular an update
\* that runs beside a remove of the same key never brings the key back, and no
\* operation makes another key appear.
OnlyPutsAdd ==
    [][\A k \in Keys :
         ~Reachable(bucket, rawArray, k) /\ Reachable(bucket', rawArray', k)
         => \E t \in Threads : op[t] = "put" /\ key[t] = k
                               /\ pc[t] \in {"write_key", "write_slot"}]_vars

\* The row is released again, whichever case an operation takes.
RowReleased == lock = 1 ~> lock = 0
=============================================================================
