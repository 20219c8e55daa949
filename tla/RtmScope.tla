------------------------------- MODULE RtmScope -------------------------------
(***************************************************************************)
(* Lock elision in xutils: RTMScope (rtm.hh) runs a critical section as a  *)
(* hardware transaction and falls back to a SpinLock (spin_lock.hh) after  *)
(* too many aborts.                                                        *)
(*                                                                         *)
(* The critical section of the model adds one to a shared word in two      *)
(* steps, a load and a store.  The transactional memory is external: a     *)
(* transaction reads the lock word and the shared word, is aborted when    *)
(* another thread writes one of them, may be aborted for any other reason  *)
(* at any time, and makes its store visible when it commits.               *)
(***************************************************************************)
EXTENDS Naturals, FiniteSets

CONSTANTS
    Threads,
    MaxConflict,    \* max_abort_conflict
    MaxCapacity,    \* max_abort_capacity
    MaxSections     \* bound: critical sections entered by all threads

VARIABLES
    lock_,          \* the spin lock's word
    shared,         \* the word the critical sections update
    thr,            \* per thread: program counter, abort counts, loaded value
    entered,        \* sections entered
    left            \* sections left

vars == <<lock_, shared, thr, entered, left>>

Idle == [pc |-> "idle", conflict |-> 0, capacity |-> 0, loaded |-> 0]

Init ==
    /\ lock_ = 0
    /\ shared = 0
    /\ thr = [t \in Threads |-> Idle]
    /\ entered = 0
    /\ left = 0

\* program counters inside a transaction that has read the lock word
InTx == {"tx", "txloaded"}

-----------------------------------------------------------------------------
(* The transactional memory *)

\* the abort status a transaction sees; an explicit abort (0xff) has none of the
\* bits the constructor counts
Reasons == {"nested", "zero", "conflict", "capacity", "explicit"}

\* RTMScope counts the abort and gives up at its limits: max_abort_nested and
\* max_abort_zero are 0
AfterAbort(rec, why) ==
    LET n == [rec EXCEPT !.conflict = IF why = "conflict" THEN @ + 1 ELSE @,
                         !.capacity = IF why = "capacity" THEN @ + 1 ELSE @,
                         !.loaded = 0]
        giveUp == \/ why \in {"nested", "zero"}
                  \/ n.conflict > MaxConflict
                  \/ n.capacity > MaxCapacity
    IN  [n EXCEPT !.pc = IF giveUp THEN "xchg" ELSE "begin"]

\* t writes the lock word: every other transaction has it in its read set
AbortOthers(t, recs) ==
    [u \in Threads |-> IF u # t /\ recs[u].pc \in InTx
                       THEN AfterAbort(recs[u], "conflict") ELSE recs[u]]

-----------------------------------------------------------------------------
(* RTMScope and SpinLock *)

Enter(t) ==
    /\ thr[t].pc = "idle"
    /\ entered < MaxSections
    /\ entered' = entered + 1
    /\ thr' = [thr EXCEPT ![t].pc = "begin"]
    /\ UNCHANGED <<lock_, shared, left>>

\* mutant: the lock word is not read inside the transaction
BeginBlind(t) ==
    /\ thr[t].pc = "begin"
    /\ thr' = [thr EXCEPT ![t].pc = "tx"]
    /\ UNCHANGED <<lock_, shared, entered, left>>

\* _xbegin, and the lock word is read inside the transaction: a held lock aborts
\* it explicitly, and the loop tries again at once (0xff is not the code the
\* waiting branch looks for)
Begin(t) ==
    /\ thr[t].pc = "begin"
    /\ thr' = [thr EXCEPT ![t] = IF lock_ # 0 THEN AfterAbort(@, "explicit")
                                 ELSE [@ EXCEPT !.pc = "tx"]]
    /\ UNCHANGED <<lock_, shared, entered, left>>

TxLoad(t) ==
    /\ thr[t].pc = "tx"
    /\ thr' = [thr EXCEPT ![t].loaded = shared, ![t].pc = "txloaded"]
    /\ UNCHANGED <<lock_, shared, entered, left>>

\* the destructor inside a transaction: _xend publishes the store, and aborts
\* the transactions that have loaded the word
Commit(t) ==
    /\ thr[t].pc = "txloaded"
    /\ shared' = thr[t].loaded + 1
    /\ left' = left + 1
    /\ thr' = [u \in Threads |->
                 IF u = t THEN Idle
                 ELSE IF thr[u].pc = "txloaded" THEN AfterAbort(thr[u], "conflict")
                 ELSE thr[u]]
    /\ UNCHANGED <<lock_, entered>>

\* an abort the program did not cause
Abort(t, why) ==
    /\ thr[t].pc \in InTx
    /\ thr' = [thr EXCEPT ![t] = AfterAbort(@, why)]
    /\ UNCHANGED <<lock_, shared, entered, left>>

\* lock(): xchg writes 1 whether or not it gets the lock
Xchg(t) ==
    /\ thr[t].pc = "xchg"
    /\ thr' = AbortOthers(t, [thr EXCEPT
                 ![t].pc = IF lock_ = 0 THEN "locked" ELSE "spin"])
    /\ lock_' = 1
    /\ UNCHANGED <<shared, entered, left>>

\* lock(): plain reads until the word is 0, then xchg again
Spin(t) ==
    /\ thr[t].pc = "spin"
    /\ lock_ = 0
    /\ thr' = [thr EXCEPT ![t].pc = "xchg"]
    /\ UNCHANGED <<lock_, shared, entered, left>>

LockedLoad(t) ==
    /\ thr[t].pc = "locked"
    /\ thr' = [thr EXCEPT ![t].loaded = shared, ![t].pc = "lockedloaded"]
    /\ UNCHANGED <<lock_, shared, entered, left>>

LockedStore(t) ==
    /\ thr[t].pc = "lockedloaded"
    /\ shared' = thr[t].loaded + 1
    /\ thr' = [u \in Threads |->
                 IF u = t THEN [thr[t] EXCEPT !.pc = "unlock"]
                 ELSE IF thr[u].pc = "txloaded" THEN AfterAbort(thr[u], "conflict")
                 ELSE thr[u]]
    /\ left' = left + 1
    /\ UNCHANGED <<lock_, entered>>

\* the destructor outside a transaction
Unlock(t) ==
    /\ thr[t].pc = "unlock"
    /\ lock_' = 0
    /\ thr' = AbortOthers(t, [thr EXCEPT ![t] = Idle])
    /\ UNCHANGED <<shared, entered, left>>

Rest ==
    /\ \A t \in Threads : thr[t].pc = "idle"
    /\ UNCHANGED vars

ThreadStep(t) ==
    \/ Enter(t)
    \/ Begin(t)
    \/ TxLoad(t)
    \/ Commit(t)
    \/ \E why \in Reasons \ {"explicit"} : Abort(t, why)
    \/ Xchg(t)
    \/ Spin(t)
    \/ LockedLoad(t)
    \/ LockedStore(t)
    \/ Unlock(t)

Next ==
    \/ \E t \in Threads : ThreadStep(t)
    \/ Rest

Spec == Init /\ [][Next]_vars

-----------------------------------------------------------------------------
(* What holds *)

\* No critical section is lost, whether it ran as a transaction or under the
\* lock: the word counts the sections left.  A transaction that did not read the
\* lock word would commit between the load and the store of a lock holder.
NoSectionLost == shared = left

\* At most one thread is past lock() and not yet past unlock(), and the lock word
\* is set while there is one, although every waiting thread's xchg writes it too.
LockExcludes ==
    LET Holders == {t \in Threads :
                        thr[t].pc \in {"locked", "lockedloaded", "unlock"}}
    IN  /\ Cardinality(Holders) <= 1
        /\ Holders # {} => lock_ = 1
=============================================================================
