--------------------------- MODULE RtmScopeProofs ---------------------------
(***************************************************************************)
(* Theorems about RtmScope, for any number of threads, sections and abort  *)
(* limits: no critical section is lost, and the fallback lock has one      *)
(* holder.                                                                 *)
(*                                                                         *)
(* The argument is the one lock elision rests on: every xchg on the lock   *)
(* word aborts the running transactions, which have read it, so that none  *)
(* runs while the lock is held (TxInv), and whoever has loaded the word    *)
(* and can still store has loaded its present value (LoadedInv).           *)
(***************************************************************************)
EXTENDS RtmScope, FiniteSetTheorems, TLAPS

States == {"idle", "begin", "tx", "txloaded", "xchg", "spin", "locked",
           "lockedloaded", "unlock"}
Past == {"locked", "lockedloaded", "unlock"}

Types ==
    /\ lock_ \in {0, 1}
    /\ shared \in Nat /\ left \in Nat
    /\ thr \in [Threads -> [pc : States, conflict : Nat, capacity : Nat, loaded : Nat]]

\* A thread past lock() has set the lock word, and no other thread is there.
HolderInv ==
    /\ \A t \in Threads : thr[t].pc \in Past => lock_ = 1
    /\ \A t, u \in Threads : thr[t].pc \in Past /\ thr[u].pc \in Past => t = u

\* No transaction runs while the lock word is set.
TxInv == \A t \in Threads : thr[t].pc \in InTx => lock_ = 0

\* A value loaded and not yet stored back is the present one.
LoadedInv ==
    \A t \in Threads :
        thr[t].pc \in {"txloaded", "lockedloaded"} => thr[t].loaded = shared

IInv == Types /\ HolderInv /\ TxInv /\ LoadedInv /\ NoSectionLost

\* What an abort leaves: outside the transaction, at its beginning or at the lock.
LEMMA AbortRecord ==
    ASSUME NEW why \in Reasons,
           NEW rec \in [pc : States, conflict : Nat, capacity : Nat, loaded : Nat]
    PROVE  /\ AfterAbort(rec, why) \in [pc : States, conflict : Nat, capacity : Nat, loaded : Nat]
           /\ AfterAbort(rec, why).pc \in {"begin", "xchg"}
<1> DEFINE Rec == [pc : States, conflict : Nat, capacity : Nat, loaded : Nat]
           a == IF why = "conflict" THEN rec.conflict + 1 ELSE rec.conflict
           b == IF why = "capacity" THEN rec.capacity + 1 ELSE rec.capacity
           n == [rec EXCEPT !.conflict = a, !.capacity = b, !.loaded = 0]
<1>0. a \in Nat /\ b \in Nat
    OBVIOUS
<1> HIDE DEF a, b
<1>1. n \in Rec
    BY <1>0
<1> USE DEF a, b
<1>2. \E p \in {"begin", "xchg"} : AfterAbort(rec, why) = [n EXCEPT !.pc = p]
    BY DEF AfterAbort
<1>3. \A p \in {"begin", "xchg"} : [n EXCEPT !.pc = p] \in Rec /\ [n EXCEPT !.pc = p].pc = p
    BY <1>1 DEF States
<1> QED
    BY <1>2, <1>3

\* The steps that write neither the lock word nor the shared word.
LEMMA LocalSteps ==
    ASSUME IInv, NEW t \in Threads,
           \/ Enter(t) \/ Begin(t) \/ TxLoad(t) \/ Spin(t) \/ LockedLoad(t)
           \/ \E why \in Reasons : Abort(t, why)
    PROVE  IInv'
<1> DEFINE Rec == [pc : States, conflict : Nat, capacity : Nat, loaded : Nat]
<1>0. lock_' = lock_ /\ shared' = shared /\ left' = left
    BY DEF Enter, Begin, TxLoad, Spin, LockedLoad, Abort
<1>1. PICK r \in Rec :
        /\ thr' = [thr EXCEPT ![t] = r]
        /\ \/ r.pc \in {"begin", "xchg"}
           \/ r.pc = "tx" /\ lock_ = 0
           \/ r.pc = "txloaded" /\ thr[t].pc = "tx" /\ r.loaded = shared
           \/ r.pc = "lockedloaded" /\ thr[t].pc = "locked" /\ r.loaded = shared
  <2>0. thr[t] \in Rec /\ shared \in Nat
      BY DEF IInv, Types
  <2>1. CASE Enter(t)
    <3> DEFINE x == [thr[t] EXCEPT !.pc = "begin"]
    <3>1. x \in Rec /\ x.pc = "begin" /\ thr' = [thr EXCEPT ![t] = x]
        BY <2>0, <2>1 DEF Enter, States
    <3> QED
        BY <3>1
  <2>2. CASE Begin(t) /\ lock_ # 0
      BY <2>0, <2>2, AbortRecord DEF Begin, Reasons
  <2>3. CASE Begin(t) /\ lock_ = 0
    <3> DEFINE x == [thr[t] EXCEPT !.pc = "tx"]
    <3>1. x \in Rec /\ x.pc = "tx" /\ thr' = [thr EXCEPT ![t] = x]
        BY <2>0, <2>3 DEF Begin, States
    <3> QED
        BY <2>3, <3>1
  <2>4. CASE TxLoad(t)
    <3> DEFINE x == [thr[t] EXCEPT !.loaded = shared, !.pc = "txloaded"]
    <3>1. x \in Rec /\ x.pc = "txloaded" /\ x.loaded = shared
        BY <2>0 DEF States
    <3>2. thr' = [thr EXCEPT ![t] = x] /\ thr[t].pc = "tx"
        BY <2>4 DEF TxLoad, IInv, Types
    <3> QED
        BY <3>1, <3>2
  <2>5. CASE Spin(t)
    <3> DEFINE x == [thr[t] EXCEPT !.pc = "xchg"]
    <3>1. x \in Rec /\ x.pc = "xchg" /\ thr' = [thr EXCEPT ![t] = x]
        BY <2>0, <2>5 DEF Spin, States
    <3> QED
        BY <3>1
  <2>6. CASE LockedLoad(t)
    <3> DEFINE x == [thr[t] EXCEPT !.loaded = shared, !.pc = "lockedloaded"]
    <3>1. x \in Rec /\ x.pc = "lockedloaded" /\ x.loaded = shared
        BY <2>0 DEF States
    <3>2. thr' = [thr EXCEPT ![t] = x] /\ thr[t].pc = "locked"
        BY <2>6 DEF LockedLoad, IInv, Types
    <3> QED
        BY <3>1, <3>2
  <2>7. CASE \E why \in Reasons : Abort(t, why)
      BY <2>0, <2>7, AbortRecord DEF Abort
  <2> QED
      BY <2>1, <2>2, <2>3, <2>4, <2>5, <2>6, <2>7
<1>2. \A u \in Threads : thr'[u] = IF u = t THEN r ELSE thr[u]
    BY <1>1 DEF IInv, Types
<1>3. Types'
    BY <1>0, <1>1 DEF IInv, Types
<1>4. HolderInv'
    BY <1>0, <1>1, <1>2 DEF IInv, HolderInv, Past
<1>5. TxInv'
    BY <1>0, <1>1, <1>2 DEF IInv, TxInv, InTx
<1>6. LoadedInv' /\ NoSectionLost'
    BY <1>0, <1>1, <1>2 DEF IInv, LoadedInv, NoSectionLost
<1> QED
    BY <1>3, <1>4, <1>5, <1>6 DEF IInv

\* lock() and unlock() write the lock word and abort the transactions.
LEMMA LockSteps ==
    ASSUME IInv, NEW t \in Threads, Xchg(t) \/ Unlock(t)
    PROVE  IInv'
<1> DEFINE Rec == [pc : States, conflict : Nat, capacity : Nat, loaded : Nat]
<1>0. shared' = shared /\ left' = left /\ lock_' \in {0, 1}
    BY DEF Xchg, Unlock
<1>1. PICK r \in Rec :
        /\ thr' = AbortOthers(t, [thr EXCEPT ![t] = r])
        /\ \/ r.pc = "locked" /\ lock_ = 0 /\ lock_' = 1
           \/ r.pc = "spin" /\ lock_ = 1 /\ lock_' = 1
           \/ r.pc = "idle" /\ thr[t].pc = "unlock" /\ lock_' = 0
  <2>0. thr[t] \in Rec
      BY DEF IInv, Types
  <2>1. CASE Xchg(t)
    <3> DEFINE x == [thr[t] EXCEPT !.pc = IF lock_ = 0 THEN "locked" ELSE "spin"]
    <3>1. x \in Rec /\ x.pc = IF lock_ = 0 THEN "locked" ELSE "spin"
        BY <2>0 DEF States
    <3>2. thr' = AbortOthers(t, [thr EXCEPT ![t] = x]) /\ lock_' = 1
        BY <2>1 DEF Xchg
    <3> QED
        BY <3>1, <3>2 DEF IInv, Types
  <2>2. CASE Unlock(t)
    <3>1. Idle \in Rec /\ Idle.pc = "idle"
        BY DEF Idle, States
    <3>2. thr' = AbortOthers(t, [thr EXCEPT ![t] = Idle]) /\ thr[t].pc = "unlock" /\ lock_' = 0
        BY <2>2 DEF Unlock
    <3> QED
        BY <3>1, <3>2
  <2> QED
      BY <2>1, <2>2
<1>2. ASSUME NEW u \in Threads
      PROVE  /\ thr'[u] \in Rec
             /\ u = t => thr'[u] = r
             /\ u # t /\ thr[u].pc \in InTx => thr'[u].pc \in {"begin", "xchg"}
             /\ u # t /\ thr[u].pc \notin InTx => thr'[u] = thr[u]
  <2>1. thr[u] \in Rec /\ [thr EXCEPT ![t] = r][u] = IF u = t THEN r ELSE thr[u]
      BY DEF IInv, Types
  <2> QED
      BY <1>1, <2>1, AbortRecord DEF AbortOthers, Reasons
<1>3. Types'
    BY <1>0, <1>1, <1>2 DEF IInv, Types, AbortOthers
<1>4. HolderInv'
  <2>1. \A u \in Threads : u # t /\ thr'[u].pc \in Past => thr[u].pc \in Past
      BY <1>2 DEF Past
  <2>2. CASE r.pc = "locked" /\ lock_ = 0 /\ lock_' = 1
      BY <2>1, <2>2 DEF IInv, HolderInv
  <2>3. CASE r.pc = "spin" /\ lock_ = 1 /\ lock_' = 1
      BY <1>2, <2>1, <2>3 DEF IInv, HolderInv, Past
  <2>4. CASE r.pc = "idle" /\ thr[t].pc = "unlock" /\ lock_' = 0
      BY <1>2, <2>1, <2>4 DEF IInv, HolderInv, Past
  <2> QED
      BY <1>1, <2>2, <2>3, <2>4
<1>5. TxInv'
    BY <1>1, <1>2 DEF InTx, TxInv
<1>6. LoadedInv' /\ NoSectionLost'
    BY <1>0, <1>1, <1>2 DEF IInv, LoadedInv, NoSectionLost, InTx
<1> QED
    BY <1>3, <1>4, <1>5, <1>6 DEF IInv

\* The end of a section, as a transaction or under the lock: nobody else can
\* still store a value loaded before.
LEMMA StoreSteps ==
    ASSUME IInv, NEW t \in Threads, Commit(t) \/ LockedStore(t)
    PROVE  IInv'
<1> DEFINE Rec == [pc : States, conflict : Nat, capacity : Nat, loaded : Nat]
<1>0. /\ lock_' = lock_ /\ left' = left + 1 /\ shared' = thr[t].loaded + 1
      /\ thr[t].pc \in {"txloaded", "lockedloaded"} /\ thr[t] \in Rec
    BY DEF Commit, LockedStore, IInv, Types
<1>1. shared' = shared + 1
    BY <1>0 DEF IInv, LoadedInv
<1>2. ASSUME NEW u \in Threads
      PROVE  /\ thr'[u] \in Rec
             /\ u = t => thr'[u].pc = IF thr[t].pc = "txloaded" THEN "idle" ELSE "unlock"
             /\ u # t /\ thr[u].pc = "txloaded" => thr'[u].pc \in {"begin", "xchg"}
             /\ u # t /\ thr[u].pc # "txloaded" => thr'[u] = thr[u]
  <2>1. thr[u] \in Rec
      BY DEF IInv, Types
  <2>2. CASE Commit(t)
      BY <2>1, <2>2, AbortRecord DEF Commit, Idle, States, Reasons
  <2>3. CASE LockedStore(t)
      BY <1>0, <2>1, <2>3, AbortRecord DEF LockedStore, States, Reasons
  <2> QED
      BY <2>2, <2>3
<1>3. Types'
    BY <1>0, <1>1, <1>2 DEF IInv, Types, Commit, LockedStore
<1>4. HolderInv'
    BY <1>0, <1>2 DEF IInv, HolderInv, Past
<1>5. TxInv'
    BY <1>0, <1>2 DEF IInv, TxInv, InTx
<1>6. LoadedInv'
  <2>1. \A u \in Threads : u # t => thr[u].pc # "lockedloaded"
      BY <1>0 DEF IInv, HolderInv, TxInv, Past, InTx
  <2> QED
      BY <1>0, <1>2, <2>1 DEF LoadedInv
<1>7. NoSectionLost'
    BY <1>0, <1>1 DEF IInv, NoSectionLost
<1> QED
    BY <1>3, <1>4, <1>5, <1>6, <1>7 DEF IInv

\* The invariant holds in every state.
LEMMA IInvHolds == Spec => []IInv
<1>1. Init => IInv
    BY DEF Init, Idle, IInv, Types, States, HolderInv, Past, TxInv, InTx, LoadedInv, NoSectionLost
<1>2. IInv /\ [Next]_vars => IInv'
  <2> SUFFICES ASSUME IInv, [Next]_vars PROVE IInv'
      OBVIOUS
  <2>1. CASE \E t \in Threads : Xchg(t) \/ Unlock(t)
      BY <2>1, LockSteps
  <2>2. CASE \E t \in Threads : Commit(t) \/ LockedStore(t)
      BY <2>2, StoreSteps
  <2>3. CASE \E t \in Threads :
               \/ Enter(t) \/ Begin(t) \/ TxLoad(t) \/ Spin(t) \/ LockedLoad(t)
               \/ \E why \in Reasons : Abort(t, why)
      BY <2>3, LocalSteps
  <2>4. CASE UNCHANGED vars
      BY <2>4 DEF vars, IInv, Types, HolderInv, TxInv, LoadedInv, NoSectionLost
  <2> QED
      BY <2>1, <2>2, <2>3, <2>4 DEF Next, ThreadStep, Rest
<1> QED
    BY <1>1, <1>2, PTL DEF Spec

\* The shared word counts the sections left, whichever way each of them ran.
THEOREM NoSectionLostHolds == Spec => []NoSectionLost
<1>1. IInv => NoSectionLost
    BY DEF IInv
<1> QED
    BY <1>1, IInvHolds, PTL

\* The fallback lock has at most one holder, and its word is set while it has one.
THEOREM LockExcludesHolds == Spec => []LockExcludes
<1>1. HolderInv => LockExcludes
  <2> DEFINE Holders == {t \in Threads : thr[t].pc \in {"locked", "lockedloaded", "unlock"}}
  <2> SUFFICES ASSUME HolderInv PROVE LockExcludes
      OBVIOUS
  <2>1. CASE Holders = {}
      BY <2>1, FS_EmptySet DEF LockExcludes
  <2>2. CASE Holders # {}
    <3>1. PICK t \in Threads : Holders = {t}
        BY <2>2 DEF HolderInv, Past
    <3>2. Cardinality(Holders) = 1
        BY <3>1, FS_Singleton
    <3>3. lock_ = 1
        BY <3>1 DEF HolderInv, Past
    <3> QED
        BY <3>2, <3>3 DEF LockExcludes
  <2> QED
      BY <2>1, <2>2
<1>2. IInv => HolderInv
    BY DEF IInv
<1> QED
    BY <1>1, <1>2, IInvHolds, PTL
=============================================================================
