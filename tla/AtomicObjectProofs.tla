------------------------- MODULE AtomicObjectProofs -------------------------
(***************************************************************************)
(* The theorem about AtomicObject: for any number of readers and any size  *)
(* of the payload, atomic_read never returns a torn object, nor one older  *)
(* than the read.  It needs two things of the program (Usable): both       *)
(* numbers equal at first, and fewer writes than a u32 counts.             *)
(*                                                                         *)
(* A reader that has copied seq has copied the payload of one write as     *)
(* long as the object still shows that number (Current); once the writer   *)
(* has gone on, seq_check never has the number again.                      *)
(***************************************************************************)
EXTENDS AtomicObject, TLAPS

Usable ==
    /\ InitChecks = {kInvalidSeq + 1}
    /\ Parts \in Nat \ {0}
    /\ MaxWrites \in Nat /\ SeqMod \in Nat
    /\ MaxWrites + 1 < SeqMod

Copy == [seq : Nat, payload : Seq(Nat), check : Nat]
Reader == [pc : {"idle", "copy", "check"}, copy : Copy, since : Nat, result : Seq(Nat)]

Types ==
    /\ seq \in Nat /\ seq_check \in Nat /\ saved \in Nat
    /\ payload \in [1..Parts -> Nat]
    /\ wpc \in {"idle", "seq", "payload", "check"}
    /\ writes \in 0..MaxWrites
    /\ rd \in [Readers -> Reader]

Shows(w) == \A i \in 1..Parts : payload[i] = w

\* What the object holds at each point of the writer.
WriterInv ==
    /\ wpc = "idle" => seq = writes + 1 /\ seq_check = writes + 1 /\ Shows(writes)
    /\ wpc # "idle" => writes > 0 /\ seq_check = 0
    /\ wpc = "seq" => seq = writes /\ saved = writes /\ Shows(writes - 1)
    /\ wpc = "payload" => seq = 0 /\ saved = writes
    /\ wpc = "check" => seq = writes + 1 /\ Shows(writes)

\* The number of the payload that is shown, or was last.
Current == IF wpc \in {"seq", "payload"} THEN writes ELSE writes + 1

Whole(c) == \A i \in 1..Len(c.payload) : c.payload[i] = c.seq - 1

\* What a reader has in its copy, and in its last result.
ReaderInv(r) ==
    LET c == rd[r].copy
        n == Len(c.payload)
        p == rd[r].result
    IN  /\ rd[r].pc = "copy" => n < Parts
        /\ rd[r].pc = "check" => n = Parts
        /\ rd[r].since <= Published
        /\ rd[r].pc # "idle" /\ n > 0 /\ c.seq # 0 =>
             /\ rd[r].since <= c.seq - 1
             /\ c.seq <= Current
             /\ c.seq = Current /\ wpc # "payload" => Whole(c)
             /\ rd[r].pc = "check" /\ c.check = c.seq => Whole(c)
        /\ rd[r].pc = "idle" /\ p # <<>> =>
             /\ \A i \in 1..Parts : p[i] = p[1]
             /\ p[1] >= rd[r].since

IInv ==
    /\ Usable
    /\ Types
    /\ WriterInv
    /\ \A r \in Readers : ReaderInv(r)

\* The writer's stores: a copy of an older number can only become useless.
LEMMA WriterSteps ==
    ASSUME IInv,
           BeginWrite \/ InvalidateSeq \/ WritePart \/ DoneWrite \/ PublishCheck
    PROVE  IInv'
<1> USE DEF kInvalidSeq
<1>0. rd' = rd /\ Usable /\ Usable'
    BY DEF IInv, Usable, BeginWrite, InvalidateSeq, WritePart, DoneWrite, PublishCheck
<1>1. Types' /\ WriterInv'
  <2>1. CASE BeginWrite
      BY <1>0, <2>1 DEF IInv, Usable, Types, WriterInv, Shows, BeginWrite
  <2>2. CASE InvalidateSeq
      BY <1>0, <2>2 DEF IInv, Usable, Types, WriterInv, Shows, InvalidateSeq
  <2>3. CASE WritePart
      BY <1>0, <2>3 DEF IInv, Usable, Types, WriterInv, Shows, WritePart
  <2>4. CASE DoneWrite
    <3>1. saved = writes /\ writes + 1 < SeqMod /\ writes \in Nat /\ SeqMod \in Nat
        BY <2>4 DEF IInv, Usable, Types, WriterInv, DoneWrite
    <3>2. (saved + 1) % SeqMod = writes + 1
        BY <3>1
    <3> QED
        BY <1>0, <2>4, <3>1, <3>2 DEF IInv, Usable, Types, WriterInv, Shows, DoneWrite
  <2>5. CASE PublishCheck
      BY <1>0, <2>5 DEF IInv, Usable, Types, WriterInv, Shows, PublishCheck
  <2> QED
      BY <2>1, <2>2, <2>3, <2>4, <2>5
<1>2. /\ Published \in Nat /\ Published' \in Nat /\ Published <= Published'
      /\ Current \in Nat /\ Current' \in Nat /\ Current <= Current'
      /\ Current' = Current /\ wpc' # "payload" => wpc # "payload"
  <2>0. writes \in Nat /\ writes' \in Nat /\ (wpc # "idle" => writes > 0)
      BY <1>0, <1>1 DEF IInv, Usable, Types, WriterInv
  <2>1. CASE BeginWrite
      BY <2>0, <2>1 DEF Published, Current, BeginWrite
  <2>2. CASE InvalidateSeq
      BY <2>0, <2>2 DEF Published, Current, InvalidateSeq
  <2>3. CASE WritePart
      BY <2>0, <2>3 DEF Published, Current, WritePart
  <2>4. CASE DoneWrite
      BY <2>0, <2>4 DEF Published, Current, DoneWrite
  <2>5. CASE PublishCheck
      BY <2>0, <2>5 DEF Published, Current, PublishCheck
  <2> QED
      BY <2>1, <2>2, <2>3, <2>4, <2>5
<1>3. ASSUME NEW r \in Readers PROVE ReaderInv(r)'
  <2>1. ReaderInv(r) /\ rd[r].since \in Nat /\ rd[r].copy.seq \in Nat
      BY DEF IInv, Types, Reader, Copy
  <2> QED
      BY <1>0, <1>2, <2>1 DEF ReaderInv, Whole
<1> QED
    BY <1>0, <1>1, <1>3 DEF IInv

\* A read begins, and atomic_read looks at a finished copy.
LEMMA ReadEnds ==
    ASSUME IInv, NEW r \in Readers, StartRead(r) \/ CheckCopy(r)
    PROVE  IInv'
<1> USE DEF kInvalidSeq
<1>0. UNCHANGED <<seq, seq_check, payload, wpc, saved, writes>>
    BY DEF StartRead, CheckCopy
<1>1. /\ Usable' /\ WriterInv' /\ Published' = Published /\ Current' = Current
      /\ Published \in Nat /\ NoCopy \in Copy
    BY <1>0 DEF IInv, Usable, Types, WriterInv, Shows, Published, Current, NoCopy, Copy
<1>2. ReaderInv(r) /\ rd[r] \in Reader /\ Parts \in Nat \ {0}
    BY DEF IInv, Types, Usable
<1>3. PICK x \in Reader :
        /\ rd' = [rd EXCEPT ![r] = x]
        /\ \/ x.pc = "copy" /\ x.copy = NoCopy /\ x.since <= Published
           \/ /\ x.pc = "idle" /\ x.since = rd[r].since /\ x.since <= Published
              /\ rd[r].pc = "check" /\ consistent(rd[r].copy)
              /\ x.result = rd[r].copy.payload
  <2>1. CASE StartRead(r)
    <3> DEFINE x == [rd[r] EXCEPT !.pc = "copy", !.copy = NoCopy, !.since = Published]
    <3>1. x \in Reader /\ x.pc = "copy" /\ x.copy = NoCopy /\ x.since = Published
        BY <1>1, <1>2 DEF Reader
    <3>2. rd' = [rd EXCEPT ![r] = x]
        BY <2>1 DEF StartRead
    <3>3. x.since <= Published
        BY <1>1, <3>1
    <3> HIDE DEF x
    <3> QED
        BY <3>1, <3>2, <3>3
  <2>2. CASE CheckCopy(r) /\ consistent(rd[r].copy)
    <3> DEFINE x == [rd[r] EXCEPT !.pc = "idle", !.result = rd[r].copy.payload]
    <3>1. x \in Reader /\ x.pc = "idle" /\ x.since = rd[r].since /\ x.result = rd[r].copy.payload
        BY <1>2 DEF Reader, Copy
    <3>2. rd' = [rd EXCEPT ![r] = x] /\ rd[r].pc = "check" /\ rd[r].since <= Published
        BY <1>2, <2>2 DEF CheckCopy, ReaderInv
    <3> QED
        BY <2>2, <3>1, <3>2
  <2>3. CASE CheckCopy(r) /\ ~consistent(rd[r].copy)
    <3> DEFINE x == [rd[r] EXCEPT !.pc = "copy", !.copy = NoCopy]
    <3>1. x \in Reader /\ x.pc = "copy" /\ x.copy = NoCopy /\ x.since = rd[r].since
        BY <1>1, <1>2 DEF Reader
    <3>2. rd' = [rd EXCEPT ![r] = x] /\ rd[r].since <= Published
        BY <1>2, <2>3 DEF CheckCopy, ReaderInv
    <3> QED
        BY <3>1, <3>2
  <2> QED
      BY <2>1, <2>2, <2>3
<1>4. Types'
    BY <1>0, <1>3 DEF IInv, Types
<1>5. rd'[r] = x
    BY <1>3 DEF IInv, Types
<1>6. ReaderInv(r)'
  <2>1. CASE x.pc = "copy" /\ x.copy = NoCopy /\ x.since <= Published
      BY <1>1, <1>2, <1>5, <2>1 DEF ReaderInv, NoCopy
  <2>2. CASE /\ x.pc = "idle" /\ x.since = rd[r].since /\ x.since <= Published
             /\ rd[r].pc = "check" /\ consistent(rd[r].copy)
             /\ x.result = rd[r].copy.payload
    <3> DEFINE c == rd[r].copy
    <3>1. Len(c.payload) = Parts /\ c.seq # 0 /\ c.seq \in Nat /\ Whole(c) /\ rd[r].since <= c.seq - 1
        BY <1>2, <2>2 DEF ReaderInv, consistent, Reader, Copy
    <3>2. \A i \in 1..Parts : x.result[i] = c.seq - 1
        BY <2>2, <3>1 DEF Whole
    <3>3. 1 \in 1..Parts
        BY <1>2
    <3>4. (\A i \in 1..Parts : x.result[i] = x.result[1]) /\ x.result[1] >= x.since
        BY <2>2, <3>1, <3>2, <3>3, <1>2 DEF Reader
    <3> QED
        BY <1>1, <1>5, <2>2, <3>4 DEF ReaderInv
  <2> QED
      BY <1>3, <2>1, <2>2
<1>7. ASSUME NEW q \in Readers, q # r PROVE ReaderInv(q)'
  <2>1. rd'[q] = rd[q] /\ ReaderInv(q)
      BY <1>3, <1>7 DEF IInv, Types
  <2> QED
      BY <1>0, <1>1, <2>1 DEF ReaderInv, Whole
<1> QED
    BY <1>1, <1>4, <1>6, <1>7 DEF IInv

\* A word is copied: the payload it belongs to is that of the number copied
\* first as long as the object shows it.
LEMMA ReadWordStep ==
    ASSUME IInv, NEW r \in Readers, ReadWord(r)
    PROVE  IInv'
<1> DEFINE c == rd[r].copy
           n == Len(c.payload)
           i == n + 1
           d == rd'[r].copy
<1>0. UNCHANGED <<seq, seq_check, payload, wpc, saved, writes>>
    BY DEF ReadWord
<1>1. /\ Usable' /\ WriterInv' /\ Published' = Published /\ Current' = Current
      /\ Published \in Nat /\ Current \in Nat
    BY <1>0 DEF IInv, Usable, Types, WriterInv, Shows, Published, Current
<1>2. /\ ReaderInv(r) /\ rd[r] \in Reader /\ Parts \in Nat \ {0}
      /\ c \in Copy /\ c.payload \in Seq(Nat) /\ n \in Nat
    BY DEF IInv, Types, Usable, Reader, Copy
<1>3. rd[r].pc = "copy" /\ n < Parts /\ i \in 1..Parts /\ payload[i] \in Nat
    BY <1>2 DEF ReadWord, ReaderInv, IInv, Types
<1> DEFINE e == [c EXCEPT !.payload = Append(@, payload[i]),
                          !.seq = IF i = 1 THEN seq ELSE @,
                          !.check = IF i = Parts THEN seq_check ELSE @]
           x == [rd[r] EXCEPT !.copy = e, !.pc = IF i = Parts THEN "check" ELSE "copy"]
<1>4. rd' = [rd EXCEPT ![r] = x] /\ rd'[r] = x
    BY DEF ReadWord, IInv, Types
<1> HIDE DEF e
<1>5. /\ rd'[r].pc = IF i = Parts THEN "check" ELSE "copy"
      /\ rd'[r].since = rd[r].since /\ rd'[r].result = rd[r].result
      /\ d = e
  <2>1. /\ x.pc = IF i = Parts THEN "check" ELSE "copy"
        /\ x.since = rd[r].since /\ x.result = rd[r].result /\ x.copy = e
      BY <1>2 DEF Reader
  <2> QED
      BY <1>4, <2>1
<1>6. /\ d.seq = IF i = 1 THEN seq ELSE c.seq
      /\ d.payload = Append(c.payload, payload[i])
      /\ d.check = IF i = Parts THEN seq_check ELSE c.check
      /\ d \in Copy /\ Len(d.payload) = i
  <2>1. seq \in Nat /\ seq_check \in Nat /\ Append(c.payload, payload[i]) \in Seq(Nat)
      BY <1>2, <1>3 DEF IInv, Types
  <2>2. Len(Append(c.payload, payload[i])) = i
      BY <1>2, <1>3
  <2> QED
      BY <1>2, <1>5, <2>1, <2>2 DEF Copy, e
<1> HIDE DEF d
<1>7. Types'
  <2>0. x \in Reader
      BY <1>2, <1>5, <1>6 DEF Reader
  <2>1. rd' \in [Readers -> Reader]
      BY <1>4, <2>0 DEF IInv, Types
  <2> QED
      BY <1>0, <2>1 DEF IInv, Types
<1>8. d.seq # 0 =>
        /\ rd[r].since <= d.seq - 1
        /\ d.seq <= Current
        /\ d.seq = Current /\ wpc # "payload" => payload[i] = d.seq - 1
        /\ i > 1 /\ d.seq = Current /\ wpc # "payload" => Whole(c)
  <2>1. CASE i = 1
    <3>1. d.seq = seq /\ rd[r].since <= Published /\ rd[r].since \in Nat
        BY <1>2, <1>6, <2>1 DEF ReaderInv, Reader
    <3> QED
        BY <1>3, <2>1, <3>1 DEF IInv, Types, WriterInv, Shows, Published, Current
  <2>2. CASE i > 1
    <3>1. d.seq = c.seq /\ n > 0
        BY <1>2, <1>6, <2>2
    <3>2. d.seq = Current /\ wpc # "payload" => payload[i] = d.seq - 1
        BY <1>3 DEF IInv, Types, WriterInv, Shows, Current
    <3> QED
        BY <1>2, <1>3, <3>1, <3>2 DEF ReaderInv
  <2> QED
      BY <1>2, <2>1, <2>2
<1>9. d.seq # 0 /\ d.seq = Current /\ wpc # "payload" => Whole(d)
  <2> SUFFICES ASSUME d.seq # 0, d.seq = Current, wpc # "payload", NEW j \in 1..i
               PROVE  d.payload[j] = d.seq - 1
      BY <1>6 DEF Whole
  <2>1. CASE j = i
      BY <1>2, <1>6, <1>8, <2>1
  <2>2. CASE j < i
    <3>1. j \in 1..n /\ i > 1 /\ i # 1
        BY <1>2, <2>2
    <3>2. Whole(c) /\ d.seq = c.seq
        BY <1>6, <1>8, <3>1
    <3>3. d.payload[j] = c.payload[j]
        BY <1>2, <1>6, <3>1
    <3> QED
        BY <3>1, <3>2, <3>3 DEF Whole
  <2>3. n \in Nat
      BY <1>2
  <2> HIDE DEF n
  <2>4. j = i \/ j < i
      BY <2>3
  <2> QED
      BY <2>1, <2>2, <2>4
<1>10. d.seq # 0 /\ i = Parts /\ d.check = d.seq => d.seq = Current /\ wpc # "payload"
    BY <1>6 DEF IInv, Types, WriterInv, Current
<1>11. ReaderInv(r)'
    BY <1>0, <1>1, <1>2, <1>3, <1>5, <1>6, <1>8, <1>9, <1>10 DEF ReaderInv, d
<1>12. ASSUME NEW q \in Readers, q # r PROVE ReaderInv(q)'
  <2>1. rd'[q] = rd[q] /\ ReaderInv(q)
      BY <1>4, <1>12 DEF IInv, Types
  <2> QED
      BY <1>0, <1>1, <2>1 DEF ReaderInv, Whole
<1> QED
    BY <1>1, <1>7, <1>11, <1>12 DEF IInv

\* A read that returns, returns the payload of one write, and of none older
\* than the last one finished when it began.
THEOREM ReadsNotTornHolds == Usable /\ Spec => []ReadsNotTorn
<1>1. Usable /\ Init => IInv
  <2> SUFFICES ASSUME Usable, Init PROVE IInv
      OBVIOUS
  <2>0. [pc |-> "idle", copy |-> NoCopy, since |-> 0, result |-> <<>>] \in Reader
      BY DEF Reader, Copy, NoCopy
  <2>1. Types
      BY <2>0 DEF Usable, Init, Types, kInvalidSeq
  <2>2. WriterInv
      BY DEF Usable, Init, WriterInv, Shows, kInvalidSeq
  <2>3. \A r \in Readers : ReaderInv(r)
    <3> SUFFICES ASSUME NEW r \in Readers PROVE ReaderInv(r)
        OBVIOUS
    <3>1. rd[r].pc = "idle" /\ rd[r].since = 0 /\ rd[r].result = <<>> /\ Published = 0
        BY DEF Init, Published
    <3> QED
        BY <3>1 DEF ReaderInv
  <2> QED
      BY <2>1, <2>2, <2>3 DEF IInv
<1>2. IInv /\ [Next]_vars => IInv'
  <2> SUFFICES ASSUME IInv, [Next]_vars PROVE IInv'
      OBVIOUS
  <2>1. CASE BeginWrite \/ InvalidateSeq \/ WritePart \/ DoneWrite \/ PublishCheck
      BY <2>1, WriterSteps
  <2>2. CASE \E r \in Readers : StartRead(r) \/ CheckCopy(r)
      BY <2>2, ReadEnds
  <2>3. CASE \E r \in Readers : ReadWord(r)
      BY <2>3, ReadWordStep
  <2>4. CASE UNCHANGED vars
      BY <2>4 DEF vars, IInv, Usable, Types, WriterInv, Shows, ReaderInv, Whole, Published, Current
  <2> QED
      BY <2>1, <2>2, <2>3, <2>4 DEF Next
<1>3. IInv => ReadsNotTorn
    BY DEF IInv, ReaderInv, ReadsNotTorn
<1> QED
    BY <1>1, <1>2, <1>3, PTL DEF Spec
=============================================================================
