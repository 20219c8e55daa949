----------------------------- MODULE AtomicObject -----------------------------
(***************************************************************************)
(* The atomic object of xcomm/src/atomic_rw: WrappedType keeps a payload   *)
(* between two sequence numbers, one writer updates it between begin_write *)
(* and done_write, and readers copy it word by word (OrderedRWOp) until    *)
(* AtomicRW::atomic_read finds both numbers equal and valid.               *)
(*                                                                         *)
(* The struct is packed, so the first word copied holds seq and the        *)
(* beginning of the payload, and the last one the payload's end and        *)
(* seq_check.  Only compiler fences order the writer's stores: they become *)
(* visible in program order, as on x86.  The payload is a sequence of      *)
(* parts; a write stores its own number in every part.                     *)
(***************************************************************************)
EXTENDS Naturals, Sequences

CONSTANTS
    Readers,
    Parts,          \* payload parts, at least 2
    InitChecks,     \* what seq_check may be at first
    SeqMod,         \* 2^32: seq and seq_check are u32
    MaxWrites       \* bound: writes of the writer

VARIABLES
    seq, seq_check, payload,    \* the object
    wpc,            \* the writer: next store
    saved,          \* what begin_write returned
    writes,         \* writes started
    rd              \* per reader: the copy, and the last object returned

vars == <<seq, seq_check, payload, wpc, saved, writes, rd>>

kInvalidSeq == 0

NoCopy == [seq |-> 0, payload |-> <<>>, check |-> 0]

\* an object with the payload of write 0: the constructor from a payload sets
\* both numbers to kInvalidSeq + 1, the default one leaves seq_check as it is
Init ==
    /\ seq = kInvalidSeq + 1
    /\ seq_check \in InitChecks
    /\ payload = [i \in 1..Parts |-> 0]
    /\ wpc = "idle"
    /\ saved = 0
    /\ writes = 0
    /\ rd = [r \in Readers |-> [pc |-> "idle", copy |-> NoCopy,
                                since |-> 0, result |-> <<>>]]

-----------------------------------------------------------------------------
(* The writer *)

\* mutant: seq_check keeps its value
BeginWriteSeqOnly ==
    /\ wpc = "idle"
    /\ writes < MaxWrites
    /\ saved' = seq_check
    /\ writes' = writes + 1
    /\ wpc' = "seq"
    /\ UNCHANGED <<seq, seq_check, payload, rd>>

\* begin_write: seq_check is invalidated first, then seq
BeginWrite ==
    /\ wpc = "idle"
    /\ writes < MaxWrites
    /\ saved' = seq_check
    /\ seq_check' = kInvalidSeq
    /\ writes' = writes + 1
    /\ wpc' = "seq"
    /\ UNCHANGED <<seq, payload, rd>>

InvalidateSeq ==
    /\ wpc = "seq"
    /\ seq' = kInvalidSeq
    /\ wpc' = "payload"
    /\ UNCHANGED <<seq_check, payload, saved, writes, rd>>

\* the caller stores the parts of the new payload, in any order
WritePart ==
    /\ wpc = "payload"
    /\ \E i \in 1..Parts :
          /\ payload[i] # writes
          /\ payload' = [payload EXCEPT ![i] = writes]
    /\ UNCHANGED <<seq, seq_check, wpc, saved, writes, rd>>

\* done_write: seq, then seq_check
DoneWrite ==
    /\ wpc = "payload"
    /\ \A i \in 1..Parts : payload[i] = writes
    /\ seq' = (saved + 1) % SeqMod
    /\ wpc' = "check"
    /\ UNCHANGED <<seq_check, payload, saved, writes, rd>>

PublishCheck ==
    /\ wpc = "check"
    /\ seq_check' = seq
    /\ wpc' = "idle"
    /\ UNCHANGED <<seq, payload, saved, writes, rd>>

-----------------------------------------------------------------------------
(* The readers *)

\* the write whose payload the object shows once it is consistent again
Published == IF wpc = "idle" THEN writes ELSE writes - 1

StartRead(r) ==
    /\ rd[r].pc = "idle"
    /\ rd' = [rd EXCEPT ![r] = [@ EXCEPT !.pc = "copy", !.copy = NoCopy,
                                         !.since = Published]]
    /\ UNCHANGED <<seq, seq_check, payload, wpc, saved, writes>>

\* read_impl: one word per iteration, from the lowest address up; the first
\* carries seq and the last seq_check
ReadWord(r) ==
    /\ rd[r].pc = "copy"
    /\ LET i == Len(rd[r].copy.payload) + 1
           c == [rd[r].copy EXCEPT !.payload = Append(@, payload[i]),
                                   !.seq = IF i = 1 THEN seq ELSE @,
                                   !.check = IF i = Parts THEN seq_check ELSE @]
       IN  rd' = [rd EXCEPT ![r] =
                    [@ EXCEPT !.copy = c, !.pc = IF i = Parts THEN "check" ELSE "copy"]]
    /\ UNCHANGED <<seq, seq_check, payload, wpc, saved, writes>>

consistent(c) == c.seq = c.check /\ c.seq # kInvalidSeq

\* atomic_read returns a consistent copy and reads again otherwise; its retry
\* count is reset on every retry and never stops it
CheckCopy(r) ==
    /\ rd[r].pc = "check"
    /\ rd' = [rd EXCEPT ![r] =
          IF consistent(@.copy)
          THEN [@ EXCEPT !.pc = "idle", !.result = rd[r].copy.payload]
          ELSE [@ EXCEPT !.pc = "copy", !.copy = NoCopy]]
    /\ UNCHANGED <<seq, seq_check, payload, wpc, saved, writes>>

Next ==
    \/ BeginWrite
    \/ InvalidateSeq
    \/ WritePart
    \/ DoneWrite
    \/ PublishCheck
    \/ \E r \in Readers : StartRead(r) \/ ReadWord(r) \/ CheckCopy(r)

Spec == Init /\ [][Next]_vars

-----------------------------------------------------------------------------
(* What holds *)

\* A copy atomic_read accepts, of an object whose two numbers were equal at
\* first, is the payload of one write, and of none older than the last one
\* finished when the read began: two numbers written first
\* and last by the writer, and read first and last by the reader, rule out every
\* mixture.
ReadsNotTorn ==
    \A r \in Readers :
        LET p == rd[r].result
        IN  rd[r].pc = "idle" /\ p # <<>> =>
                /\ \A i \in 1..Parts : p[i] = p[1]
                /\ p[1] >= rd[r].since
=============================================================================
