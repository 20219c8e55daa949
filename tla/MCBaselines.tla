----------------------------- MODULE MCBaselines -----------------------------
(***************************************************************************)
(* The baseline systems and the shared primitives in one run: a behaviour  *)
(* is one of RACE with a writing and a searching thread, of RACE with two  *)
(* writing threads, of the DrTM-R table, of the MICA store, of the atomic  *)
(* object or of lock elision.  Variables of the same name are shared; those *)
(* a component does not have are "off".                                    *)
(***************************************************************************)
EXTENDS Naturals, Sequences

VARIABLES which,
          hashOf, thr, loaded, call, calls,
          table, packed, num, done, ops,
          array, free_indirect, free_data, server, acked, overrun,
          ht_index, ht_log, log_head, serving, last,
          seq, seq_check, payload, wpc, saved, writes, rd,
          lock_, shared, entered, left

-----------------------------------------------------------------------------
(* RACE: six buckets of two slots; a and b are loaded.  Keys with different *)
(* buckets and fingerprints, all alike, and two groups that share a spare.  *)

RaceKeys == {"a", "b", "x", "y"}
H(s, h, f) == [seed |-> s, hash |-> h, fp |-> f]
RaceHashes ==
    {[k \in RaceKeys |-> CASE k = "a" -> H(0, 2, 0) [] k = "b" -> H(1, 0, 1)
                           [] k = "x" -> H(0, 1, 1) [] k = "y" -> H(1, 2, 0)],
     [k \in RaceKeys |-> H(0, 0, 1)],
     [k \in RaceKeys |-> IF k \in {"a", "x"} THEN H(0, 1, 0) ELSE H(1, 0, 0)]}

RaceThreads == {"w", "r"}
OneWriter == [t \in RaceThreads |-> IF t = "w" THEN {"search", "insert", "update"}
                                    ELSE {"search"}]
TwoWriters == [t \in RaceThreads |-> {"insert", "update"}]

Race1 == INSTANCE RaceHash WITH
    ExistKeys <- <<"a", "b">>, NewKeys <- {"x", "y"}, Threads <- RaceThreads,
    OpsOf <- OneWriter, HashChoices <- RaceHashes, nsize <- 6, SLOTS <- 2,
    MaxOps <- 4

Race2 == INSTANCE RaceHash WITH
    ExistKeys <- <<"a", "b">>, NewKeys <- {"x", "y"}, Threads <- RaceThreads,
    OpsOf <- TwoWriters, HashChoices <- RaceHashes, nsize <- 6, SLOTS <- 2,
    MaxOps <- 3

\* The constants are as the theorems about RaceHash take them.
ASSUME RaceSetting == Race1!Setting /\ Race2!Setting

(* DrTM-R: 12 keys in 4 clusters of 3 slots, 2 indirect nodes: an even hash, *)
(* two that use both indirect nodes, and two that run out of them.           *)
ClusterKeys == 1..14
ClusterHashes ==
    {[k \in ClusterKeys |-> k],
     [k \in ClusterKeys |-> IF k <= 4 THEN 3 ELSE IF k <= 8 THEN 2 ELSE k],
     [k \in ClusterKeys |-> IF k <= 9 THEN 2 ELSE k],
     [k \in ClusterKeys |-> k % 2],
     [k \in ClusterKeys |-> 0]}

Cluster == INSTANCE ClusterHash WITH
    length <- 12, CLUSTER_H <- 3, HashChoices <- ClusterHashes, NewKeys <- {13, 14},
    BenchKeys <- {1}, Cors <- {"c1", "c2"}, MaxCalls <- 4

(* MICA: two buckets of two slots over a log of four entries; keys that     *)
(* share a tag and a bucket, and one that evicts.                            *)
Key(b, t) == [bkt |-> b, tag |-> t]
Mica == INSTANCE MicaStore WITH
    ExistKeys <- <<Key(0, 1), Key(1, 2), Key(2, 1), Key(0, 3)>>,
    ClientKeys <- {Key(0, 1), Key(2, 1), Key(0, 2)}, Values <- {1, 6},
    SLOTS <- 2, num_bkts <- 2, log_cap <- 4, ValMod <- 4,
    Cors <- {"c1", "c2"}, MaxCalls <- 4

Atomic == INSTANCE AtomicObject WITH
    Readers <- {"r"}, Parts <- 3, InitChecks <- {1}, SeqMod <- 65536,
    MaxWrites <- 3

Rtm == INSTANCE RtmScope WITH
    Threads <- {"t1", "t2", "t3"}, MaxConflict <- 1, MaxCapacity <- 1,
    MaxSections <- 3

-----------------------------------------------------------------------------
raceVars == <<table, packed, num, done, ops>>
clusterVars == <<array, free_indirect, free_data, server, acked, overrun>>
micaVars == <<ht_index, ht_log, log_head, serving, last>>
atomicVars == <<seq, seq_check, payload, wpc, saved, writes, rd>>
rtmVars == <<lock_, shared, entered, left>>

RaceOff == /\ table = "off" /\ packed = "off" /\ num = "off" /\ done = "off"
           /\ ops = "off"
ClusterOff == /\ array = "off" /\ free_indirect = "off" /\ free_data = "off"
              /\ server = "off" /\ acked = "off" /\ overrun = "off"
MicaOff == /\ ht_index = "off" /\ ht_log = "off" /\ log_head = "off"
           /\ serving = "off" /\ last = "off"
AtomicOff == /\ seq = "off" /\ seq_check = "off" /\ payload = "off"
             /\ wpc = "off" /\ saved = "off" /\ writes = "off" /\ rd = "off"
RtmOff == /\ lock_ = "off" /\ shared = "off" /\ entered = "off" /\ left = "off"
HashOff == hashOf = "off"
ThreadsOff == thr = "off"
LoadOff == loaded = "off"
CallsOff == call = "off" /\ calls = "off"

MCInit ==
    \/ /\ which = "race1" /\ Race1!Init
       /\ CallsOff /\ ClusterOff /\ MicaOff /\ AtomicOff /\ RtmOff
    \/ /\ which = "race2" /\ Race2!Init
       /\ CallsOff /\ ClusterOff /\ MicaOff /\ AtomicOff /\ RtmOff
    \/ /\ which = "cluster" /\ Cluster!Init
       /\ ThreadsOff /\ RaceOff /\ MicaOff /\ AtomicOff /\ RtmOff
    \/ /\ which = "mica" /\ Mica!Init
       /\ HashOff /\ ThreadsOff /\ RaceOff /\ ClusterOff /\ AtomicOff /\ RtmOff
    \/ /\ which = "atomic" /\ Atomic!Init
       /\ HashOff /\ ThreadsOff /\ LoadOff /\ CallsOff
       /\ RaceOff /\ ClusterOff /\ MicaOff /\ RtmOff
    \/ /\ which = "rtm" /\ Rtm!Init
       /\ HashOff /\ LoadOff /\ CallsOff
       /\ RaceOff /\ ClusterOff /\ MicaOff /\ AtomicOff

Race1Step ==
    /\ which = "race1" /\ Race1!Next
    /\ UNCHANGED <<which, call, calls, clusterVars, micaVars, atomicVars, rtmVars>>
Race2Step ==
    /\ which = "race2" /\ Race2!Next
    /\ UNCHANGED <<which, call, calls, clusterVars, micaVars, atomicVars, rtmVars>>
ClusterStep ==
    /\ which = "cluster" /\ Cluster!Next
    /\ UNCHANGED <<which, thr, raceVars, micaVars, atomicVars, rtmVars>>
MicaStep ==
    /\ which = "mica" /\ Mica!Next
    /\ UNCHANGED <<which, hashOf, thr, raceVars, clusterVars, atomicVars, rtmVars>>
AtomicStep ==
    /\ which = "atomic" /\ Atomic!Next
    /\ UNCHANGED <<which, hashOf, thr, loaded, call, calls, raceVars,
                   clusterVars, micaVars, rtmVars>>
RtmStep ==
    /\ which = "rtm" /\ Rtm!Next
    /\ UNCHANGED <<which, hashOf, loaded, call, calls, raceVars, clusterVars,
                   micaVars, atomicVars>>

allVars == <<which, hashOf, thr, loaded, call, calls, raceVars, clusterVars,
             micaVars, atomicVars, rtmVars>>

MCSpec ==
    /\ MCInit
    /\ [][\/ Race1Step \/ Race2Step \/ ClusterStep \/ MicaStep \/ AtomicStep
          \/ RtmStep]_allVars

-----------------------------------------------------------------------------
\* RaceHash: under stale write-backs of two writers slots fill in order, and only
\* for keys that may live in their bucket.
RaceSlotsSound ==
    /\ which = "race1" => Race1!SlotsFilledInOrder /\ Race1!SlotsAtHome
    /\ which = "race2" => Race2!SlotsFilledInOrder /\ Race2!SlotsAtHome
\* RaceHash: with one writer an inserted key keeps its slot and its entry, and a
\* later search finds its slot.
RaceInsertsFound == which = "race1" => Race1!InsertedReachable /\ Race1!SearchFindsInserted
\* MicaStore: at most one used slot of a bucket has a tag, and a search that
\* succeeds returns a current value of its key.
MicaLookupsSound == which = "mica" => Mica!TagsUnique /\ Mica!GetReturnsLatest
\* AtomicObject: a copy that is accepted is one write's payload, and not stale.
AtomicReadsNotTorn == which = "atomic" => Atomic!ReadsNotTorn
\* RtmScope: no critical section is lost, and the lock has one holder and shows it.
RtmSectionsSafe == which = "rtm" => Rtm!NoSectionLost /\ Rtm!LockExcludes
=============================================================================
