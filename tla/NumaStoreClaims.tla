-------------------------- MODULE NumaStoreClaims ---------------------------
(***************************************************************************)
(* What comments and documents say of the NUMA data plane and the code     *)
(* does not keep.                                                          *)
(***************************************************************************)
EXTENDS NumaStore

\* memory-bank/11-numa-migration-summary.md: "Per-bucket mutexes on NUMA node,
\* Prevents race conditions".  So a search of a key returns a value that was
\* stored for that key.
SearchReturnsStored ==
    \A t \in Threads :
        pc[t] = "idle" /\ op[t] = "search" => result[t] \subseteq stored[key[t]]

\* outback_client_numa.hh: "Scan all SLOTS_NUM_BUCKET slots in the same row as
\* a fallback before declaring NOT_FOUND".  So when nobody else is at work, a
\* key that was not found is in no slot of the row.
NotFoundMeansAbsent ==
    \A t \in Threads :
        Threads = {t} /\ pc[t] = "idle" /\ op[t] = "search"
        /\ result[t] = {}
        => ~Reachable(bucket, rawArray, key[t])
=============================================================================
