----------------------------- MODULE LruHistory -----------------------------
(***************************************************************************)
(* The overflow cache in use, beside a cache that never evicts: history is *)
(* the list of all pairs not yet removed, the most recently used first.    *)
(***************************************************************************)
EXTENDS LruCache

CONSTANTS CacheKeys, CacheVals

VARIABLES lru, history

Ext == INSTANCE SequencesExt

Init == lru = EmptyCache /\ history = << >>

Insert(k, v) == lru' = insert(lru, k, v) /\ history' = ToFront(history, k, v)
Get(k) ==
    /\ lru' = get(lru, k)
    /\ history' = IF contains(lru, k) THEN ToFront(history, k, lru.keys_[PlaceOf(lru, k)].value)
                                      ELSE history
Remove(k) ==
    /\ lru' = remove(lru, k)
    /\ history' = IF contains(lru, k) THEN SelectSeq(history, LAMBDA p : p.key # k) ELSE history
Clear == lru' = EmptyCache /\ history' = << >>

Next ==
    \/ \E k \in CacheKeys : Get(k) \/ Remove(k) \/ \E v \in CacheVals : Insert(k, v)
    \/ Clear

Spec == Init /\ [][Next]_<<lru, history>>

----------------------------------------------------------------------------
\* The cache holds exactly the pairs used last, in the order of their use:
\* eviction only ever takes the least recently used (prune, cache.hh:217).
HoldsMostRecent == Ext!IsPrefix(lru.keys_, history)

\* The map knows exactly the keys of the list, each once, and the size stays
\* below the hard limit ("(maxSize + elasticity) is the hard limit", cache.hh:93).
MapAgrees ==
    /\ lru.cache_ = {lru.keys_[i].key : i \in DOMAIN lru.keys_}
    /\ \A i, j \in DOMAIN lru.keys_ : lru.keys_[i].key = lru.keys_[j].key => i = j
    /\ maxSize_ > 0 => Len(lru.keys_) <= maxSize_ + elasticity_
=============================================================================
