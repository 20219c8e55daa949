------------------------------ MODULE LruCache ------------------------------
(***************************************************************************)
(* The overflow cache of the server (outback/cache.hh) as operators on its *)
(* state: keys_, the list of pairs, the most recently used first, and      *)
(* cache_, the map from a key to its place in the list, of which only the  *)
(* set of keys matters.  Every operation of the class holds its lock.      *)
(***************************************************************************)
EXTENDS Integers, Sequences

CONSTANTS maxSize_, elasticity_

EmptyCache == [keys_ |-> << >>, cache_ |-> {}]

contains(lru, k) == k \in lru.cache_

\* splice: the pair of k comes to the front, with value v.
ToFront(keys, k, v) == <<[key |-> k, value |-> v]>> \o SelectSeq(keys, LAMBDA p : p.key # k)

PlaceOf(lru, k) == CHOOSE i \in DOMAIN lru.keys_ : lru.keys_[i].key = k

\* At the hard limit the cache is cut back to maxSize_; it never is when
\* maxSize_ is 0.
prune(lru) ==
    IF maxSize_ = 0 \/ Len(lru.keys_) < maxSize_ + elasticity_ THEN lru
    ELSE LET kept == SubSeq(lru.keys_, 1, maxSize_) IN
         [keys_ |-> kept, cache_ |-> {kept[i].key : i \in DOMAIN kept}]

insert(lru, k, v) ==
    IF contains(lru, k) THEN [lru EXCEPT !.keys_ = ToFront(@, k, v)]
    ELSE prune([keys_ |-> ToFront(lru.keys_, k, v), cache_ |-> lru.cache_ \union {k}])

\* Wrong: a hit is no use.
get_unused(lru, k) == lru

\* tryGetCopy, tryGetRef, getRef and getCopy: a hit is a use, a miss (false, or
\* KeyNotFound) changes nothing.
get(lru, k) ==
    IF contains(lru, k)
      THEN [lru EXCEPT !.keys_ = ToFront(@, k, lru.keys_[PlaceOf(lru, k)].value)]
      ELSE lru

remove(lru, k) ==
    IF contains(lru, k)
      THEN [keys_ |-> SelectSeq(lru.keys_, LAMBDA p : p.key # k), cache_ |-> lru.cache_ \ {k}]
      ELSE lru
=============================================================================
