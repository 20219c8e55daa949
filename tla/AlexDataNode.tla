---------------------------- MODULE AlexDataNode ----------------------------
(***************************************************************************)
(* A data node (leaf) of the ALEX learned index, src/drtmr/alex/alex_nodes.h:*)
(* a sorted array with gaps.  A gap repeats the next key to its right, or    *)
(* holds the end sentinel, and a bitmap tells keys from gaps.  Positions     *)
(* count from 0; the bitmap is read in words of W positions (64 in the code).*)
(*                                                                           *)
(* The regression is not modelled: a trained model is any of the linear      *)
(* functions in Models and a lookup's prediction is any position, since a    *)
(* node must be right whatever its model predicts.  The payload travels with *)
(* its key and is left out; the cost statistics only choose among the        *)
(* outcomes of a full node's insertion.                                      *)
(***************************************************************************)
EXTENDS Integers, Sequences, SequencesExt, FiniteSetsExt

CONSTANTS UniqueKeys,   \* keys used when duplicates are not allowed
          DupKeys,      \* keys used when they are
          W,            \* positions per bitmap word
          Models,       \* linear models <<num, den, b>>: num * key / den + b
          max_slots_,   \* most slots a node may have
          MaxKeys,      \* bound on the keys inserted in a node
          Loads         \* sequences of keys to bulk load

VARIABLES node, dups

KeySpace == IF dups THEN DupKeys ELSE UniqueKeys
kEndSentinel == Max(UniqueKeys \cup DupKeys) + 1
kInitDensity == 7       \* densities in tenths
kMaxDensity == 8
kMinDensity == 6

Filled(nd, p) == p \in nd.bits
Slots(nd) == 0 .. nd.cap - 1

Predict(m, k) == (m[1] * k) \div m[2] + m[3]

\* predict_position: within the node.
PredictPosition(nd, m, k) == Max({Min({Predict(m, k), nd.cap - 1}), 0})

Capacity(n, density) == Max({(10 * n) \div density, n + 1})

\* Thresholds in tenths of a key.
Thresholds(nd) ==
  nd @@ [exp |-> Min({Max({nd.cap * kMaxDensity, 10 * (nd.n + 1)}), 10 * nd.cap}),
         con |-> nd.cap * kMinDensity]

\* Where the model puts the i-th key, keys 1 .. i - 1 ending at position last:
\* once too few positions remain, the rest is packed at the end.
RECURSIVE Place(_, _, _, _, _)
Place(ks, m, cap, i, last) ==
  IF i > Len(ks) THEN << >>
  ELSE LET p == Max({Predict(m, ks[i]), last + 1})
           left == Len(ks) - i + 1
       IN IF cap - p < left
          THEN [j \in 1 .. left |-> cap - left + j - 1]
          ELSE <<p>> \o Place(ks, m, cap, i + 1, p)

\* A node of the given capacity holding ks: a gap takes the key that follows.
Layout(ks, m, cap) ==
  LET at == Place(ks, m, cap, 1, -1)
      Next(p) == {i \in DOMAIN at : at[i] >= p}
  IN Thresholds(
       [cap |-> cap, n |-> Len(ks), bits |-> ToSet(at),
        keys |-> [p \in 0 .. cap - 1 |->
                    IF Next(p) = {} THEN kEndSentinel ELSE ks[Min(Next(p))]]])

EmptyNode ==
  [cap |-> 1, n |-> 0, bits |-> {}, keys |-> [p \in {0} |-> kEndSentinel],
   exp |-> 10, con |-> 0]

BulkLoad(ks, m, density) ==
  IF ks = << >> THEN EmptyNode ELSE Layout(ks, m, Capacity(Len(ks), density))

\* The keys between two positions, in order.
KeysBetween(nd, left, right) ==
  LET S == {p \in nd.bits : left <= p /\ p < right}
  IN [i \in 1 .. Cardinality(S) |->
        nd.keys[CHOOSE p \in S : Cardinality({q \in S : q <= p}) = i]]

Resize(nd, m, density) ==
  IF nd.n = 0 THEN nd
  ELSE Layout(KeysBetween(nd, 0, nd.cap), m, Capacity(nd.n, density))

----------------------------------------------------------------------------
\* Words of the bitmap; a word past the end is memory outside of it.
BitmapSize(nd) == (nd.cap + W - 1) \div W
Word(nd, i) == {b \in 0 .. W - 1 : Filled(nd, i * W + b)}
FullWord(nd, i) == Word(nd, i) = 0 .. W - 1

\* The position of the last, or first, zero of a word; in a full word the
\* leading- and trailing-zero counts are W.
LastZero(nd, i) == Max({-1} \cup ((0 .. W - 1) \ Word(nd, i))) + i * W
FirstZero(nd, i) == Min({W} \cup ((0 .. W - 1) \ Word(nd, i))) + i * W

RECURSIVE BinarySearchUpper(_, _, _, _), BinarySearchLower(_, _, _, _)
BinarySearchUpper(nd, l, r, k) ==
  LET mid == l + (r - l) \div 2
  IN IF l >= r THEN l
     ELSE IF nd.keys[mid] <= k THEN BinarySearchUpper(nd, mid + 1, r, k)
     ELSE BinarySearchUpper(nd, l, mid, k)
BinarySearchLower(nd, l, r, k) ==
  LET mid == l + (r - l) \div 2
  IN IF l >= r THEN l
     ELSE IF nd.keys[mid] >= k THEN BinarySearchLower(nd, l, mid, k)
     ELSE BinarySearchLower(nd, mid + 1, r, k)

\* The bound doubles from 1 while it is one of the offsets before size at which
\* the key has not been passed.
Doubled(size, onward) == Min({2 ^ e : e \in 0 .. size} \ onward)

ExponentialSearchUpper(nd, m, k) ==
  IF nd.keys[m] > k
  THEN LET b == Doubled(m, {x \in 1 .. m - 1 : nd.keys[m - x] > k})
       IN BinarySearchUpper(nd, m - Min({b, m}), m - b \div 2, k)
  ELSE LET size == nd.cap - m
           b == Doubled(size, {x \in 1 .. size - 1 : nd.keys[m + x] <= k})
       IN BinarySearchUpper(nd, m + b \div 2, m + Min({b, size}), k)

\* Mutant of ExponentialSearchLower: the search interval begins after the last
\* bound that was tried.
ExponentialSearchLowerLate(nd, m, k) ==
  IF nd.keys[m] >= k
  THEN LET b == Doubled(m, {x \in 1 .. m - 1 : nd.keys[m - x] >= k})
       IN BinarySearchLower(nd, m - Min({b, m}) + 1, m - b \div 2, k)
  ELSE LET size == nd.cap - m
           b == Doubled(size, {x \in 1 .. size - 1 : nd.keys[m + x] < k})
       IN BinarySearchLower(nd, m + b \div 2, m + Min({b, size}), k)

ExponentialSearchLower(nd, m, k) ==
  IF nd.keys[m] >= k
  THEN LET b == Doubled(m, {x \in 1 .. m - 1 : nd.keys[m - x] >= k})
       IN BinarySearchLower(nd, m - Min({b, m}), m - b \div 2, k)
  ELSE LET size == nd.cap - m
           b == Doubled(size, {x \in 1 .. size - 1 : nd.keys[m + x] < k})
       IN BinarySearchLower(nd, m + b \div 2, m + Min({b, size}), k)

\* From position p on, or after it, the first filled one: word by word.
NextFilled(nd, p, exclusive) ==
  LET from  == IF exclusive THEN p + 1 ELSE p
      first == from \div W
      Rest(i) == IF i = first THEN {b \in Word(nd, i) : b >= from - i * W}
                 ELSE Word(nd, i)
      hits  == {i \in first .. BitmapSize(nd) - 1 : Rest(i) # {}}
  IN IF hits = {} THEN nd.cap ELSE Min(hits) * W + Min(Rest(Min(hits)))

\* get_next_filled_position reads the word of p before it tests for the end.
ReadsPastBitmap(nd, p) == p \div W >= BitmapSize(nd)

\* The lookups, the model predicting position m.
FindKey(nd, m, k) ==
  LET p == ExponentialSearchUpper(nd, m, k) - 1
  IN IF p < 0 \/ nd.keys[Max({p, 0})] # k THEN -1 ELSE p
FindLower(nd, m, k) == NextFilled(nd, ExponentialSearchLower(nd, m, k), FALSE)
FindUpper(nd, m, k) == NextFilled(nd, ExponentialSearchUpper(nd, m, k), FALSE)

FindInsertPosition(nd, m, k) ==
  LET p == ExponentialSearchUpper(nd, m, k)
  IN IF m <= p \/ Filled(nd, p) THEN p ELSE Min({m, NextFilled(nd, p, TRUE) - 1})

NumKeysInRange(nd, left, right) ==
  LET lw == left \div W
      rw == right \div W
      In(i, lo, hi) == Cardinality({b \in Word(nd, i) : lo <= b /\ b < hi})
  IN IF lw = rw THEN In(lw, left - lw * W, right - rw * W)
     ELSE In(lw, left - lw * W, W)
          + MapThenSumSet(LAMBDA i : In(i, 0, W), lw + 1 .. rw - 1)
          + IF rw # BitmapSize(nd) THEN In(rw, 0, right - rw * W) ELSE 0

----------------------------------------------------------------------------
\* The gap nearest to a position whose own word has one.
GapInWord(nd, pos) ==
  LET i   == pos \div W
      bit == pos % W
      rs  == {b \in (0 .. W - 1) \ Word(nd, i) : b >= bit}
      ls  == {b \in (0 .. W - 1) \ Word(nd, i) : b < bit}
      right == IF rs # {} THEN Min(rs) - bit
               ELSE IF i + 1 < BitmapSize(nd) THEN FirstZero(nd, i + 1) - pos ELSE W
      left  == IF ls # {} THEN bit - Max(ls)
               ELSE IF i > 0 THEN pos - LastZero(nd, i - 1) ELSE W
  IN IF right < left /\ pos + right < nd.cap THEN pos + right ELSE pos - left

\* Words at distance d on both sides while both exist, then the longer side.
RECURSIVE GapFrom(_, _, _)
GapFrom(nd, pos, d) ==
  LET i     == pos \div W
      bit   == pos % W
      last  == (nd.cap - 1) \div W
      lfree == ~FullWord(nd, i - d)
      rfree == ~FullWord(nd, i + d)
      Nearer(l, r) == IF pos - l <= r - pos \/ r >= nd.cap THEN l ELSE r
      lefts  == {j \in 0 .. i - d : ~FullWord(nd, j)}
      rights == {j \in i + d .. last : ~FullWord(nd, j)}
  IN IF d <= Min({i, last - i})
     THEN IF lfree /\ rfree THEN Nearer(LastZero(nd, i - d), FirstZero(nd, i + d))
          ELSE IF lfree
          THEN IF bit > W \div 2 /\ i + d + 1 < BitmapSize(nd) /\ ~FullWord(nd, i + d + 1)
               THEN Nearer(LastZero(nd, i - d), FirstZero(nd, i + d + 1))
               ELSE LastZero(nd, i - d)
          ELSE IF rfree /\ FirstZero(nd, i + d) < nd.cap
          THEN IF bit < W \div 2 /\ i - d > 0 /\ ~FullWord(nd, i - d - 1)
               THEN Nearer(LastZero(nd, i - d - 1), FirstZero(nd, i + d))
               ELSE FirstZero(nd, i + d)
          ELSE GapFrom(nd, pos, d + 1)
     ELSE IF i > last - i
     THEN IF lefts = {} THEN -1 ELSE LastZero(nd, Max(lefts))
     ELSE IF rights = {} \/ FirstZero(nd, Min(rights)) >= nd.cap THEN -1
     ELSE FirstZero(nd, Min(rights))

ClosestGap(nd, at) ==
  LET pos == Min({at, nd.cap - 1})
      i   == pos \div W
      full == \/ FullWord(nd, i)
              \/ /\ i = BitmapSize(nd) - 1
                 /\ Cardinality(Word(nd, i)) = nd.cap - i * W
  IN IF full THEN GapFrom(nd, pos, 1) ELSE GapInWord(nd, pos)

\* Gaps right before p, back to the previous key.
GapsBefore(nd, p) == {q \in 0 .. p - 1 : \A r \in q .. p - 1 : ~Filled(nd, r)}

\* Mutant of InsertElementAt: the gaps before the new key keep the next one.
InsertElementOnly(nd, k, p) ==
  [nd EXCEPT !.bits = @ \cup {p}, !.keys[p] = k]

InsertElementAt(nd, k, p) ==
  [nd EXCEPT !.bits = @ \cup {p},
             !.keys = [q \in Slots(nd) |->
                         IF q = p \/ q \in GapsBefore(nd, p) THEN k ELSE @[q]]]

InsertUsingShifts(nd, k, p) ==
  LET Right(g) == [nd EXCEPT !.bits = @ \cup {g},
                             !.keys = [q \in Slots(nd) |->
                                         IF q \in p + 1 .. g THEN @[q - 1] ELSE @[q]]]
      Left(g)  == [nd EXCEPT !.bits = @ \cup {g},
                             !.keys = [q \in Slots(nd) |->
                                         IF q \in g .. p - 2 THEN @[q + 1] ELSE @[q]]]
      Shift(g) == IF g >= p THEN InsertElementAt(Right(g), k, p)
                  ELSE InsertElementAt(Left(g), k, p - 1)
  IN Shift(ClosestGap(nd, p))

\* insert, on a node that is not full (or has just been expanded).
Inserted(nd, k, m) ==
  LET Present(up) == up > 0 /\ nd.keys[Max({up - 1, 0})] = k
      New(p) == IF p < nd.cap /\ ~Filled(nd, p) THEN InsertElementAt(nd, k, p)
                ELSE InsertUsingShifts(nd, k, p)
  IN IF ~dups /\ Present(ExponentialSearchUpper(nd, m, k)) THEN nd
     ELSE [New(FindInsertPosition(nd, m, k)) EXCEPT !.n = @ + 1]

\* The slots in S take the key that follows them, and a node that is now too
\* empty is contracted.
Erased(nd, S, next, m) ==
  LET Kept(rest) == IF 10 * rest.n < rest.con THEN Resize(rest, m, kMaxDensity) ELSE rest
  IN Kept([nd EXCEPT !.bits = @ \ S, !.n = @ - Cardinality(S \cap nd.bits),
                     !.keys = [q \in Slots(nd) |-> IF q \in S THEN next ELSE @[q]]])

KeyAt(nd, p) == IF p = nd.cap THEN kEndSentinel ELSE nd.keys[p]

----------------------------------------------------------------------------
Init ==
  /\ dups \in BOOLEAN
  /\ \E ks \in Loads, m \in Models :
       /\ dups \/ IsInjective(ks)
       /\ node = BulkLoad(ks, m, kInitDensity)

\* A full node expands, unless it may not grow any more; a node whose costs
\* deviate refuses as well, and leaves the key to its parent in either case.
Expanded(nd, m) == IF 10 * nd.n >= nd.exp THEN Resize(nd, m, kMinDensity) ELSE nd

Insert(k, model) ==
  /\ node.n < MaxKeys
  /\ 10 * node.n >= node.exp => 10 * node.n <= max_slots_ * kMinDensity
  /\ \E nd \in {Expanded(node, model)} :
       node' = Inserted(nd, k, PredictPosition(nd, model, k))
  /\ UNCHANGED dups

\* erase_one: the leftmost of the keys equal to k.
EraseOne(k, model) ==
  \E m \in {PredictPosition(node, model, k)} : \E p \in {FindLower(node, m, k)} :
    /\ ~ReadsPastBitmap(node, ExponentialSearchLower(node, m, k))
    /\ p # node.cap
    /\ node.keys[p] = k
    /\ node' = Erased(node, {p} \cup GapsBefore(node, p), KeyAt(node, p + 1), model)
    /\ UNCHANGED dups

\* The slots right before p whose keys are at least k.
RunBefore(nd, p, k) == {q \in 0 .. p - 1 : nd.keys[q] >= k}

Erase(k, model) ==
  \E p \in {ExponentialSearchUpper(node, PredictPosition(node, model, k), k)} :
    /\ p # 0
    /\ node.keys[p - 1] = k
    /\ node' = Erased(node, RunBefore(node, p, k), KeyAt(node, p), model)
    /\ UNCHANGED dups

EraseRange(lo, hi, inclusive, model) ==
  /\ lo <= hi
  /\ LET m == PredictPosition(node, model, hi)
     IN \E p \in {IF inclusive THEN ExponentialSearchUpper(node, m, hi)
                               ELSE ExponentialSearchLower(node, m, hi)} :
          /\ p # 0
          /\ node' = Erased(node, RunBefore(node, p, lo), KeyAt(node, p), model)
  /\ UNCHANGED dups

\* A full node is split: each of its successors is loaded with one part of it.
SplitOff(k, upper, model) ==
  LET p == ExponentialSearchLower(node, PredictPosition(node, model, k), k)
  IN /\ 10 * node.n >= node.exp
     /\ node' = BulkLoad(IF upper THEN KeysBetween(node, p, node.cap)
                                  ELSE KeysBetween(node, 0, p), model, kMinDensity)
     /\ UNCHANGED dups

Next ==
  \E k \in KeySpace, model \in Models :
    \/ Insert(k, model)
    \/ EraseOne(k, model)
    \/ Erase(k, model)
    \/ \E hi \in KeySpace, inclusive \in BOOLEAN : EraseRange(k, hi, inclusive, model)
    \/ \E upper \in BOOLEAN : SplitOff(k, upper, model)

Spec == Init /\ [][Next]_<<node, dups>>

----------------------------------------------------------------------------
\* validate_structure after every operation: the slots are sorted, a gap is
\* never the last slot of its value, the last slot holds a key or the
\* sentinel, the bitmap has as many ones as there are keys, and there is
\* always room below the capacity for the next insertion.
Valid ==
  /\ \A p \in 0 .. node.cap - 2 :
       /\ node.keys[p] <= node.keys[p + 1]
       /\ node.keys[p] < node.keys[p + 1] => Filled(node, p)
  /\ Filled(node, node.cap - 1) <=> node.keys[node.cap - 1] # kEndSentinel
  /\ node.bits \subseteq Slots(node)
  /\ Cardinality(node.bits) = node.n
  /\ node.exp <= 10 * node.cap

\* Whatever position the model predicts, the exponential and binary searches
\* find what a scan of the array finds: the last slot holding the key, the
\* first filled slot not below it, the first filled slot above it, and a slot
\* for insertion that keeps the order.  (Except where the search ends past the
\* bitmap, a read whose outcome is undefined.)
LookupsAgree ==
  \A k \in KeySpace, m \in Slots(node) :
    LET here  == {p \in node.bits : node.keys[p] = k}
        from  == {p \in node.bits : node.keys[p] >= k}
        above == {p \in node.bits : node.keys[p] > k}
        at    == FindInsertPosition(node, m, k)
    IN /\ FindKey(node, m, k) = IF here = {} THEN -1 ELSE Max(here)
       /\ \/ FindLower(node, m, k) = Min(from \cup {node.cap})
          \/ ReadsPastBitmap(node, ExponentialSearchLower(node, m, k))
       /\ \/ FindUpper(node, m, k) = Min(above \cup {node.cap})
          \/ ReadsPastBitmap(node, ExponentialSearchUpper(node, m, k))
       /\ \A p \in node.bits : node.keys[p] <= k <=> p < at

\* closest_gap returns a gap no other gap is nearer than, through all its
\* cases on full words, and num_keys_in_range counts what a scan counts.
BitmapAgrees ==
  LET gaps == Slots(node) \ node.bits
      Far(p, q) == IF p < q THEN q - p ELSE p - q
  IN /\ gaps # {} =>
          \A p \in 0 .. node.cap :
            LET g == ClosestGap(node, p)
            IN g \in gaps /\ \A q \in gaps : Far(p, g) <= Far(p, q)
     /\ \A l \in 0 .. node.cap : \A r \in l .. node.cap :
          NumKeysInRange(node, l, r) = Cardinality({p \in node.bits : l <= p /\ p < r})

\* How often each key is stored.
Contents ==
  [k \in UniqueKeys \cup DupKeys |->
     Cardinality({p \in node.bits : node.keys[p] = k})]

Bag == INSTANCE KeyBag WITH Keys <- UniqueKeys \cup DupKeys, bag <- Contents

\* Every operation, the resizes inside it included, changes the keys stored as
\* the operation on a bag of keys does: shifting, expanding, contracting and
\* splitting lose no key and duplicate none.
ImplementsBag == Bag!Spec
============================================================================
