------------------------------ MODULE AlexTree ------------------------------
(***************************************************************************)
(* The recursive model index of ALEX, src/drtmr/alex/alex.h: model nodes    *)
(* that route a key to one of their children and data nodes (leaves) that   *)
(* hold the keys, linked from left to right.  A leaf is the bag of its keys *)
(* here; module AlexDataNode is its inside.                                 *)
(*                                                                          *)
(* Every model of the index divides an interval evenly among its children,  *)
(* so a model node keeps the ends of its interval.  The arithmetic is       *)
(* exact: keys are scaled by Scale and an interval that cannot be divided   *)
(* further is not split.  Which leaf is split, into how many parts, is the  *)
(* cost model's choice, and when enough keys are outside the domain of the  *)
(* root to expand it that of its statistics; both are nondeterministic.     *)
(***************************************************************************)
EXTENDS Integers, Sequences, FiniteSetsExt

CONSTANTS Keys,               \* naturals
          TMax,               \* largest value of the key type
          Scale,              \* a power of two
          MaxNodes,           \* heap size
          MaxSize,            \* bound on the keys stored
          MaxLeafKeys,        \* a leaf with that many keys refuses one more
          max_fanout,
          BulkLoads,          \* <<bag of keys, plan>>, see BulkLoadNode
          SplitDepth          \* depth of the fanout trees used in a split

VARIABLES tree, dups

NoKeys == [k \in Keys |-> 0]
Sum(bag) == MapThenSumSet(LAMBDA k : bag[k], Keys)
Held(bag) == {k \in Keys : bag[k] > 0}
Part(bag, In(_)) == [k \in Keys |-> IF In(k) THEN bag[k] ELSE 0]

Leaf(bag, dup, prev, next) ==
  [kind |-> "leaf", bag |-> bag, dup |-> dup, prev |-> prev, next |-> next,
   lo |-> 0, hi |-> 0, kids |-> << >>]
Model(lo, hi, dup, kids) ==
  [kind |-> "model", bag |-> NoKeys, dup |-> dup, prev |-> 0, next |-> 0,
   lo |-> lo, hi |-> hi, kids |-> kids]
Unused == [Leaf(NoKeys, 0, 0, 0) EXCEPT !.kind = "unused"]

\* The superroot is at address 1; its only child is the root.
superroot == 1
Root(h) == h[superroot].kids[0]
IsLeaf(h, a) == h[a].kind = "leaf"
Fanout(nd) == Cardinality(DOMAIN nd.kids)

Free(h) == {a \in DOMAIN h : h[a].kind = "unused"}
Fresh(h, i) == CHOOSE a \in Free(h) : Cardinality({f \in Free(h) : f <= a}) = i

\* kids[i .. j - 1] point to a.
Point(h, m, i, j, a) ==
  [h EXCEPT ![m].kids = [b \in DOMAIN @ |-> IF i <= b /\ b < j THEN a ELSE @[b]]]

\* Buckets, from 0.
Bucket(nd, k) ==
  LET c == Fanout(nd)
  IN Max({0, Min({c - 1, (c * (k * Scale - nd.lo)) \div (nd.hi - nd.lo)})})
Edge(nd, b) == nd.lo + (b * (nd.hi - nd.lo)) \div Fanout(nd)
OnEdge(nd, k) ==
  k * Scale >= nd.lo /\ (Fanout(nd) * (k * Scale - nd.lo)) % (nd.hi - nd.lo) = 0
FirstBucket(b, dup) == b - (b % 2 ^ dup)

----------------------------------------------------------------------------
\* get_leaf: the model nodes on the way down and the buckets taken.
RECURSIVE PathFrom(_, _, _)
PathFrom(h, a, k) ==
  IF IsLeaf(h, a) THEN << >>
  ELSE LET b == Bucket(h[a], k)
       IN <<[node |-> a, bucket |-> b]>> \o PathFrom(h, h[a].kids[b], k)
TraversalPath(h, k) == <<[node |-> superroot, bucket |-> 0]>> \o PathFrom(h, Root(h), k)

ParentOf(h, k) ==
  LET End(path) == path[Len(path)].node IN End(TraversalPath(h, k))

\* last_key: of an empty node it is the least value a key can have.
LastKey(bag) == Max(Held(bag) \union {0})

\* A key at a bucket's edge may be in the leaf to the left.
GetLeaf(h, k) ==
  LET Left(at, a, p) ==
        IF /\ at.node # superroot
           /\ OnEdge(h[at.node], k)
           /\ p # 0
           /\ LastKey(h[p].bag) >= k
        THEN p ELSE a
      Below(at) == LET a == h[at.node].kids[at.bucket] IN Left(at, a, h[a].prev)
      Ends(path) == Below(path[Len(path)])
  IN Ends(TraversalPath(h, k))

RECURSIVE FirstLeafFrom(_, _), LastLeafFrom(_, _)
FirstLeafFrom(h, a) == IF IsLeaf(h, a) THEN a ELSE FirstLeafFrom(h, h[a].kids[0])
LastLeafFrom(h, a) ==
  IF IsLeaf(h, a) THEN a ELSE LastLeafFrom(h, h[a].kids[Fanout(h[a]) - 1])
first_data_node(h) == FirstLeafFrom(h, Root(h))
last_data_node(h) == LastLeafFrom(h, Root(h))

\* NodeIterator: the nodes from the root, left to right, each once.  (Nothing
\* can be said of what an uninitialised pointer, 0 here, leads to.)
RECURSIVE NodesFrom(_, _), NodesOf(_, _, _)
NodesFrom(h, a) ==
  IF a = 0 THEN << >>
  ELSE <<a>> \o IF IsLeaf(h, a) THEN << >> ELSE NodesOf(h, a, 0)
NodesOf(h, a, b) ==
  IF b = Fanout(h[a]) THEN << >>
  ELSE IF b > 0 /\ h[a].kids[b] = h[a].kids[b - 1] THEN NodesOf(h, a, b + 1)
  ELSE NodesFrom(h, h[a].kids[b]) \o NodesOf(h, a, b + 1)

Leaves(h) == SelectSeq(NodesFrom(h, Root(h)), LAMBDA a : IsLeaf(h, a))

\* link_all_data_nodes
Linked(h) ==
  LET Placed(nd, ls, i) ==
        [nd EXCEPT !.prev = IF i = 1 THEN 0 ELSE ls[i - 1],
                   !.next = IF i = Len(ls) THEN 0 ELSE ls[i + 1]]
      Link(ls) ==
        [a \in DOMAIN h |->
           IF a \notin {ls[i] : i \in DOMAIN ls} THEN h[a]
           ELSE Placed(h[a], ls, CHOOSE i \in DOMAIN ls : ls[i] = a)]
  IN Link(Leaves(h))

----------------------------------------------------------------------------
\* Addresses are renumbered from left to right, so that a state does not depend
\* on the history of allocations.
Renumbered(h) ==
  LET New(ns, a) == Max({0} \cup {i \in DOMAIN ns : ns[i] = a})
      In(ns) ==
        [i \in DOMAIN h |->
           IF i > Len(ns) THEN Unused
           ELSE [h[ns[i]] EXCEPT !.prev = New(ns, @), !.next = New(ns, @),
                   !.kids = [b \in DOMAIN @ |-> New(ns, @[b])]]]
  IN In(NodesFrom(h, superroot))

----------------------------------------------------------------------------
\* A fanout tree of depth d is given by the levels of its used nodes from left
\* to right: two siblings of one level merge into a node of the level above.
RECURSIVE FanoutTrees(_)
FanoutTrees(d) ==
  IF d = 0 THEN {<<0>>}
  ELSE LET Below == {[i \in DOMAIN t |-> t[i] + 1] : t \in FanoutTrees(d - 1)}
       IN {<<0>>} \cup {l \o r : l, r \in Below}

\* bulk_load_node: a leaf for plan <<>>; otherwise a fanout tree as a sequence
\* of <<level, plan of the child>>, depth being the deepest level.
RECURSIVE BulkLoadNode(_, _, _, _, _, _), BulkLoadKids(_, _, _, _, _, _)
BulkLoadNode(h, lo, hi, bag, plan, dup) ==
  LET a == Fresh(h, 1)
      depth == Max({plan[i][1] : i \in DOMAIN plan})
      m == Model(lo, hi, dup, [b \in 0 .. 2 ^ depth - 1 |-> 0])
  IN IF plan = << >> THEN <<a, [h EXCEPT ![a] = Leaf(bag, dup, 0, 0)]>>
     ELSE <<a, BulkLoadKids([h EXCEPT ![a] = m], a, 0, bag, plan, depth)>>

BulkLoadKids(h, m, b, bag, plan, depth) ==
  IF plan = << >> THEN h
  ELSE LET dup == depth - Head(plan)[1]
           e == b + 2 ^ dup
           mine == Part(bag, LAMBDA k : e = Fanout(h[m]) \/ k * Scale < Edge(h[m], e))
           kid == BulkLoadNode(h, Edge(h[m], b), Edge(h[m], e), mine, Head(plan)[2], dup)
       IN BulkLoadKids(Point(kid[2], m, b, e, kid[1]), m, e,
                       [k \in Keys |-> bag[k] - mine[k]], Tail(plan), depth)

EmptyHeap == [a \in 1 .. MaxNodes |-> Unused]
Superroot(lo, hi, root) == Model(lo, hi, 0, [b \in {0} |-> root])

\* The smallest key of the first leaf, the largest of the last.
MinKey(h) == Min(Held(h[first_data_node(h)].bag) \cup {TMax})
MaxKey(h) == Max(Held(h[last_data_node(h)].bag) \cup {0})

\* update_superroot_key_domain
NewDomain(t) ==
  LET lo == MinKey(t.h)
      hi == MaxKey(t.h)
  IN [t EXCEPT !.min = lo, !.max = hi,
               !.h[superroot].lo = lo * Scale, !.h[superroot].hi = hi * Scale]

EmptyTree ==
  [h |-> [EmptyHeap EXCEPT ![superroot] = Superroot(0, 0, 2),
                           ![2] = Leaf(NoKeys, 0, 0, 0)],
   num |-> 0, min |-> TMax, max |-> 0]

BulkLoad(bag, plan) ==
  LET top == [EmptyHeap EXCEPT ![superroot] = Superroot(0, 0, 0)]
      lo == Min(Held(bag)) * Scale
      hi == Max(Held(bag)) * Scale
      root == BulkLoadNode(top, lo, hi, bag, plan, 0)
      h == [root[2] EXCEPT ![superroot].kids[0] = root[1]]
  IN NewDomain([EmptyTree EXCEPT !.h = Linked(h), !.num = Sum(bag)])

----------------------------------------------------------------------------
\* AlexModelNode::expand, by 2^e: every child's pointers are repeated.
Expand(h, m, e) ==
  LET kids == {h[m].kids[b] : b \in DOMAIN h[m].kids}
  IN [a \in DOMAIN h |->
        IF a = m
        THEN [h[a] EXCEPT !.kids = [b \in 0 .. Fanout(h[m]) * 2 ^ e - 1 |-> @[b \div 2 ^ e]]]
        ELSE IF a \in kids THEN [h[a] EXCEPT !.dup = @ + e] ELSE h[a]]

\* create_new_data_nodes: the children of m from bucket b on replace leaf old,
\* one per level of the fanout tree, and take its keys and its place in the list.
RECURSIVE CreateNewDataNodes(_, _, _, _, _, _, _, _)
CreateNewDataNodes(h, old, prev, rest, m, b, levels, dup0) ==
  LET a == Fresh(h, 1)
      dup == dup0 - Head(levels)
      e == b + 2 ^ dup
      last == Len(levels) = 1
      mine == Part(rest, LAMBDA k : last \/ k * Scale < Edge(h[m], e))
      new == [h EXCEPT ![a] = Leaf(mine, dup, prev, IF last THEN h[old].next ELSE 0)]
      linked == [i \in DOMAIN h |->
                   IF i = prev THEN [new[i] EXCEPT !.next = a]
                   ELSE IF last /\ i = h[old].next THEN [new[i] EXCEPT !.prev = a]
                   ELSE new[i]]
      done == Point(linked, m, b, e, a)
  IN IF last THEN [done EXCEPT ![old] = Unused]
     ELSE CreateNewDataNodes(done, old, a, [k \in Keys |-> rest[k] - mine[k]],
                             m, e, Tail(levels), dup0)

Depth(levels) == Max({levels[i] : i \in DOMAIN levels})

\* split_downwards: a new model node takes the leaf's place; its children share
\* the leaf's interval.
SplitDownwards(h, m, b, levels) ==
  LET old == h[m].kids[b]
      dup == h[old].dup
      i == FirstBucket(b, dup)
      j == i + 2 ^ dup
      a == Fresh(h, 1)
      new == Model(Edge(h[m], i), Edge(h[m], j), dup,
                   [x \in 0 .. 2 ^ Depth(levels) - 1 |-> 0])
  IN <<a, Point(CreateNewDataNodes([h EXCEPT ![a] = new], old, h[old].prev,
                                   h[old].bag, a, 0, levels, Depth(levels)),
                m, i, j, a)>>

\* split_sideways: within the parent, which is expanded if it has too few
\* pointers to the leaf.
SplitSideways(h, m, b, levels) ==
  LET old == h[m].kids[b]
      depth == Depth(levels)
      e == Max({0, depth - h[old].dup})
      x == Expand(h, m, e)
      dup == x[old].dup
  IN <<m, CreateNewDataNodes(x, old, x[old].prev, x[old].bag, m,
                             FirstBucket(b * 2 ^ e, dup), levels, dup)>>

\* The leaf below m that k belongs to is split.
Split(h, m, k, levels) ==
  LET b == Bucket(h[m], k)
      dup == h[h[m].kids[b]].dup
  IN IF \/ (Fanout(h[m]) * 2 ^ Depth(levels)) \div 2 ^ dup > max_fanout
        \/ m = superroot
     THEN SplitDownwards(h, m, b, levels)
     ELSE SplitSideways(h, m, b, levels)

\* The heap has room and the leaf's interval can be divided exactly.
CanSplit(h, m, k, levels) ==
  LET dup == h[h[m].kids[Bucket(h[m], k)]].dup
      width == ((h[m].hi - h[m].lo) * 2 ^ dup) \div Fanout(h[m])
  IN /\ Cardinality(Free(h)) >= Len(levels) + 1
     /\ h[m].lo < h[m].hi
     /\ width % 2 ^ Max({dup, Depth(levels)}) = 0

----------------------------------------------------------------------------
PowerOf2RoundUp(x) == Min({2 ^ e : e \in 0 .. x} \cap {y \in 1 .. 2 * x : y >= x})
Log2(x) == CHOOSE e \in 0 .. x : 2 ^ e = x
Ceil(x, y) == (x + y - 1) \div y

\* The factor by which the domain grows so that it covers k and all the keys.
ExpansionFactor(t, k, left) ==
  LET size == t.max - t.min
      far == IF left THEN t.min - Min({k, MinKey(t.h)}) ELSE Max({k, MaxKey(t.h)}) - t.max
  IN PowerOf2RoundUp(Ceil(far + size, size))

\* The new end of the domain, cut off at the end of the key type.
NewMax(t, f) ==
  LET half == (f \div 2) * (t.max - t.min)
  IN IF TMax \div 2 - t.min \div 2 < half THEN TMax ELSE t.min + 2 * half
NewMin(t, f) ==
  LET half == (f \div 2) * (t.max - t.min)
  IN IF t.max \div 2 < half THEN 0 ELSE t.max - 2 * half

\* The root with f times the interval and the pointers; the first (when
\* expanding to the right) or last buckets are the old root's children, or the
\* old root itself when its fanout may not grow.
ExpandedRoot(h, f, left) ==
  LET r == Root(h)
      c == Fanout(h[r])
      lo == IF left THEN h[r].hi - f * (h[r].hi - h[r].lo) ELSE h[r].lo
      hi == IF left THEN h[r].hi ELSE h[r].lo + f * (h[r].hi - h[r].lo)
      n == IF c * f <= max_fanout THEN c ELSE 1
      kids == [b \in 0 .. n * f - 1 |->
                 LET o == IF left THEN b - (n * f - n) ELSE b
                 IN IF o \notin 0 .. n - 1 THEN 0 ELSE IF n = c THEN h[r].kids[o] ELSE r]
      a == IF n = c THEN r ELSE Fresh(h, 1)
  IN [n |-> n, root |-> a,
      h |-> [h EXCEPT ![a] = Model(lo, hi, 0, kids), ![superroot].kids[0] = a]]

\* The buckets outside the old interval get new leaves, n buckets each, except
\* those beyond the key type's range, which stay uninitialised (0 here); the
\* outermost leaf's keys outside the old domain move to them.
AddOuterLeaves(t, left, x, min, max) ==
  LET size == t.max - t.min
      r == x.h[x.root]
      c == Fanout(r)
      n == x.n
      At(v) == (c * (v * Scale - r.lo)) \div (r.hi - r.lo)
      Addr(j) == Fresh(x.h, j)
      \* Group j, counted from the old interval outwards.
      Group(b) == IF left THEN (c - n - 1 - b) \div n + 1 ELSE b \div n
      In(g, j, v) == IF left THEN /\ v < t.min - (j - 1) * size
                                  /\ j = g \/ v >= t.min - j * size
                     ELSE /\ v >= t.max + (j - 1) * size
                          /\ j = g \/ v < t.max + j * size
      Stays(v) == IF left THEN ~(min <= v /\ v < t.min) ELSE ~(t.max <= v /\ v <= max)
      Links(nd, in, out) ==
        [nd EXCEPT !.prev = IF left THEN out ELSE in, !.next = IF left THEN in ELSE out]
      Outwards(nd, out) == IF left THEN [nd EXCEPT !.prev = out] ELSE [nd EXCEPT !.next = out]
      Outer(g, j, last) ==
        Links(Leaf(Part(x.h[last].bag, LAMBDA v : In(g, j, v)), Log2(n), 0, 0),
              IF j = 1 THEN last ELSE Addr(j - 1), IF j = g THEN 0 ELSE Addr(j + 1))
      Heap(g, last) ==
        [a \in DOMAIN x.h |->
           IF a = x.root
           THEN [r EXCEPT !.kids = [b \in DOMAIN @ |->
                   IF @[b] = 0 /\ Group(b) <= g THEN Addr(Group(b)) ELSE @[b]]]
           ELSE IF a = last
           THEN Outwards([x.h[a] EXCEPT !.bag = Part(@, Stays)], Addr(1))
           ELSE IF \E j \in 1 .. g : a = Addr(j)
           THEN Outer(g, CHOOSE j \in 1 .. g : a = Addr(j), last)
           ELSE x.h[a]]
  IN Heap(IF left THEN Ceil(c - n - Max({0, At(min)}), n)
                  ELSE Ceil(Min({c, At(max) + 1}) - n, n),
          IF left THEN first_data_node(t.h) ELSE last_data_node(t.h))

ExpandRoot(t, k, left) ==
  LET To(x, min, max) ==
        [t EXCEPT !.h = AddOuterLeaves(t, left, x, min, max), !.min = min, !.max = max]
      By(f) == To(ExpandedRoot(t.h, f, left), IF left THEN NewMin(t, f) ELSE t.min,
                                              IF left THEN t.max ELSE NewMax(t, f))
  IN By(ExpansionFactor(t, k, left))

\* A key outside the domain may make insert expand the root, if that is a model
\* node; the heap has room for it.
MayExpand(t, k) ==
  /\ k > t.max \/ k < t.min
  /\ ~IsLeaf(t.h, Root(t.h))
  /\ Cardinality(Free(t.h)) > ExpansionFactor(t, k, k < t.min)

\* What insert does before it looks for the leaf.
Prepared(t, k, expand) == IF expand THEN ExpandRoot(t, k, k < t.min) ELSE t

----------------------------------------------------------------------------
\* Mutant of MergeSiblings: the leaf on the far side keeps its link.
RECURSIVE MergeSiblingsDangling(_, _, _, _)
MergeSiblingsDangling(h, m, b, l) ==
  LET dup == h[l].dup
      i == FirstBucket(b, dup)
      j == i + 2 ^ dup
      right == b % 2 ^ (dup + 1) = b % 2 ^ dup
      adj == IF right THEN h[m].kids[j] ELSE h[m].kids[i - 1]
      out == IF right THEN h[l].prev ELSE h[l].next
      joined == [h EXCEPT ![l] = Unused,
                          ![adj] = IF right THEN [@ EXCEPT !.dup = dup + 1, !.prev = out]
                                   ELSE [@ EXCEPT !.dup = dup + 1, !.next = out]]
  IN IF /\ h[l].bag = NoKeys
        /\ 2 ^ dup < Fanout(h[m])
        /\ IsLeaf(h, adj)
        /\ h[adj].dup = dup
     THEN MergeSiblingsDangling(Point(joined, m, i, j, adj), m, b, adj)
     ELSE <<l, h>>

\* merge: the empty leaf l below bucket b of m is joined with its sibling, as
\* often as that is empty too.
RECURSIVE MergeSiblings(_, _, _, _)
MergeSiblings(h, m, b, l) ==
  LET dup == h[l].dup
      i == FirstBucket(b, dup)
      j == i + 2 ^ dup
      right == b % 2 ^ (dup + 1) = b % 2 ^ dup
      adj == IF right THEN h[m].kids[j] ELSE h[m].kids[i - 1]
      out == IF right THEN h[l].prev ELSE h[l].next
      joined == [a \in DOMAIN h |->
                   IF a = l THEN Unused
                   ELSE IF a = adj
                   THEN IF right THEN [h[a] EXCEPT !.dup = @ + 1, !.prev = out]
                                 ELSE [h[a] EXCEPT !.dup = @ + 1, !.next = out]
                   ELSE IF a = out
                   THEN IF right THEN [h[a] EXCEPT !.next = adj]
                                 ELSE [h[a] EXCEPT !.prev = adj]
                   ELSE h[a]]
  IN IF /\ h[l].bag = NoKeys
        /\ 2 ^ dup < Fanout(h[m])
        /\ IsLeaf(h, adj)
        /\ h[adj].dup = dup
     THEN MergeSiblings(Point(joined, m, i, j, adj), m, b, adj)
     ELSE <<l, h>>

\* A leaf that is all its parent points to replaces the parent.
RECURSIVE MergeUp(_, _, _)
MergeUp(h, path, l0) ==
  LET m == path[Len(path)].node
      up == path[Len(path) - 1]
      Lifted(l, j, dup, i) ==
        Point([j EXCEPT ![l].dup = dup, ![m] = Unused], up.node, i, i + 2 ^ dup, l)
      Further(l, j) ==
        IF up.node = superroot THEN j ELSE MergeUp(j, SubSeq(path, 1, Len(path) - 1), l)
      Up(l, j) ==
        IF 2 ^ j[l].dup # Fanout(j[m]) THEN j
        ELSE Further(l, Lifted(l, j, j[m].dup, FirstBucket(up.bucket, j[m].dup)))
      On(merged) == Up(merged[1], merged[2])
  IN On(MergeSiblings(h, m, path[Len(path)].bucket, l0))

Merge(h, l, k) ==
  LET On(path) == IF Len(path) = 1 THEN h ELSE MergeUp(h, path, l)
  IN On(TraversalPath(h, k))

----------------------------------------------------------------------------
\* Mutant of Added: the leaf does not look for the key.
AddedAnyway(t, l, k) == [t EXCEPT !.h[l].bag[k] = @ + 1, !.num = @ + 1]

\* The leaf's answer to an insertion: a key already there is refused when
\* duplicates are not allowed.
Added(t, l, k) ==
  IF ~dups /\ t.h[l].bag[k] > 0 THEN t
  ELSE [t EXCEPT !.h[l].bag[k] = @ + 1, !.num = @ + 1]

Init ==
  /\ dups \in BOOLEAN
  /\ tree \in {EmptyTree} \cup {BulkLoad(l[1], l[2]) : l \in BulkLoads}

Become(t) == tree' = [t EXCEPT !.h = Renumbered(@)] /\ UNCHANGED dups

\* The leaf takes the key, possibly after it has been expanded and retrained.
Insert(k, expand) ==
  /\ tree.num < MaxSize
  /\ expand => MayExpand(tree, k)
  /\ \E t \in {Prepared(tree, k, expand)} : \E l \in {GetLeaf(t.h, k)} :
       /\ Sum(t.h[l].bag) < MaxLeafKeys
       /\ Become(Added(t, l, k))

\* The leaf is full and refuses: it is split, and its successor, which is never
\* full, takes the key.
InsertAndSplit(k, expand, levels) ==
  /\ tree.num < MaxSize
  /\ expand => MayExpand(tree, k)
  /\ \E t \in {Prepared(tree, k, expand)} :
       /\ \E bag \in {t.h[GetLeaf(t.h, k)].bag} :
            /\ bag # NoKeys
            /\ Sum(bag) >= MaxLeafKeys => levels = <<1, 1>>
       /\ \E m \in {ParentOf(t.h, k)} :
          \E d \in {IF m = superroot THEN NewDomain(t) ELSE t} :
            /\ CanSplit(d.h, m, k, levels)
            /\ \E s \in {Split(d.h, m, k, levels)} : \E nd \in {s[2][s[1]]} :
                 Become(Added([d EXCEPT !.h = s[2]], nd.kids[Bucket(nd, k)], k))

\* n keys equal to k leave leaf l, which is merged if nothing is left in it.
Removed(l, k, n) ==
  LET Kept(h) == IF h[l].bag = NoKeys THEN Merge(h, l, k) ELSE h
  IN [tree EXCEPT !.h = Kept([@ EXCEPT ![l].bag[k] = @ - n]), !.num = @ - n]

EraseOne(k) ==
  \E l \in {GetLeaf(tree.h, k)} : Become(Removed(l, k, Min({1, tree.h[l].bag[k]})))

Erase(k) ==
  \E l \in {GetLeaf(tree.h, k)} : Become(Removed(l, k, tree.h[l].bag[k]))

\* clear leaves the statistics of the key domain as they are.
Clear == Become([tree EXCEPT !.h = EmptyTree.h, !.num = 0])

Next ==
  \/ \E k \in Keys : EraseOne(k) \/ Erase(k)
  \/ \E k \in Keys, expand \in BOOLEAN :
       \/ Insert(k, expand)
       \/ \E levels \in FanoutTrees(SplitDepth) \ {<<0>>} : InsertAndSplit(k, expand, levels)
  \/ Clear

Spec == Init /\ [][Next]_<<tree, dups>>

----------------------------------------------------------------------------
\* How often each key is stored.
Contents ==
  LET ls == Leaves(tree.h)
  IN [k \in Keys |-> MapThenSumSet(LAMBDA i : tree.h[ls[i]].bag[k], DOMAIN ls)]

\* validate_structure after every operation: a model node has a power of two
\* of children, at least two different ones, and 2^dup aligned pointers to
\* each; the data nodes are linked from left to right, without one that was
\* deleted; and the size is the number of keys.
Valid ==
  LET h == tree.h
      ns == NodesFrom(h, Root(h))
  IN /\ \A i \in DOMAIN ns :
          LET nd == h[ns[i]]
          IN nd.kind = "model" =>
               /\ Fanout(nd) \in {2 ^ e : e \in 1 .. Fanout(nd)}
               /\ \E b \in DOMAIN nd.kids : nd.kids[b] # nd.kids[0]
               /\ \A b, c \in DOMAIN nd.kids :
                    LET dup == h[nd.kids[b]].dup
                    IN nd.kids[b] = nd.kids[c] <=> FirstBucket(b, dup) = FirstBucket(c, dup)
     /\ Linked(h) = h
     /\ Sum(Contents) = tree.num

\* Every key is in the leaf that a lookup of it reaches: splits in all
\* directions, the expansion of the root and merges move no key away from its
\* route, and no route away from its key.
RoutingSound ==
  LET ls == Leaves(tree.h)
  IN \A i \in DOMAIN ls : \A k \in Held(tree.h[ls[i]].bag) : GetLeaf(tree.h, k) = ls[i]

\* Mutant of IterateFrom: the iterator does not skip empty leaves.
IterateOnce(h, a, v) ==
  LET First(b) == Min({k \in Held(h[b].bag) : k >= v} \cup {TMax + 1})
  IN IF a = 0 THEN TMax + 1
     ELSE IF First(a) <= TMax \/ h[a].next = 0 THEN First(a) ELSE First(h[a].next)

\* Iteration from a leaf: the first key from v on in it or after it, along the
\* links.
RECURSIVE IterateFrom(_, _, _)
IterateFrom(h, a, v) ==
  IF a = 0 THEN TMax + 1
  ELSE LET ks == {k \in Held(h[a].bag) : k >= v}
       IN IF ks # {} THEN Min(ks) ELSE IterateFrom(h, h[a].next, v)

LowerBound(h, k) == IterateFrom(h, GetLeaf(h, k), k)
UpperBound(h, k) == IterateFrom(h, GetLeaf(h, k), k + 1)

\* The last key of the leaf, or of the leaf before it; an iterator to an empty
\* leaf is an iterator to the key after it.
FindLastNoGreaterThan(h, k) ==
  LET l == GetLeaf(h, k)
      ks == {x \in Held(h[l].bag) : x <= k}
      p == h[l].prev
  IN IF ks # {} THEN Max(ks)
     ELSE IF p # 0 /\ h[p].bag # NoKeys THEN Max(Held(h[p].bag))
     ELSE IterateFrom(h, IF p = 0 THEN l ELSE p, 0)

\* lower_bound and upper_bound find the keys a search of the whole index finds,
\* also when the leaf they reach has no such key and the leaves after it are
\* empty.
LookupsAgree ==
  LET all == Held(Contents)
  IN \A k \in Keys :
       /\ LowerBound(tree.h, k) = Min({x \in all : x >= k} \cup {TMax + 1})
       /\ UpperBound(tree.h, k) = Min({x \in all : x > k} \cup {TMax + 1})

\* "Looks for the last key no greater than the input value" (alex.h:992).
FindLastAgrees ==
  LET all == Held(Contents)
  IN \A k \in Keys :
       (\E x \in all : x <= k) =>
         FindLastNoGreaterThan(tree.h, k) = Max({x \in all : x <= k})

\* "Return left-most data node" (alex.h:539): the pointers that first_data_node
\* follows have been written.
LeftmostInitialised ==
  \A a \in DOMAIN tree.h : tree.h[a].kind = "model" => tree.h[a].kids[0] # 0

Bag == INSTANCE KeyBag WITH bag <- Contents

\* Every operation changes the keys stored as the operation on a bag of keys
\* does; splitting, merging and expanding the root change none.
ImplementsBag == Bag!Spec
=============================================================================
