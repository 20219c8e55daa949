------------------------------- MODULE BTree -------------------------------
(***************************************************************************)
(* The B-tree of src/drtmr/btree/btree.h and the containers over it.  A     *)
(* tree is its heap of nodes, its root and the two fields kept in an        *)
(* internal root, rightmost and size; the leftmost leaf is the parent of    *)
(* the root.  multi selects insert_multi/erase_multi (btree_multi_container)*)
(* or insert_unique/erase_unique (btree_unique_container).                  *)
(***************************************************************************)
EXTENDS BTreeNode

CONSTANTS UniqueKeys,   \* keys used with a unique container
          MultiKeys,    \* keys used with a multi container
          MaxSize       \* bound: values in a multi container

VARIABLES tree, multi

Keys == IF multi THEN MultiKeys ELSE UniqueKeys

Empty == [nodes |-> [n \in 1 .. MaxNodes |-> Unused], root |-> NULL, rightmost |-> NULL, size |-> 0]

RootIsLeaf(T) == T.nodes[T.root].leaf
Leftmost(T) == IF T.root = NULL THEN NULL ELSE T.nodes[T.root].parent
Rightmost(T) == IF T.root = NULL \/ RootIsLeaf(T) THEN T.root ELSE T.rightmost
Size(T) ==
  CASE T.root = NULL -> 0
    [] T.root # NULL /\ RootIsLeaf(T) -> Count(T.nodes, T.root)
    [] OTHER -> T.size

Begin(T) == Iter(Leftmost(T), 0)
End(T) ==
  Iter(Rightmost(T), IF T.root = NULL THEN 0 ELSE Count(T.nodes, Rightmost(T)))
InternalEnd(T, it) == IF it.node = NULL THEN End(T) ELSE it

\* Move up to a position that holds a value; NULL past the last one.
RECURSIVE InternalLast(_, _)
InternalLast(N, it) ==
  IF it.node # NULL /\ it.pos = Count(N, it.node)
  THEN IF N[N[it.node].parent].leaf THEN Iter(NULL, N[it.node].pos)
       ELSE InternalLast(N, Iter(N[it.node].parent, N[it.node].pos))
  ELSE it

RECURSIVE Locate(_, _, _), LocateUpper(_, _, _)
Locate(N, n, k) ==
  LET p == LowerPos(N, n, k)
  IN IF N[n].leaf THEN Iter(n, p) ELSE Locate(N, Child(N, n, p), k)
LocateUpper(N, n, k) ==
  LET p == UpperPos(N, n, k)
  IN IF N[n].leaf THEN Iter(n, p) ELSE LocateUpper(N, Child(N, n, p), k)

InternalLowerBound(T, k) ==
  IF T.root = NULL THEN Iter(NULL, 0)
  ELSE InternalLast(T.nodes, Locate(T.nodes, T.root, k))
InternalUpperBound(T, k) ==
  IF T.root = NULL THEN Iter(NULL, 0)
  ELSE InternalLast(T.nodes, LocateUpper(T.nodes, T.root, k))
LowerBound(T, k) == InternalEnd(T, InternalLowerBound(T, k))
UpperBound(T, k) == InternalEnd(T, InternalUpperBound(T, k))

\* internal_find_unique and internal_find_multi reach the same position.
InternalFind(T, k) ==
  LET it == InternalLowerBound(T, k)
  IN IF it.node # NULL /\ ~(k < Key(T.nodes, it)) THEN it ELSE Iter(NULL, 0)
Find(T, k) == InternalEnd(T, InternalFind(T, k))

RECURSIVE Distance(_, _, _)
Distance(T, from, to) ==
  IF from = to THEN 0 ELSE 1 + Distance(T, Increment(T.nodes, from), to)
CountUnique(T, k) == IF InternalFind(T, k).node = NULL THEN 0 ELSE 1
CountMulti(T, k) == Distance(T, LowerBound(T, k), UpperBound(T, k))

----------------------------------------------------------------------------
\* new_leaf_root_node: a leaf that is its own parent.
NewLeafRoot(T, max) ==
  LET n == FreshAddress(T.nodes)
  IN [T EXCEPT !.nodes = Allocate(T.nodes, n, NewNode(TRUE, n, max)), !.root = n]

Grown(T) == IF T.root = NULL THEN NewLeafRoot(T, 1) ELSE T

\* A leaf root that splits gets a parent that starts with its count as size.
GrowLeafRoot(T) ==
  LET n    == FreshAddress(T.nodes)
      left == T.nodes[T.root].parent
      N    == Allocate(T.nodes, n, NewNode(FALSE, left, kNodeValues))
  IN [nodes |-> SetChildren(N, n, <<T.root>>), root |-> n, rightmost |-> left,
      size |-> Count(N, left)]

\* An internal root keeps its address: its contents move to a new child.
PushDownRoot(T, n) ==
  LET N == Allocate(T.nodes, n, NewNode(FALSE, T.nodes[T.root].parent, kNodeValues))
  IN [T EXCEPT !.nodes = Swap(SetChildren(N, n, <<n>>), n, T.root)]

SplitAt(T, it) ==
  LET n    == it.node
      dest == FreshAddress(T.nodes)
      leaf == T.nodes[n].leaf
      Result(N) ==
        [t  |-> [T EXCEPT !.nodes = N,
                          !.rightmost = IF leaf /\ T.rightmost = n THEN dest ELSE @],
         it |-> IF it.pos > Count(N, n) THEN Iter(dest, it.pos - Count(N, n) - 1) ELSE it]
  IN Result(Split(Allocate(T.nodes, dest, NewNode(leaf, NULL, kNodeValues)),
                  n, dest, it.pos))

\* How many values to push to a neighbour with room: all of it when the
\* insertion is at the far end of the node, half of it otherwise.
ToMove(room, far) == Max({1, IF far THEN room ELSE room \div 2})

LeftMove(N, left, at) == ToMove(N[left].max - Count(N, left), ~(at < N[left].max))
RightMove(N, right, at) == ToMove(N[right].max - Count(N, right), ~(at > 0))

CanMoveLeft(T, it) ==
  LET N    == T.nodes
      left == Child(N, N[it.node].parent, N[it.node].pos - 1)
      move == LeftMove(N, left, it.pos)
  IN /\ it.node # T.root
     /\ N[it.node].pos > 0
     /\ Count(N, left) < N[left].max
     /\ it.pos - move >= 0 \/ Count(N, left) + move < N[left].max

CanMoveRight(T, it) ==
  LET N     == T.nodes
      right == Child(N, N[it.node].parent, N[it.node].pos + 1)
      move  == RightMove(N, right, it.pos)
  IN /\ it.node # T.root
     /\ N[it.node].pos < Count(N, N[it.node].parent)
     /\ Count(N, right) < N[right].max
     /\ it.pos <= Count(N, it.node) - move \/ Count(N, right) + move < N[right].max

MoveLeft(T, it) ==
  LET left == Child(T.nodes, T.nodes[it.node].parent, T.nodes[it.node].pos - 1)
      move == LeftMove(T.nodes, left, it.pos)
      at   == it.pos - move
      Result(N) ==
        [t  |-> [T EXCEPT !.nodes = N],
         it |-> IF at < 0 THEN Iter(left, at + Count(N, left) + 1) ELSE Iter(it.node, at)]
  IN Result(RebalanceRightToLeft(T.nodes, left, it.node, move))

MoveRight(T, it) ==
  LET right == Child(T.nodes, T.nodes[it.node].parent, T.nodes[it.node].pos + 1)
      Result(N) ==
        [t  |-> [T EXCEPT !.nodes = N],
         it |-> IF it.pos > Count(N, it.node)
                THEN Iter(right, it.pos - Count(N, it.node) - 1) ELSE it]
  IN Result(RebalanceLeftToRight(T.nodes, it.node, right,
                                 RightMove(T.nodes, right, it.pos)))

RECURSIVE RebalanceOrSplit(_, _)
RebalanceOrSplit(T, it) ==
  LET p == T.nodes[it.node].parent
      n == FreshAddress(T.nodes)
  IN IF CanMoveLeft(T, it) THEN MoveLeft(T, it)
     ELSE IF CanMoveRight(T, it) THEN MoveRight(T, it)
     ELSE IF it.node # T.root
     THEN IF Count(T.nodes, p) = T.nodes[p].max
          THEN SplitAt(RebalanceOrSplit(T, Iter(p, T.nodes[it.node].pos)).t, it)
          ELSE SplitAt(T, it)
     ELSE IF RootIsLeaf(T) THEN SplitAt(GrowLeafRoot(T), it)
     ELSE SplitAt(PushDownRoot(T, n), Iter(n, it.pos))

\* A root leaf smaller than a full node is replaced by one twice its size.
EnlargeRoot(T) ==
  LET old == T.root
      U   == NewLeafRoot(T, Min({kNodeValues, 2 * T.nodes[old].max}))
  IN [U EXCEPT !.nodes = Free(Swap(@, U.root, old), old)]

\* A leaf position before the same value: after its predecessor.
InLeaf(N, at) ==
  LET After(prev) == Iter(prev.node, prev.pos + 1)
  IN IF N[at.node].leaf THEN at ELSE After(Decrement(N, at))

InternalInsert(T, at, k) ==
  LET Enlarged(U, it) == [t |-> U, it |-> Iter(U.root, it.pos)]
      Room(it) ==
        IF Count(T.nodes, it.node) # T.nodes[it.node].max
        THEN [t |-> [T EXCEPT !.size = IF RootIsLeaf(T) THEN @ ELSE @ + 1], it |-> it]
        ELSE IF T.nodes[it.node].max < kNodeValues THEN Enlarged(EnlargeRoot(T), it)
        ELSE [RebalanceOrSplit(T, it) EXCEPT !.t.size = @ + 1]
      Put(r) == [r EXCEPT !.t.nodes = InsertValue(@, r.it.node, r.it.pos, k)]
  IN Put(Room(InLeaf(T.nodes, at)))

----------------------------------------------------------------------------
\* The insertions return the new tree, an iterator and whether k was added.
InsertUnique(T, k) ==
  LET In(U, it, last) ==
        IF last.node # NULL /\ ~(k < Key(U.nodes, last))
        THEN [t |-> U, it |-> last, new |-> FALSE]
        ELSE InternalInsert(U, it, k) @@ [new |-> TRUE]
      At(U, it) == In(U, it, InternalLast(U.nodes, it))
      Start(U) == At(U, Locate(U.nodes, U.root, k))
  IN Start(Grown(T))

InsertUniqueHint(T, at, k) ==
  LET N      == T.nodes
      next   == Increment(N, at)
      before == at = End(T) \/ k < Key(N, at)
      here   == before /\ (at = Begin(T) \/ Key(N, Decrement(N, at)) < k)
      after  == ~before /\ Key(N, at) < k /\ (next = End(T) \/ k < Key(N, next))
  IN IF T.root # NULL /\ (here \/ after)
     THEN InternalInsert(T, IF here THEN at ELSE next, k) @@ [new |-> TRUE]
     ELSE IF T.root # NULL /\ ~before /\ ~(Key(N, at) < k)
     THEN [t |-> T, it |-> at, new |-> FALSE]
     ELSE InsertUnique(T, k)

InsertMulti(T, k) ==
  LET In(U) == InternalInsert(U, UpperBound(U, k), k) IN In(Grown(T))

InsertMultiHint(T, at, k) ==
  LET N      == T.nodes
      next   == Increment(N, at)
      before == at = End(T) \/ ~(Key(N, at) < k)
      here   == before /\ (at = Begin(T) \/ ~(k < Key(N, Decrement(N, at))))
      after  == ~before /\ (next = End(T) \/ ~(Key(N, next) < k))
  IN IF T.root # NULL /\ (here \/ after)
     THEN InternalInsert(T, IF here THEN at ELSE next, k)
     ELSE InsertMulti(T, k)

\* assign: append another tree's values in order.
RECURSIVE AppendAll(_, _)
AppendAll(T, s) ==
  IF s = << >> THEN T
  ELSE AppendAll(IF T.root = NULL THEN InsertMulti(T, Head(s)).t
                 ELSE InternalInsert(T, End(T), Head(s)).t, Tail(s))

----------------------------------------------------------------------------
MergeNodes(T, left, right) ==
  [T EXCEPT !.nodes = Free(Merge(T.nodes, left, right), right),
            !.rightmost = IF T.nodes[right].leaf /\ @ = right THEN left ELSE @]

TryMergeOrRebalance(T, it) ==
  LET N       == T.nodes
      n       == it.node
      p       == N[n].parent
      c       == Count(N, n)
      hasL    == N[n].pos > 0
      hasR    == N[n].pos < Count(N, p)
      left    == Child(N, p, N[n].pos - 1)
      right   == Child(N, p, N[n].pos + 1)
      fromR   == Min({(Count(N, right) - c) \div 2, Count(N, right) - 1})
      fromL   == Min({(Count(N, left) - c) \div 2, Count(N, left) - 1})
  IN IF hasL /\ 1 + Count(N, left) + c <= N[left].max
     THEN [t |-> MergeNodes(T, left, n), merged |-> TRUE,
           it |-> Iter(left, it.pos + 1 + Count(N, left))]
     ELSE IF hasR /\ 1 + c + Count(N, right) <= N[right].max
     THEN [t |-> MergeNodes(T, n, right), merged |-> TRUE, it |-> it]
     ELSE IF hasR /\ Count(N, right) > kMinNodeValues /\ (c = 0 \/ it.pos > 0)
     THEN [t |-> [T EXCEPT !.nodes = RebalanceRightToLeft(N, n, right, fromR)],
           merged |-> FALSE, it |-> it]
     ELSE IF hasL /\ Count(N, left) > kMinNodeValues /\ (c = 0 \/ it.pos < c)
     THEN [t |-> [T EXCEPT !.nodes = RebalanceLeftToRight(N, left, n, fromL)],
           merged |-> FALSE, it |-> Iter(n, it.pos + fromL)]
     ELSE [t |-> T, merged |-> FALSE, it |-> it]

\* Mutant: the child whose contents move into the root is not deleted.
TryShrinkLeaks(T) ==
  LET N == T.nodes
      c == Child(N, T.root, 0)
  IN IF Count(N, T.root) > 0 THEN T
     ELSE IF RootIsLeaf(T) THEN [T EXCEPT !.nodes = Free(N, T.root), !.root = NULL]
     ELSE IF N[c].leaf
     THEN [T EXCEPT !.root = c, !.rightmost = NULL, !.size = 0,
                    !.nodes = Free([N EXCEPT ![c].parent = N[T.root].parent], T.root)]
     ELSE [T EXCEPT !.nodes = Swap(N, c, T.root)]

TryShrink(T) ==
  LET N == T.nodes
      c == Child(N, T.root, 0)
  IN IF Count(N, T.root) > 0 THEN T
     ELSE IF RootIsLeaf(T) THEN [T EXCEPT !.nodes = Free(N, T.root), !.root = NULL]
     ELSE IF N[c].leaf
     THEN [T EXCEPT !.root = c, !.rightmost = NULL, !.size = 0,
                    !.nodes = Free([N EXCEPT ![c].parent = N[T.root].parent], T.root)]
     ELSE [T EXCEPT !.nodes = Free(Swap(N, c, T.root), c)]

\* Walk up from the leaf; res follows the erased position while on a leaf.
RECURSIVE MergeUp(_, _, _)
MergeUp(T, it, res) ==
  IF it.node = T.root THEN [t |-> TryShrink(T), it |-> res]
  ELSE IF Count(T.nodes, it.node) >= kMinNodeValues THEN [t |-> T, it |-> res]
  ELSE LET Here(r) == IF r.t.nodes[r.it.node].leaf THEN r.it ELSE res
           On(r) ==
             IF r.merged
             THEN MergeUp(r.t, Iter(r.t.nodes[r.it.node].parent, r.it.pos), Here(r))
             ELSE [t |-> r.t, it |-> Here(r)]
       IN On(TryMergeOrRebalance(T, it))

EraseAt(T, at) ==
  LET inner == ~T.nodes[at.node].leaf
      \* the value of an internal node trades places with its predecessor
      Traded(it) ==
        IF inner
        THEN [T.nodes EXCEPT ![at.node].vals[at.pos + 1] = Key(T.nodes, it),
                             ![it.node].vals[it.pos + 1] = Key(T.nodes, at)]
        ELSE T.nodes
      Without(it) ==
        MergeUp([T EXCEPT !.nodes = RemoveValue(Traded(it), it.node, it.pos),
                          !.size = IF RootIsLeaf(T) THEN @ ELSE @ - 1], it, it)
      Next1(M, it) ==
        IF it.pos = Count(M, it.node) THEN Increment(M, Iter(it.node, Count(M, it.node) - 1))
        ELSE it
      Result(up) ==
        [t  |-> up.t,
         it |-> IF up.t.root = NULL THEN End(up.t)
                ELSE IF inner THEN Increment(up.t.nodes, Next1(up.t.nodes, up.it))
                ELSE Next1(up.t.nodes, up.it)]
  IN Result(Without(IF inner THEN Decrement(T.nodes, at) ELSE at))

RECURSIVE EraseTimes(_, _, _)
EraseTimes(T, it, n) ==
  LET On(r) == EraseTimes(r.t, r.it, n - 1) IN IF n = 0 THEN T ELSE On(EraseAt(T, it))
EraseRange(T, from, to) == EraseTimes(T, from, Distance(T, from, to))

EraseUnique(T, k) ==
  LET it == InternalFind(T, k) IN IF it.node = NULL THEN T ELSE EraseAt(T, it).t
EraseMulti(T, k) ==
  LET it == InternalLowerBound(T, k)
  IN IF it.node = NULL THEN T ELSE EraseRange(T, it, UpperBound(T, k))

----------------------------------------------------------------------------
\* The iterators of T from begin() to the last value, by in-order traversal.
RECURSIVE ItersFrom(_, _, _)
ItersFrom(N, n, i) ==
  IF N[n].leaf THEN [j \in 1 .. Count(N, n) |-> Iter(n, j - 1)]
  ELSE ItersFrom(N, Child(N, n, i), 0) \o
       IF i < Count(N, n) THEN <<Iter(n, i)>> \o ItersFrom(N, n, i + 1) ELSE << >>
Iters(T) == IF T.root = NULL THEN << >> ELSE ItersFrom(T.nodes, T.root, 0)
Values(T) == LET its == Iters(T) IN [i \in DOMAIN its |-> Key(T.nodes, its[i])]
Places(T) == Append(Iters(T), End(T))
Index(T, it) == LET its == Places(T) IN SelectInSeq(its, LAMBDA x : x = it)

\* Addresses carry no meaning: after an operation the nodes are renumbered in
\* preorder, nodes outside the tree (there should be none) coming last.
RECURSIVE Preorder(_, _)
Preorder(N, n) ==
  <<n>> \o FlattenSeq([i \in DOMAIN N[n].kids |-> Preorder(N, N[n].kids[i])])
Renumbered(T) ==
  LET in  == IF T.root = NULL THEN << >> ELSE Preorder(T.nodes, T.root)
      ord == in \o SetToSeq(Allocated(T.nodes) \ ToSet(in))
      New(n) == SelectInSeq(ord, LAMBDA m : m = n)
      Node(n) == [n EXCEPT !.parent = New(@), !.kids = [j \in DOMAIN @ |-> New(@[j])]]
  IN [T EXCEPT !.root = New(@), !.rightmost = New(@),
               !.nodes = [i \in 1 .. MaxNodes |->
                            IF i \in DOMAIN ord THEN Node(T.nodes[ord[i]]) ELSE Unused]]

Init == tree = Empty /\ multi \in BOOLEAN

Insert(k) ==
  /\ multi => Size(tree) < MaxSize
  /\ tree' = Renumbered(IF multi THEN InsertMulti(tree, k).t
                                 ELSE InsertUnique(tree, k).t)
  /\ UNCHANGED multi

InsertHint(at, k) ==
  /\ multi => Size(tree) < MaxSize
  /\ tree' = Renumbered(IF multi THEN InsertMultiHint(tree, at, k).t
                                 ELSE InsertUniqueHint(tree, at, k).t)
  /\ UNCHANGED multi

EraseKey(k) ==
  /\ tree' = Renumbered(IF multi THEN EraseMulti(tree, k) ELSE EraseUnique(tree, k))
  /\ UNCHANGED multi

Erase(at) ==
  /\ tree' = Renumbered(EraseAt(tree, at).t)
  /\ UNCHANGED multi

Clear == tree' = Empty /\ UNCHANGED multi

\* The copy constructor or assignment, the copy replacing the original.
Assign ==
  /\ tree' = Renumbered(AppendAll(Empty, Values(tree)))
  /\ UNCHANGED multi

Next ==
  \/ \E k \in Keys : Insert(k)
  \/ \E at \in ToSet(Places(tree)), k \in Keys : InsertHint(at, k)
  \/ \E k \in Keys : EraseKey(k)
  \/ \E at \in ToSet(Iters(tree)) : Erase(at)
  \/ Clear
  \/ Assign

Spec == Init /\ [][Next]_<<tree, multi>>
----------------------------------------------------------------------------
Sorted(s) == \A i, j \in DOMAIN s : i < j => s[i] < s[j] \/ (multi /\ s[i] = s[j])

\* internal_verify on one node: filled, in order, and its children point back.
NodeOK(N, n) ==
  /\ Count(N, n) \in 1 .. N[n].max
  /\ N[n].leaf => N[n].kids = << >>
  /\ ~N[n].leaf =>
       /\ Len(N[n].kids) = Count(N, n) + 1
       /\ \A i \in 0 .. Count(N, n) :
            N[Child(N, n, i)].parent = n /\ N[Child(N, n, i)].pos = i

\* The depth of a node: the steps up to the root.
Depths(N, root) ==
  LET depth[n \in Allocated(N)] == IF n = root THEN 0 ELSE depth[N[n].parent] + 1
  IN  depth

\* btree::verify after every operation: each node passes internal_verify, the
\* values read in order are sorted, every node allocated is in the tree (no
\* leak, no node shared by two parents), the leaves are at one depth, and the
\* root's size, leftmost and rightmost fields are right.
Verified ==
  LET N == tree.nodes
      its == Iters(tree)
  IN IF tree.root = NULL THEN Allocated(N) = {} /\ Size(tree) = 0
     ELSE /\ \A n \in Allocated(N) : NodeOK(N, n)
          /\ Sorted(Values(tree))
          /\ {its[i].node : i \in DOMAIN its} = Allocated(N)
          /\ Cardinality(ToSet(its)) = Len(its)
          /\ \A m, n \in {n \in Allocated(N) : N[n].leaf} :
               Depths(N, tree.root)[m] = Depths(N, tree.root)[n]
          /\ Size(tree) = Len(its)
          /\ Leftmost(tree) = FirstLeaf(N, tree.root)
          /\ Rightmost(tree) = LastLeaf(N, tree.root)

\* The tree is what a sorted sequence would be: whatever the shape, inserting
\* a key (at every hint) and erasing at every iterator gives the sequence a
\* sorted list would give, and the iterator returned points to the new value,
\* the value that was in the way, or the value after the erased one.
MutatorsAgree ==
  LET s == Values(tree)
      its == Places(tree)
      UniqueOK(r, k) ==
        /\ r.new <=> ~Contains(s, k)
        /\ Key(r.t.nodes, r.it) = k
        /\ ToSet(Values(r.t)) = ToSet(s) \cup {k}
        /\ Sorted(Values(r.t))
      MultiOK(r, k) ==
        /\ RemoveAt(Values(r.t), Index(r.t, r.it)) = s
        /\ Key(r.t.nodes, r.it) = k
        /\ Sorted(Values(r.t))
      EraseOK(r, i) == Values(r.t) = RemoveAt(s, i) /\ Index(r.t, r.it) = i
  IN /\ \A i \in DOMAIN s : EraseOK(EraseAt(tree, its[i]), i)
     /\ \A k \in Keys :
          IF multi
          THEN /\ MultiOK(InsertMulti(tree, k), k)
               /\ \A i \in DOMAIN its : MultiOK(InsertMultiHint(tree, its[i], k), k)
          ELSE /\ UniqueOK(InsertUnique(tree, k), k)
               /\ \A i \in DOMAIN its : UniqueOK(InsertUniqueHint(tree, its[i], k), k)

\* find, lower_bound, upper_bound and count agree with the sorted sequence;
\* ++ and -- step through it in both directions; increment_by equals repeated ++.
LookupsAgree ==
  LET s  == Values(tree)
      pl == Places(tree)
      Less(k) == Cardinality({i \in DOMAIN s : s[i] < k})
      Upto(k) == Cardinality({i \in DOMAIN s : s[i] <= k})
  IN /\ \A k \in Keys :
          /\ LowerBound(tree, k) = pl[Less(k) + 1]
          /\ UpperBound(tree, k) = pl[Upto(k) + 1]
          /\ Find(tree, k) = IF Contains(s, k) THEN pl[Less(k) + 1] ELSE End(tree)
          /\ (IF multi THEN CountMulti(tree, k) ELSE CountUnique(tree, k))
               = Upto(k) - Less(k)
     /\ Begin(tree) = pl[1]
     /\ \A i \in DOMAIN s :
          /\ Increment(tree.nodes, pl[i]) = pl[i + 1]
          /\ Decrement(tree.nodes, pl[i + 1]) = pl[i]
          /\ \A j \in i .. Len(pl) : IncrementBy(tree.nodes, pl[i], j - i) = pl[j]
============================================================================
