----------------------------- MODULE BTreeNode -----------------------------
(***************************************************************************)
(* The node operations and the iterators of src/drtmr/btree/btree.h, the   *)
(* ordered map behind the DrTM-R server's B-tree mode.  The heap N maps a   *)
(* node's address to its fields: whether it is a leaf, its position in its *)
(* parent, its parent, the capacity it was allocated with, its values and  *)
(* its children.  Positions count from 0 as in the code, so value i is     *)
(* vals[i + 1] and child i is kids[i + 1].  A value is its key: the mapped *)
(* data never influences a step.                                           *)
(***************************************************************************)
EXTENDS Integers, Sequences, SequencesExt, FiniteSetsExt

CONSTANTS kNodeValues,  \* values per node, computed from the node's size
          MaxNodes      \* bound: addresses in the heap

ASSUME NodeValuesAssumption == kNodeValues \in Nat /\ kNodeValues >= 3

kMinNodeValues == kNodeValues \div 2
NULL == 0

Count(N, n) == Len(N[n].vals)
Child(N, n, i) == N[n].kids[i + 1]
Iter(n, p) == [node |-> n, pos |-> p]
Key(N, it) == N[it.node].vals[it.pos + 1]

\* The parent of the root is the leftmost leaf.
IsRoot(N, n) == N[N[n].parent].leaf

NewNode(leaf, parent, max) ==
  [leaf |-> leaf, pos |-> 0, parent |-> parent, max |-> max,
   vals |-> << >>, kids |-> << >>]

Unused == NewNode(TRUE, NULL, 0)
Allocated(N) == {n \in 1 .. MaxNodes : N[n] # Unused}

\* malloc: any unused address would do.
FreshAddress(N) == Min({n \in 1 .. MaxNodes : N[n] = Unused})

Allocate(N, n, node) == [N EXCEPT ![n] = node]
Free(N, n) == [N EXCEPT ![n] = Unused]

\* set_child for every child of p.
SetChildren(N, p, kids) ==
  [m \in 1 .. MaxNodes |->
     IF m = p THEN [N[m] EXCEPT !.kids = kids]
     ELSE IF Contains(kids, m)
          THEN [N[m] EXCEPT !.parent = p,
                            !.pos = (CHOOSE i \in DOMAIN kids : kids[i] = m) - 1]
     ELSE N[m]]

\* The first position whose key is not less than, or is greater than, k.
LowerPos(N, n, k) ==
  Min({i \in 0 .. Count(N, n) : i = Count(N, n) \/ ~(N[n].vals[i + 1] < k)})
UpperPos(N, n, k) ==
  Min({i \in 0 .. Count(N, n) : i = Count(N, n) \/ k < N[n].vals[i + 1]})

InsertValue(N, n, i, x) ==
  [N EXCEPT ![n].vals = InsertAt(@, i + 1, x)]

\* On an internal node, the child right of the value goes with it and the
\* later children move down one position.
RemoveValue(N, n, i) ==
  LET vals == RemoveAt(N[n].vals, i + 1)
      M    == [N EXCEPT ![n].vals = vals]
  IN IF N[n].leaf THEN M ELSE SetChildren(M, n, RemoveAt(N[n].kids, i + 2))

\* dest and src are neighbours; move values from src, the right one.
RebalanceRightToLeft(N, dest, src, move) ==
  LET p     == N[dest].parent
      delim == N[dest].pos + 1
      M     == [N EXCEPT
                  ![dest].vals = @ \o <<N[p].vals[delim]>>
                                   \o SubSeq(N[src].vals, 1, move - 1),
                  ![p].vals[delim] = N[src].vals[move],
                  ![src].vals = SubSeq(@, move + 1, Len(@))]
      kids  == N[src].kids
  IN IF N[dest].leaf THEN M
     ELSE SetChildren(
            SetChildren(M, dest, N[dest].kids \o SubSeq(kids, 1, move)),
            src, SubSeq(kids, move + 1, Len(kids)))

\* Mutant: the children of an internal node keep their old parent.
RebalanceLeftToRightOrphans(N, src, dest, move) ==
  LET p     == N[src].parent
      delim == N[src].pos + 1
      keep  == Count(N, src) - move
      kids  == N[src].kids
  IN [N EXCEPT
        ![dest].vals = SubSeq(N[src].vals, keep + 2, Len(N[src].vals))
                         \o <<N[p].vals[delim]>> \o @,
        ![p].vals[delim] = N[src].vals[keep + 1],
        ![src].vals = SubSeq(@, 1, keep),
        ![dest].kids = SubSeq(kids, keep + 2, Len(kids)) \o @,
        ![src].kids = SubSeq(kids, 1, Len(kids) - move)]

RebalanceLeftToRight(N, src, dest, move) ==
  LET p     == N[src].parent
      delim == N[src].pos + 1
      keep  == Count(N, src) - move
      M     == [N EXCEPT
                  ![dest].vals = SubSeq(N[src].vals, keep + 2, Len(N[src].vals))
                                   \o <<N[p].vals[delim]>> \o @,
                  ![p].vals[delim] = N[src].vals[keep + 1],
                  ![src].vals = SubSeq(@, 1, keep)]
      kids  == N[src].kids
  IN IF N[src].leaf THEN M
     ELSE SetChildren(
            SetChildren(M, dest, SubSeq(kids, keep + 2, Len(kids)) \o N[dest].kids),
            src, SubSeq(kids, 1, keep + 1))

\* How many values a split moves right, biased by where the insertion goes.
SplitCount(N, n, at) ==
  CASE at = 0        -> Count(N, n) - 1
    [] at = N[n].max -> 0
    [] OTHER         -> Count(N, n) \div 2

\* The largest value left over becomes the delimiter in the parent.
Split(N, n, dest, at) ==
  LET up   == Count(N, n) - SplitCount(N, n, at)
      vals == N[n].vals
      kids == N[n].kids
      p    == N[n].parent
      M    == [InsertValue(N, p, N[n].pos, vals[up]) EXCEPT
                 ![n].vals = SubSeq(vals, 1, up - 1),
                 ![dest].vals = SubSeq(vals, up + 1, Len(vals))]
      L    == SetChildren(M, p, InsertAt(N[p].kids, N[n].pos + 2, dest))
  IN IF N[n].leaf THEN L
     ELSE SetChildren([L EXCEPT ![n].kids = SubSeq(kids, 1, up)],
                      dest, SubSeq(kids, up + 1, Len(kids)))

Merge(N, n, src) ==
  LET p    == N[n].parent
      vals == N[n].vals \o <<N[p].vals[N[n].pos + 1]>> \o N[src].vals
      M    == [N EXCEPT ![n].vals = vals, ![src].vals = << >>, ![src].kids = << >>]
      L    == IF N[n].leaf THEN M ELSE SetChildren(M, n, N[n].kids \o N[src].kids)
  IN RemoveValue(L, p, N[n].pos)

\* Exchange values and children; the children change parent, not position.
Swap(N, n, x) ==
  LET M == [N EXCEPT ![n].vals = N[x].vals, ![x].vals = N[n].vals,
                     ![n].kids = N[x].kids, ![x].kids = N[n].kids]
  IN [m \in 1 .. MaxNodes |->
        IF Contains(M[n].kids, m) THEN [M[m] EXCEPT !.parent = n]
        ELSE IF Contains(M[x].kids, m) THEN [M[m] EXCEPT !.parent = x]
        ELSE M[m]]

----------------------------------------------------------------------------
RECURSIVE ClimbRight(_, _), ClimbLeft(_, _), FirstLeaf(_, _), LastLeaf(_, _)
ClimbRight(N, it) ==
  IF it.pos = Count(N, it.node) /\ ~IsRoot(N, it.node)
  THEN ClimbRight(N, Iter(N[it.node].parent, N[it.node].pos)) ELSE it
ClimbLeft(N, it) ==
  IF it.pos < 0 /\ ~IsRoot(N, it.node)
  THEN ClimbLeft(N, Iter(N[it.node].parent, N[it.node].pos - 1)) ELSE it
FirstLeaf(N, n) == IF N[n].leaf THEN n ELSE FirstLeaf(N, Child(N, n, 0))
LastLeaf(N, n) == IF N[n].leaf THEN n ELSE LastLeaf(N, Child(N, n, Count(N, n)))

\* Mutant: leaving an internal value, step to its child instead of that
\* child's first leaf.
IncrementSlowNoDescent(N, it) ==
  IF N[it.node].leaf
  THEN LET up == ClimbRight(N, it)
       IN IF up.pos = Count(N, up.node) THEN it ELSE up
  ELSE Iter(Child(N, it.node, it.pos + 1), 0)

IncrementSlow(N, it) ==
  IF N[it.node].leaf
  THEN LET up == ClimbRight(N, it)
       IN IF up.pos = Count(N, up.node) THEN it ELSE up
  ELSE Iter(FirstLeaf(N, Child(N, it.node, it.pos + 1)), 0)

Increment(N, it) ==
  LET next == IF N[it.node].leaf THEN Iter(it.node, it.pos + 1) ELSE it
  IN IF N[it.node].leaf /\ next.pos < Count(N, it.node) THEN next
     ELSE IncrementSlow(N, next)

DecrementSlow(N, it) ==
  IF N[it.node].leaf
  THEN LET up == ClimbLeft(N, it) IN IF up.pos < 0 THEN it ELSE up
  ELSE LET n == LastLeaf(N, Child(N, it.node, it.pos)) IN Iter(n, Count(N, n) - 1)

Decrement(N, it) ==
  LET prev == IF N[it.node].leaf THEN Iter(it.node, it.pos - 1) ELSE it
  IN IF N[it.node].leaf /\ prev.pos >= 0 THEN prev ELSE DecrementSlow(N, prev)

\* increment_by: whole leaves at a time.
RECURSIVE IncrementBy(_, _, _)
IncrementBy(N, it, count) ==
  IF count <= 0 THEN it
  ELSE IF N[it.node].leaf
       THEN LET rest == Count(N, it.node) - it.pos
                at   == Iter(it.node, it.pos + Min({rest, count}))
            IN IF at.pos < Count(N, it.node) THEN at
               ELSE IncrementBy(N, IncrementSlow(N, at), count - rest)
       ELSE IncrementBy(N, IncrementSlow(N, it), count - 1)
============================================================================
