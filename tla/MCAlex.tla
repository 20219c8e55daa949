------------------------------- MODULE MCAlex -------------------------------
(***************************************************************************)
(* The data node and the tree of ALEX in one run: a behaviour is one of the *)
(* data node's or one of the tree's.                                        *)
(***************************************************************************)
EXTENDS Integers, FiniteSets, Sequences

CONSTANTS UniqueKeys, DupKeys, W, max_slots_, MaxKeys, Keys, TMax, Scale,
          MaxNodes, MaxSize, MaxLeafKeys, max_fanout, SplitDepth

VARIABLES which, node, tree, dups
vars == <<which, node, tree, dups>>

\* Keys close together, far apart, and all predicted in the same place.
Models == {<<1, 1, -1>>, <<2, 1, 0>>, <<0, 1, 3>>}
Loads == {<< >>, <<1, 2, 3>>, <<1, 1, 2>>}

\* Two ways to bulk load: the second makes a tree of three levels.
LeafAt(level) == <<level, << >>>>
Nth(i) == CHOOSE k \in Keys : Cardinality({x \in Keys : x <= k}) = i
Once(S) == [k \in Keys |-> IF k \in S THEN 1 ELSE 0]
BulkLoads ==
  {<<Once({Nth(2), Nth(3)}), <<LeafAt(1), LeafAt(1)>>>>,
   <<Once({Nth(1), Nth(2), Nth(3)}),
     <<LeafAt(2), LeafAt(2), <<1, <<LeafAt(1), LeafAt(1)>>>>>>>>}

N == INSTANCE AlexDataNode
T == INSTANCE AlexTree

Init ==
  \/ which = "node" /\ N!Init /\ tree = T!EmptyTree
  \/ which = "tree" /\ T!Init /\ node = N!EmptyNode

NodeStep == which = "node" /\ N!Next /\ UNCHANGED <<which, tree>>
TreeStep == which = "tree" /\ T!Next /\ UNCHANGED <<which, node>>
Next == NodeStep \/ TreeStep

Spec == Init /\ [][Next]_vars

----------------------------------------------------------------------------
\* AlexDataNode: validate_structure of the gapped array.
NodeValid == which = "node" => N!Valid
\* AlexDataNode: the lookups find what a scan finds, for every prediction, and so
\* do closest_gap and num_keys_in_range on the words of the bitmap.
NodeLookupsAgree == which = "node" => N!LookupsAgree /\ N!BitmapAgrees
\* AlexTree: validate_structure of the model nodes and the links, and every key is
\* in the leaf that its lookup reaches.
TreeValid == which = "tree" => T!Valid /\ T!RoutingSound
\* AlexTree: lower_bound and upper_bound find the next key of the whole index.
TreeLookupsAgree == which = "tree" => T!LookupsAgree

\* Both: every step changes the stored keys as a bag of keys changes.
ImplementBags == N!ImplementsBag /\ T!ImplementsBag

\* What two comments of alex.h say of the tree; TLC refutes both.
FindLastClaim == which = "tree" => T!FindLastAgrees
LeftmostClaim == which = "tree" => T!LeftmostInitialised
=============================================================================
