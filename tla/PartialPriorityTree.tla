-------------------------- MODULE PartialPriorityTree --------------------------
(***************************************************************************)
(* The reporting tree of a trigger queue, a lazily sorted tree of ids      *)
(* (agent/pkg/util/partialprioritytree.go).  Insert only appends at the    *)
(* root; PopMin splits nodes that hold too much to sort, and pushes        *)
(* elements down one level at a time; PopNearMax avoids even that.         *)
(*                                                                         *)
(* Ids are 2^Width numbers instead of 2^64, and a leaf is split at LeafMax *)
(* elements instead of 10.  An id is in a tree at most once, as it is for  *)
(* the trigger queues that use the tree.                                   *)
(***************************************************************************)
EXTENDS Integers, Sequences, FiniteSets, FiniteSetsExt, SequencesExt

CONSTANTS Width,   \* bits of an id
          LeafMax, \* elements from which PopMin splits a leaf
          Ids      \* bound: the ids that are inserted

ASSUME TreeAssumption ==
  /\ {Width, LeafMax} \subseteq Nat \ {0}
  /\ Ids \subseteq 0 .. 2 ^ Width - 1

VARIABLE tree \* the root

NoChild == <<>>

initTreeNode(low, high) ==
  [low |-> low, mid |-> low + (high - low) \div 2 + 1, high |-> high,
   elements |-> <<>>, sorted |-> TRUE, size |-> 0,
   left |-> NoChild, right |-> NoChild]

InitPartialPriorityTree == initTreeNode(0, 2 ^ Width - 1)

IsLeaf(n) == n.left = NoChild

InsertKeepsSorted(n, e) ==
  [n EXCEPT !.elements = Append(@, e), !.size = @ + 1]

Insert(n, e) ==
  [n EXCEPT !.elements = Append(@, e), !.sorted = FALSE, !.size = @ + 1]

Expand(n) ==
  [n EXCEPT !.left = initTreeNode(n.low, n.mid - 1),
            !.right = initTreeNode(n.mid, n.high)]

(* Each element goes to the child whose half of the range it is in. *)
distributeElementsToLeaves(n) ==
  LET Part(child, S) == FoldLeft(Insert, child, SelectSeq(n.elements, LAMBDA e : e \in S))
  IN [n EXCEPT !.left = Part(@, n.low .. n.mid - 1), !.right = Part(@, n.mid .. n.high),
               !.elements = <<>>, !.sorted = TRUE]

collapseIfEmpty(n) ==
  IF n.size = 0 THEN [n EXCEPT !.left = NoChild, !.right = NoChild, !.sorted = TRUE]
  ELSE n

(* The first element of a leaf leaves it. *)
PopFirst(n) ==
  [v |-> Head(n.elements),
   node |-> [n EXCEPT !.elements = Tail(@), !.size = @ - 1]]

SortLeaf(n) ==
  IF n.sorted THEN n ELSE [n EXCEPT !.elements = SortSeq(@, <), !.sorted = TRUE]

(* A node whose child gave up an element. *)
PoppedLeft(n, p) ==
  [v |-> p.v, node |-> collapseIfEmpty([n EXCEPT !.left = p.node, !.size = @ - 1])]
PoppedRight(n, p) ==
  [v |-> p.v, node |-> collapseIfEmpty([n EXCEPT !.right = p.node, !.size = @ - 1])]

RECURSIVE PopMin(_)
PopMin(n) ==
  IF IsLeaf(n) /\ n.size < LeafMax THEN PopFirst(SortLeaf(n))
  ELSE LET d == distributeElementsToLeaves(IF IsLeaf(n) THEN Expand(n) ELSE n)
       IN IF d.left.size > 0 THEN PoppedLeft(d, PopMin(d.left))
          ELSE PoppedRight(d, PopMin(d.right))

RECURSIVE PopNearMax(_)
PopNearMax(n) ==
  IF IsLeaf(n) THEN PopFirst(n)
  ELSE IF n.right.size > 0 THEN PoppedRight(n, PopNearMax(n.right))
  ELSE LET d == distributeElementsToLeaves(n)
       IN IF d.right.size > 0 THEN PoppedRight(d, PopNearMax(d.right))
          ELSE PoppedLeft(d, PopNearMax(d.left))

-----------------------------------------------------------------------------
(* Ids in the subtree of a node. *)
RECURSIVE Content(_)
Content(n) ==
  ToSet(n.elements) \cup (IF IsLeaf(n) THEN {} ELSE Content(n.left) \cup Content(n.right))

TreeInit == tree = InitPartialPriorityTree

(* The trigger queue inserts triggers that get data, pops the least to report it,
   and a near greatest one to evict it, each only while the tree has some: ReportNext
   by its buffer_count (ListsExact of Agent), EvictToCapacity by the size. *)
TreeNext ==
  \/ \E e \in Ids \ Content(tree) : tree' = Insert(tree, e)
  \/ tree.size > 0 /\ tree' = PopMin(tree).node
  \/ tree.size > 0 /\ tree' = PopNearMax(tree).node

(* PopMin returns the least id, and PopNearMax an id, of those inserted and not
   popped yet; each takes out that id and no other, and the size that
   EvictToCapacity tests is the number of ids left.  However insertions, both pops,
   splits and collapses are mixed, no id is lost in a node that a later pop does not
   look into. *)
PopsInOrder ==
  LET S == Content(tree) IN
  /\ tree.size = Cardinality(S)
  /\ S # {} =>
       LET least == PopMin(tree)
           great == PopNearMax(tree)
       IN /\ least.v = Min(S) /\ Content(least.node) = S \ {Min(S)}
          /\ great.v \in S /\ Content(great.node) = S \ {great.v}
=============================================================================
