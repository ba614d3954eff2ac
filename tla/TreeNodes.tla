----------------------------- MODULE TreeNodes ------------------------------
(***************************************************************************)
(* What the search trees have in common: nodes, pointers to them, and      *)
(* loops that go down from a node.                                         *)
(***************************************************************************)
EXTENDS Integers, Sequences

CONSTANT MaxNode   \* the most nodes of a tree

ASSUME NodesAssumption == MaxNode \in Nat

Node == 1..MaxNode

\* 0 is the null pointer.
Pointer == 0..MaxNode

\* The node at which a loop from x on stops; next[y] is the node it goes to from y,
\* or 0 if it stops there.
Last(next, x) ==
    LET last[y \in Node] == IF next[y] = 0 THEN y ELSE last[next[y]]
    IN  last[x]

\* The nodes of the tree below x, from left to right.
InOrder(left, right, x) ==
    LET walk[y \in Pointer] == IF y = 0 THEN <<>> ELSE walk[left[y]] \o <<y>> \o walk[right[y]]
    IN  walk[x]
=============================================================================
