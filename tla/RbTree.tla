------------------------------- MODULE RbTree -------------------------------
(***************************************************************************)
(* The left-leaning red-black trees of algs/intro_to_algs3th: the one of   *)
(* rb_tree.cpp and the older one of test_rb_tree.cpp, which repairs in the *)
(* same way and takes equal keys.  A node is named by its key, or where    *)
(* keys may be equal by a number that its key is a part of; 0 is the null  *)
(* pointer.  An insertion hangs a red leaf into the tree and then repairs  *)
(* it upwards, one rotation or colour flip at a time, at the node p.       *)
(***************************************************************************)
EXTENDS TreeNodes

CONSTANT Copies    \* the most nodes with the same key in test_rb_tree.cpp

ASSUME CopiesAssumption == Copies \in Nat \ {0}

VARIABLES equal,                           \* the tree of test_rb_tree.cpp?
          root, left, right, parent, red,  \* of rb_tree and its nodes
          p,                               \* where the repair is; 0 when it is done
          keys                             \* the nodes inserted

links == <<root, left, right, parent>>
treeVars == <<equal, links, red, p, keys>>

KeyOf(x) == IF equal THEN (x + Copies - 1) \div Copies ELSE x

TreeInit ==
    /\ equal \in BOOLEAN
    /\ root = 0 /\ p = 0 /\ keys = {}
    /\ left = [x \in Node |-> 0] /\ right = [x \in Node |-> 0]
    /\ parent = [x \in Node |-> 0] /\ red = [x \in Node |-> FALSE]

rbtree_is_red(x) == x # 0 /\ red[x]

-----------------------------------------------------------------------------
(* Searching and inserting. *)

PassesOnTheLeft(n) ==
    [x \in Node |-> IF x = n THEN 0 ELSE IF KeyOf(n) <= KeyOf(x) THEN left[x] ELSE right[x]]

\* Where the loops go that look for node n, or for the place of a new node n: to the
\* right of equal keys.
Toward(n) ==
    [x \in Node |-> IF x = n THEN 0 ELSE IF KeyOf(n) < KeyOf(x) THEN left[x] ELSE right[x]]

rbtree_search(n) == IF root # 0 /\ Last(Toward(n), root) = n THEN n ELSE 0

rbtree_inorder_walk(x) == InOrder(left, right, x)

\* The new node n becomes a red child of y.
Hang(n, y) ==
    /\ left' = IF KeyOf(n) < KeyOf(y) THEN [left EXCEPT ![y] = n] ELSE left
    /\ right' = IF KeyOf(n) < KeyOf(y) THEN right ELSE [right EXCEPT ![y] = n]
    /\ parent' = [parent EXCEPT ![n] = y]
    /\ red' = [red EXCEPT ![n] = TRUE]
    /\ p' = y
    /\ UNCHANGED root

\* The first node is black.
MakesRoot(n) == root' = n /\ UNCHANGED <<left, right, parent, red, p>>

\* Inserting a key again replaces the data of its node.
rbtree_insert(n) ==
    /\ p = 0
    /\ keys' = keys \cup {n}
    /\ CASE root = 0 -> MakesRoot(n)
         [] root # 0 /\ Last(Toward(n), root) = n -> UNCHANGED <<links, red, p>>
         [] OTHER -> Hang(n, Last(Toward(n), root))
    /\ UNCHANGED equal

\* test_rb_tree.cpp makes a node for every key, those of a key in the order of their
\* names.
Unused(n) == n \notin keys /\ \A x \in Node \ keys : KeyOf(x) = KeyOf(n) => n <= x

-----------------------------------------------------------------------------
(* Repairing. *)

\* The colours after y took the place of its parent x.
Recoloured(x, y) == [red EXCEPT ![y] = red[x], ![x] = TRUE]

LeavesInner(x, y, inner) == [parent EXCEPT ![y] = parent[x], ![x] = y]

\* The parents after y took the place of its parent x and inner went from y to x.
Parents(x, y, inner) ==
    [k \in Node |-> CASE k = y -> parent[x]
                      [] k = x -> y
                      [] k = inner -> x
                      [] OTHER -> parent[k]]

Replaces(x, y, inner) ==
    /\ root' = IF parent[x] = 0 THEN y ELSE root
    /\ parent' = Parents(x, y, inner)
    /\ red' = Recoloured(x, y)
    /\ p' = y

NotRelinked(child, x, y) == child

\* The left or right children after y took the place of x below x's parent.
Below(child, x, y) ==
    [k \in Node |-> IF k = parent[x] /\ child[k] = x THEN y ELSE child[k]]

rbtree_left_rotate(x) ==
    LET y == right[x]
    IN  /\ Replaces(x, y, left[y])
        /\ right' = [Below(right, x, y) EXCEPT ![x] = left[y]]
        /\ left' = [Below(left, x, y) EXCEPT ![y] = x]

rbtree_right_rotate(x) ==
    LET y == left[x]
    IN  /\ Replaces(x, y, right[y])
        /\ left' = [Below(left, x, y) EXCEPT ![x] = right[y]]
        /\ right' = [Below(right, x, y) EXCEPT ![y] = x]

RedRoot(x) == TRUE

\* A flipped node turns red unless it is the root.
FlipsTo(x) == parent[x] # 0

rbtree_flipcolor(x) ==
    /\ red' = [red EXCEPT ![x] = FlipsTo(x), ![left[x]] = FALSE, ![right[x]] = FALSE]
    /\ p' = parent[x]
    /\ UNCHANGED <<root, left, right, parent>>

LeftRed == rbtree_is_red(left[p])
RightRed == rbtree_is_red(right[p])

\* p is red and the left child of its parent: part of a 3-node.
InThreeNode == red[p] /\ parent[p] # 0 /\ left[parent[p]] = p

repair ==
    /\ p # 0
    /\ CASE LeftRed /\ RightRed -> rbtree_flipcolor(p)
         [] ~(LeftRed /\ RightRed) /\ LeftRed /\ InThreeNode ->
                rbtree_right_rotate(parent[p])
         [] ~LeftRed /\ RightRed -> rbtree_left_rotate(p)
         [] OTHER -> p' = 0 /\ UNCHANGED <<root, left, right, parent, red>>
    /\ UNCHANGED <<equal, keys>>

TreeNext == repair \/ \E n \in Node : (equal => Unused(n)) /\ rbtree_insert(n)

TreeSpec == TreeInit /\ [][TreeNext]_treeVars

-----------------------------------------------------------------------------
(* Properties *)

Child(x, y) == left[x] = y \/ right[x] = y

\* Nodes are linked both ways, and nodes outside the tree to none.
Linked ==
    /\ \A x, y \in Node : Child(x, y) <=> parent[y] = x
    /\ root # 0 => parent[root] = 0
    /\ \A x \in Node \ keys : left[x] = 0 /\ right[x] = 0 /\ parent[x] = 0

\* The walk lists the nodes inserted by their keys, and nodes with the same key in the
\* order of insertion: rotations keep the order, although they bring equal keys to the
\* left of each other.
Listed ==
    LET walk == rbtree_inorder_walk(root)
    IN  /\ {walk[k] : k \in DOMAIN walk} = keys
        /\ \A k \in 1..(Len(walk) - 1) : walk[k] < walk[k + 1]

\* Also in the middle of an insertion, parents and children agree, the walk of
\* rb_tree.cpp and test_rb_tree.cpp lists the nodes inserted in order, and in
\* rb_tree.cpp rbtree_search finds exactly the keys inserted.
Ordered ==
    /\ Linked /\ Listed
    /\ ~equal => \A n \in Node : rbtree_search(n) = IF n \in keys THEN n ELSE 0

\* Black nodes on every way from x down to a null pointer, or -1 if they differ.
Blacks[x \in Pointer] ==
    CASE x = 0 -> 0
      [] x # 0 /\ (Blacks[left[x]] = -1 \/ Blacks[left[x]] # Blacks[right[x]]) -> -1
      [] OTHER -> Blacks[left[x]] + (IF red[x] THEN 0 ELSE 1)

\* Between insertions the tree is red-black: the root is black, a red node has black
\* children, red nodes are left children, and every way down from the root has the
\* same number of black nodes.
RedBlack ==
    p = 0 =>
        /\ ~rbtree_is_red(root)
        /\ \A x \in keys : ~rbtree_is_red(right[x])
        /\ \A x \in keys : red[x] => ~rbtree_is_red(left[x])
        /\ Blacks[root] # -1
=============================================================================
