-------------------------------- MODULE Bst ---------------------------------
(***************************************************************************)
(* The binary search tree of                                               *)
(* algs/intro_to_algs3th/test_binary_search_tree.cpp.  Nodes are numbered, *)
(* 0 is the null pointer.  The caller owns the nodes: bstree_insert hangs  *)
(* in a fresh one, bstree_delete takes one out and leaves its own pointers *)
(* as they are.  Equal keys are allowed and go to the right.               *)
(***************************************************************************)
EXTENDS TreeNodes

CONSTANTS MaxInsert,   \* the most insertions
          Keys

ASSUME BstAssumption == MaxInsert \in 0..MaxNode /\ Keys \subseteq Int

VARIABLES tr,          \* the root and, of every node, left, right and p
          key,         \* of every node
          used,        \* the nodes 1 to used have been inserted
          deleted      \* nodes taken out again

bstVars == <<tr, key, used, deleted>>

Nowhere == [n \in Node |-> 0]

BstInit ==
    /\ tr = [root |-> 0, left |-> Nowhere, right |-> Nowhere, p |-> Nowhere]
    /\ key = Nowhere /\ used = 0 /\ deleted = {}

Inside == (1..used) \ deleted

-----------------------------------------------------------------------------
(* Loops and walks, over the pointers of the nodes that are in the tree. *)

Live(pointer) == [n \in Node |-> IF n \in Inside THEN pointer[n] ELSE 0]

bstree_min(x) == Last(Live(tr.left), x)
bstree_max(x) == Last(Live(tr.right), x)

bstree_node_count(x) ==
    LET count[y \in Pointer] ==
            IF y = 0 THEN 0 ELSE count[Live(tr.left)[y]] + count[Live(tr.right)[y]] + 1
    IN  count[x]

bstree_inorder_walk == InOrder(Live(tr.left), Live(tr.right), tr.root)

\* Where the loops go that look for key k: equal keys are on the right.
Side(k) == [n \in Node |-> IF k < key[n] THEN Live(tr.left)[n] ELSE Live(tr.right)[n]]

\* A search stops at the first node with the key.
bstree_search(k) ==
    LET x == Last([n \in Node |-> IF key[n] = k THEN 0 ELSE Side(k)[n]], tr.root)
    IN  IF tr.root # 0 /\ key[x] = k THEN x ELSE 0

-----------------------------------------------------------------------------
(* Inserting and deleting. *)

bstree_insert(n, k) ==
    LET q == IF tr.root = 0 THEN 0 ELSE Last(Side(k), tr.root)
    IN  /\ key' = [key EXCEPT ![n] = k]
        /\ tr' = [root  |-> IF q = 0 THEN n ELSE tr.root,
                  left  |-> IF q # 0 /\ k < key[q] THEN [tr.left EXCEPT ![q] = n] ELSE tr.left,
                  right |-> IF q # 0 /\ ~(k < key[q]) THEN [tr.right EXCEPT ![q] = n] ELSE tr.right,
                  p     |-> [tr.p EXCEPT ![n] = q]]

\* v hangs in the place of u, but does not know it.
HangsIn(t, u, v) ==
    LET q == t.p[u]
    IN  [root  |-> IF q = 0 THEN v ELSE t.root,
         left  |-> IF q # 0 /\ t.left[q] = u THEN [t.left EXCEPT ![q] = v] ELSE t.left,
         right |-> IF q # 0 /\ t.left[q] # u THEN [t.right EXCEPT ![q] = v] ELSE t.right,
         p     |-> t.p]

\* The tree t after v took the place of u; v may be null.
bstree_transplant(t, u, v) ==
    LET q == t.p[u]
    IN  [root  |-> IF q = 0 THEN v ELSE t.root,
         left  |-> IF q # 0 /\ t.left[q] = u THEN [t.left EXCEPT ![q] = v] ELSE t.left,
         right |-> IF q # 0 /\ t.left[q] # u THEN [t.right EXCEPT ![q] = v] ELSE t.right,
         p     |-> IF v = 0 THEN t.p ELSE [t.p EXCEPT ![v] = q]]

\* y, the smallest node on the right of x, gives up its place and takes x's right child.
Lifted(x, y) ==
    IF tr.p[y] = x THEN tr
    ELSE [bstree_transplant(tr, y, tr.right[y]) EXCEPT
             !.right[y] = tr.right[x], !.p[tr.right[x]] = y]

bstree_delete(x) ==
    LET y == bstree_min(tr.right[x])
    IN  tr' = CASE tr.left[x] = 0 -> bstree_transplant(tr, x, tr.right[x])
                [] tr.left[x] # 0 /\ tr.right[x] = 0 -> bstree_transplant(tr, x, tr.left[x])
                [] OTHER -> [bstree_transplant(Lifted(x, y), x, y) EXCEPT
                                !.left[y] = tr.left[x], !.p[tr.left[x]] = y]

-----------------------------------------------------------------------------
(* The tests insert nodes and delete some of them. *)

insert ==
    /\ used < MaxInsert /\ used' = used + 1
    /\ \E k \in Keys : bstree_insert(used + 1, k)
    /\ UNCHANGED deleted

delete ==
    /\ \E k \in Keys : LET x == bstree_search(k)
                       IN  /\ x # 0 /\ bstree_delete(x)
                           /\ deleted' = deleted \cup {x}
    /\ UNCHANGED <<key, used>>

BstNext == insert \/ delete

BstSpec == BstInit /\ [][BstNext]_bstVars

-----------------------------------------------------------------------------
(* Properties *)

\* The walk lists each node in the tree once, in the order of keys, from the smallest
\* node to the largest.
WalkInOrder ==
    LET walk == bstree_inorder_walk
    IN  /\ {walk[i] : i \in DOMAIN walk} = Inside
        /\ \A i, j \in DOMAIN walk : i < j => walk[i] # walk[j] /\ key[walk[i]] <= key[walk[j]]
        /\ Len(walk) = bstree_node_count(tr.root)
        /\ tr.root # 0 => /\ bstree_min(tr.root) = walk[1]
                          /\ bstree_max(tr.root) = walk[Len(walk)]

\* After any insertions and deletions the walk lists exactly the nodes inserted and
\* not deleted, in the order of their keys; a search finds a node exactly for the
\* keys among them; the parent of every node is the node it hangs below.
Searches ==
    /\ WalkInOrder
    /\ \A k \in Keys : LET x == bstree_search(k)
                       IN  IF \E n \in Inside : key[n] = k THEN x \in Inside /\ key[x] = k
                           ELSE x = 0
    /\ tr.root # 0 => tr.root \in Inside /\ tr.p[tr.root] = 0
    /\ \A n \in Inside : \A c \in {tr.left[n], tr.right[n]} : c # 0 => c \in Inside /\ tr.p[c] = n
=============================================================================
