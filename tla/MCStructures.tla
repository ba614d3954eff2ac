---------------------------- MODULE MCStructures ----------------------------
(***************************************************************************)
(* The pools, the data structures and the sorts for TLC.  They are tests   *)
(* of one program, which runs one of them per process: "test" says which,  *)
(* and the variables of the others keep their first values.                *)
(***************************************************************************)
EXTENDS Pools, Chess, Wqu, RbTree, Bst, Graph, ListSort

CONSTANTS NVert, MaxInt, MaxDisk,
          NKey, NRow, Prices, RodLen, Time, NActivity, BitLen, TreeDepth,
          Chars, TextLen, NOperator, NPut

VARIABLES test,
          arr, desc, given, sorted,
          g, s, done, bfs, dag, rec, stk, order,
          input, out, question, answer, asks, gets

Arrays == INSTANCE ArraySort
Graphs == INSTANCE GraphWalks
Walks == INSTANCE Traversal
Algs == INSTANCE Cti
Solvers == INSTANCE Puzzles
Strings == INSTANCE Texts

mems == vars
mms == <<rows, mx, my, X, Y, mstate, mlive, mserved>>
nodes == <<ni, nj, nN, nn, nstate, nlive, nserved>>
unions == unionVars
arrays == <<arr, desc, given, sorted>>
boards == boardVars
walks == <<g, s, done, bfs, dag, rec, stk, order>>
calls == <<input, out, question, answer, asks, gets>>
functions == <<walks, calls>>
pools == <<mems, mms, nodes>>
searched == <<unions, treeVars, bstVars, graphVars>>
allVars == <<test, pools, searched, listVars, arrays, boards, functions>>

NoList == /\ next = <<>> /\ prev = <<>> /\ val = <<>> /\ is_circular = FALSE /\ is_double = FALSE
          /\ list = 0 /\ lp = 0 /\ lq = 0 /\ tail = 0 /\ oldhead = 0 /\ insize = 0
          /\ nmerges = 0 /\ psize = 0 /\ qsize = 0 /\ pc = "none"
NoArray == arr = <<>> /\ given = <<>> /\ desc = FALSE /\ sorted = FALSE
NoGraph == direct = FALSE /\ bag = <<>> /\ edges = <<>>
NoWalk == g = <<>> /\ s = 0 /\ Walks!TraversalIdle
NoCall == input = <<>> /\ out = <<>>
NoSolver == question = <<>> /\ answer = <<>>
NoString == asks = <<>> /\ gets = <<>>
NoFunction == NoWalk /\ NoCall /\ NoSolver /\ NoString

MCInit ==
    /\ Init /\ Mm!Init /\ Nodes!Init /\ UnionInit /\ TreeInit /\ BstInit /\ BoardInit
    /\ equal => test = "rb_tree"
    /\ \/ /\ test \in {"mem_pool", "mmpool", "node_pool", "wqu", "rb_tree", "bstree",
                      "chess"}
          /\ NoList /\ NoArray /\ NoGraph /\ NoFunction
       \/ test = "list_sort" /\ ListInit /\ NoArray /\ NoGraph /\ NoFunction
       \/ test = "msort" /\ NoList /\ Arrays!Init /\ NoGraph /\ NoFunction
       \/ test = "graph" /\ NoList /\ NoArray /\ GraphInit /\ NoFunction
       \/ /\ NoList /\ NoArray /\ NoGraph
          /\ \/ test = "cti_graph" /\ Walks!Init /\ NoCall /\ NoSolver /\ NoString
             \/ test = "cti" /\ Algs!Init /\ NoWalk /\ NoSolver /\ NoString
             \/ test = "puzzles" /\ Solvers!Init /\ NoWalk /\ NoCall /\ NoString
             \/ test = "texts" /\ Strings!Init /\ NoWalk /\ NoCall /\ NoSolver

PoolStep ==
    /\ \/ test = "mem_pool" /\ Next /\ UNCHANGED <<mms, nodes>>
       \/ test = "mmpool" /\ Mm!Next /\ UNCHANGED <<mems, nodes>>
       \/ test = "node_pool" /\ Nodes!Next /\ UNCHANGED <<mems, mms>>
    /\ UNCHANGED <<test, searched, listVars, arrays, boards, functions>>

SearchStep ==
    /\ \/ test = "wqu" /\ UnionNext /\ UNCHANGED <<treeVars, bstVars, graphVars>>
       \/ test = "rb_tree" /\ TreeNext /\ UNCHANGED <<unions, bstVars, graphVars>>
       \/ test = "bstree" /\ BstNext /\ UNCHANGED <<unions, treeVars, graphVars>>
       \/ test = "graph" /\ GraphNext /\ UNCHANGED <<unions, treeVars, bstVars>>
    /\ UNCHANGED <<test, pools, listVars, arrays, boards, functions>>

ListStep == test = "list_sort" /\ ListNext
            /\ UNCHANGED <<test, pools, searched, arrays, boards, functions>>
ArrayStep == test = "msort" /\ Arrays!Next
             /\ UNCHANGED <<test, pools, searched, listVars, boards, functions>>
BoardStep == test = "chess" /\ BoardNext
             /\ UNCHANGED <<test, pools, searched, listVars, arrays, functions>>
FunctionStep ==
    /\ \/ test = "cti_graph" /\ Walks!Next /\ UNCHANGED calls
       \/ test = "cti" /\ Algs!Next /\ UNCHANGED <<walks, question, answer, asks, gets>>
       \/ test = "puzzles" /\ Solvers!Next /\ UNCHANGED <<walks, input, out, asks, gets>>
       \/ test = "texts" /\ Strings!Next /\ UNCHANGED <<walks, input, out, question, answer>>
    /\ UNCHANGED <<test, pools, searched, listVars, arrays, boards>>

MCNext == PoolStep \/ SearchStep \/ ListStep \/ ArrayStep \/ BoardStep \/ FunctionStep

\* A call of listsort goes on to its end.
MCSpec == MCInit /\ [][MCNext]_allVars /\ WF_allVars(ListStep)

-----------------------------------------------------------------------------
(* Properties of the components, stated in their modules. *)

\* The searches of test_cti_graph.cpp: shortest paths, times that nest and do not
\* depend on the version, and the topological order.  Those of graph.cpp, for bags whose
\* index, which nothing sets, is 0 at first: the depth first search prints what can be
\* reached, and the reversed copy has every edge reversed.
Traversed == /\ test = "cti_graph" => Walks!Traversed
             /\ test = "graph" => Graphs!Walked

\* What the algorithms of test_cti.cpp and test_cti_heap.cpp and the tree of
\* test_cti_bstree.cpp compute, as Computed of Cti lists it: heap_sort of an odd number of
\* elements, the heap after deleteMin and the removal of a tree node that has not exactly
\* one child do less than they are for.  algs_msort: the array has all its elements, in
\* the order asked for.
Computed == /\ test = "cti" => Algs!Computed
            /\ test = "msort" => Arrays!Sorted

\* The tree rebuilt, the square searched, the rod cut, the triangle, the balls and the
\* radix tree are what an exhaustive search says; no activity can be added to those
\* chosen, which need not be the largest choice, the one that 16.c:30 asks for.
Solved == test = "puzzles" => Solvers!Answered


\* listsort ends.
Ends == test = "list_sort" => <>(pc = "done")
=============================================================================
