----------------------------- MODULE GraphWalks -----------------------------
(***************************************************************************)
(* What algs/algorithms4th/graph.cpp computes from a graph: a depth first  *)
(* search and the graph with all edges the other way round.                *)
(***************************************************************************)
EXTENDS Graph, SequencesExt, Relation

\* The vertices a depth first search has printed when it is at neighbour i of v; the
\* ones printed are those marked.
RECURSIVE do_graph_simple_dfs(_, _, _)
do_graph_simple_dfs(v, i, out) ==
    IF i > Len(graph_adj(bag, v)) THEN out
    ELSE LET w == graph_adj(bag, v)[i]
         IN  do_graph_simple_dfs(v, i + 1,
                 IF w \in ToSet(out) THEN out
                 ELSE do_graph_simple_dfs(w, 1, Append(out, w)))

graph_simple_dfs(v) == do_graph_simple_dfs(v, 1, <<v>>)

\* The copy b after the edges of vertex v from its neighbour i on, and of the
\* vertices behind it, were added to it the other way round.
RECURSIVE CopyFrom(_, _, _)
CopyFrom(b, v, i) ==
    CASE v = NVertex -> b
      [] v < NVertex /\ i > Len(graph_adj(bag, v)) -> CopyFrom(b, v + 1, 1)
      [] OTHER -> CopyFrom(graph_add_edge(b, graph_adj(bag, v)[i], v, TRUE), v, i + 1)

\* The bags of the copy start with the indices of first.
dgraph_reverse_copy(first) == CopyFrom([v \in 0..NVertex - 1 |-> graph_bag_new(first[v])], 0, 1)

-----------------------------------------------------------------------------
(* Properties *)

\* In a graph whose bags all start with index 0 a depth first search prints every vertex
\* that can be reached, once, and the reversed copy, whose bags may start anywhere inside
\* their arrays, has every edge the other way round, within the size of its bags.  With
\* another first index both follow pointers that were never set, and nothing is claimed.
Walked ==
    Complete /\ (\A v \in Vertices : bag[v].first = 0) =>
        /\ \A v \in Vertices :
              /\ IsInjective(graph_simple_dfs(v))
              /\ ToSet(graph_simple_dfs(v)) =
                    {w \in Vertices : v = w \/
                        TransitiveClosure([e \in Vertices \X Vertices |->
                            Multiplicity(e[1], e[2]) > 0], Vertices)[v, w]}
        /\ direct => \A first \in [Vertices -> FirstIndex \cap 0..FirstSize] :
              LET copy == dgraph_reverse_copy(first)
              IN  \A v, w \in Vertices : /\ BagIndex(copy[v]) <= copy[v].I
                                         /\ Count(copy[v].v, w) = Multiplicity(w, v)
=============================================================================
