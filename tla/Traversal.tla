----------------------------- MODULE Traversal ------------------------------
(***************************************************************************)
(* The graph searches of algs/cti/test_cti_graph.cpp: breadth first in two *)
(* versions, depth first with recursion and with a stack, and the          *)
(* topological sort made from it.  g[u] is the adjacency list of u.        *)
(***************************************************************************)
EXTENDS Integers, Sequences, SequencesExt, FiniteSetsExt

CONSTANT NVert       \* the vertices are 0 to NVert - 1

VARIABLES g, s,      \* the graph and the start of the breadth first searches
          done,      \* the searches have returned
          bfs,       \* dist_ and p_ of the breadth first search
          dag,       \* dist and parent of the version on maps
          rec,       \* d_ and f_ of the recursive depth first search
          stk,       \* d_ and f_ of the one with a stack
          order      \* the result of topological_sort

vars == <<g, s, done, bfs, dag, rec, stk, order>>

V == 0..NVert - 1
None == -1

Lists == UNION {{l \in [1..n -> V] : IsInjective(l)} : n \in 0..NVert}

TraversalIdle ==
    done = FALSE /\ bfs = <<>> /\ dag = <<>> /\ rec = <<>> /\ stk = <<>> /\ order = <<>>

Init == g \in [V -> Lists] /\ s \in V /\ TraversalIdle

-----------------------------------------------------------------------------
(* Breadth first.  A search is a record of the queue, the vertices found   *)
(* (not White, known), and dist and p of each.                             *)

VisitAgain(b, u, v) ==
    [b EXCEPT !.found = @ \cup {v}, !.dist[v] = b.dist[u] + 1, !.p[v] = u,
              !.queue = IF v \in b.found THEN @ ELSE Append(@, v)]

Visit(b, u, v) ==
    IF v \in b.found THEN b
    ELSE [b EXCEPT !.found = @ \cup {v}, !.dist[v] = b.dist[u] + 1, !.p[v] = u,
                   !.queue = Append(@, v)]

\* The vertices of u's list from the i-th on.
RECURSIVE VisitAll(_, _, _)
VisitAll(b, u, i) ==
    IF i > Len(g[u]) THEN [b EXCEPT !.found = @ \cup {u}]
    ELSE VisitAll(Visit(b, u, g[u][i]), u, i + 1)

RECURSIVE Search(_)
Search(b) ==
    IF b.queue = <<>> THEN b
    ELSE Search(VisitAll([b EXCEPT !.queue = Tail(@)], Head(b.queue), 1))

\* The version on maps does not mark the start before it has handled its list.
FirstSearch(found) ==
    Search([queue |-> <<s>>, found |-> found,
            dist |-> [v \in V |-> IF v = s THEN 0 ELSE None], p |-> [v \in V |-> None]])

breadth_first_search == FirstSearch({s})
breadth_first_search_map == FirstSearch({})

-----------------------------------------------------------------------------
(* Depth first.  A search is a record of the time and d and f of each      *)
(* vertex, 0 while it is not set; White means that d is not set.           *)

NoTimes == [time |-> 1, d |-> [v \in V |-> 0], f |-> [v \in V |-> 0]]

Discovered(t, u) == [t EXCEPT !.d[u] = t.time, !.time = @ + 1]
Finished(t, u) == [t EXCEPT !.f[u] = t.time, !.time = @ + 1]

RECURSIVE depth_first_visit(_, _, _)
depth_first_visit(t, u, i) ==
    CASE i > Len(g[u]) -> Finished(t, u)
      [] i <= Len(g[u]) /\ t.d[g[u][i]] # 0 -> depth_first_visit(t, u, i + 1)
      [] OTHER -> depth_first_visit(depth_first_visit(Discovered(t, g[u][i]), g[u][i], 1), u, i + 1)

RECURSIVE SearchFrom(_, _)
SearchFrom(t, u) ==
    CASE u = NVert -> t
      [] u < NVert /\ t.d[u] # 0 -> SearchFrom(t, u + 1)
      [] OTHER -> SearchFrom(depth_first_visit(Discovered(t, u), u, 1), u + 1)

depth_first_search == SearchFrom(NoTimes, 0)

\* The loop with the stack st, its top last.  From the top it goes down as long as it
\* meets White vertices, walking the list of the one it met; then the top is finished,
\* and the list of the vertex below is walked again from its start.
Top(st) == Len(st)

RECURSIVE Stack(_, _, _)
Stack(t, st, i) ==
    IF st = <<>> THEN t
    ELSE LET u == st[Top(st)]
         IN  CASE i > Len(g[u]) -> Stack(Finished(t, u), SubSeq(st, 1, Len(st) - 1), 1)
               [] i <= Len(g[u]) /\ t.d[g[u][i]] # 0 -> Stack(t, st, i + 1)
               [] OTHER -> Stack(Discovered(t, g[u][i]), Append(st, g[u][i]), 1)

RECURSIVE StackFrom(_, _)
StackFrom(t, u) ==
    CASE u = NVert -> t
      [] u < NVert /\ t.d[u] # 0 -> StackFrom(t, u + 1)
      [] OTHER -> StackFrom(Stack(Discovered(t, u), <<u>>, 1), u + 1)

depth_first_search_non_recursive == StackFrom(NoTimes, 0)

\* The vertices by the time they were finished.
topological_sort(t) == SetToSortSeq(V, LAMBDA u, v : t.f[u] < t.f[v])

-----------------------------------------------------------------------------
run ==
    /\ ~done /\ done' = TRUE
    /\ bfs' = breadth_first_search /\ dag' = breadth_first_search_map
    /\ rec' = depth_first_search /\ stk' = depth_first_search_non_recursive
    /\ order' = topological_sort(rec')
    /\ UNCHANGED <<g, s>>

Next == run

Spec == Init /\ [][Next]_vars

-----------------------------------------------------------------------------
(* Properties *)

Edge(u, v) == \E i \in DOMAIN g[u] : g[u][i] = v

\* The vertices at most n edges away from the start.
RECURSIVE Within(_)
Within(n) == IF n = 0 THEN {s}
             ELSE Within(n - 1) \cup {v \in V : \E u \in Within(n - 1) : Edge(u, v)}

Shortest(b) ==
    \A v \in V :
        /\ v \in Within(NVert) <=> b.dist[v] # None
        /\ b.dist[v] # None => /\ v \in Within(b.dist[v])
                               /\ b.dist[v] > 0 => v \notin Within(b.dist[v] - 1)
        /\ b.p[v] # None => Edge(b.p[v], v) /\ b.dist[v] = b.dist[b.p[v]] + 1

Reach(u, v) == LET Next1(S) == S \cup {w \in V : \E x \in S : Edge(x, w)}
               IN  v \in Next1(Next1(Next1({w \in V : Edge(u, w)})))

\* Breadth first search finds shortest paths (the version on maps only if the start has
\* no edge to itself); the two depth first searches set the same times, which nest; if
\* the graph has no cycle, every edge goes backwards in the topological order, which
\* the test prints from its end.
Traversed ==
    done =>
        /\ Shortest(bfs)
        /\ ~Edge(s, s) => Shortest(dag)
        /\ rec = stk
        /\ \A u, v \in V : u # v /\ rec.d[u] < rec.d[v] =>
              rec.f[v] < rec.f[u] \/ rec.f[u] < rec.d[v]
        /\ (\A v \in V : ~Reach(v, v)) =>
              \A i, j \in 1..NVert : Edge(order[i], order[j]) => i > j
=============================================================================
