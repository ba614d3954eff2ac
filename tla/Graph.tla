------------------------------- MODULE Graph --------------------------------
(***************************************************************************)
(* The graph of algs/algorithms4th/graph.cpp, with the bags that           *)
(* test_graph.cpp gives it.  A bag holds the neighbours of a vertex in an  *)
(* array that grows; the red-black tree that finds the bag of a vertex is  *)
(* the one of module RbTree and here a function.                           *)
(***************************************************************************)
EXTENDS Integers, Sequences, FiniteSets

CONSTANTS NVertex,    \* the number of vertices the file says it has
          MaxEdge,    \* at most so many edges follow
          BagMin,     \* least size of a bag and least growth, 8 in the code
          FirstIndex  \* what the index of a new bag may hold, {0} in zeroed memory

ASSUME GraphAssumption ==
    NVertex \in Nat /\ MaxEdge \in Nat /\ BagMin \in Nat \ {0, 1} /\ FirstIndex \subseteq Nat

VARIABLES direct,    \* directed?
          bag,       \* bag[v], of the vertices added: v, the neighbours written, from entry
                     \* first of the array on, and I, its size
          edges      \* the edges read from the file

graphVars == <<direct, bag, edges>>

GraphInit ==
    /\ direct \in BOOLEAN
    /\ bag = <<>> /\ edges = <<>>

-----------------------------------------------------------------------------
(* Operations on bags b, a function from the vertices added so far. *)

\* log2(n), cut off to an integer, and not less than BagMin.
Log2(n) == Cardinality({e \in 1..n : 2^e <= n})
AtLeastMin(n) == IF n < BagMin THEN BagMin ELSE n
FirstSize == AtLeastMin(Log2(NVertex))

\* gb->i is not set: it is whatever the memory from malloc holds.
graph_bag_new(i) == [v |-> <<>>, first |-> i, I |-> FirstSize]

\* gb->i
BagIndex(gb) == gb.first + Len(gb.v)

Enlarged(gb) == [gb EXCEPT !.I = @ + AtLeastMin(Log2(gb.I))]

RoomForOne(gb) == IF BagIndex(gb) < gb.I THEN gb ELSE Enlarged(gb)

graph_bag_realloc(gb) == IF BagIndex(gb) < gb.I - 1 THEN gb ELSE Enlarged(gb)

\* v[i] = x; ++i.  With i >= I this is outside the array, and undefined.
PutIn(b, v, x) == [b EXCEPT ![v].v = Append(@, x)]

graph_add_vertex(b, v, i) ==
    [u \in DOMAIN b \cup {v} |-> IF u = v THEN graph_bag_new(i) ELSE b[u]]

\* Room is made in both bags before either is written: with v = w it is one bag that
\* takes both ends.  Unknown vertices are refused.
graph_add_edge(b, v, w, directed) ==
    LET one == [b EXCEPT ![v] = graph_bag_realloc(@)]
        both == [one EXCEPT ![w] = graph_bag_realloc(@)]
    IN  CASE ~({v, w} \subseteq DOMAIN b) -> b
          [] {v, w} \subseteq DOMAIN b /\ directed -> PutIn(one, v, w)
          [] OTHER -> PutIn(PutIn(both, v, w), w, v)

\* The entries up to gb->i: those before the first index were never set.
Unset == -1

graph_adj(b, v) == [k \in 1..b[v].first |-> Unset] \o b[v].v

-----------------------------------------------------------------------------
(* graph_init: first all vertices, then an edge per line. *)

Vertices == 0..NVertex - 1
Complete == DOMAIN bag = Vertices

add_vertex ==
    /\ ~Complete
    /\ \E i \in FirstIndex : bag' = graph_add_vertex(bag, Cardinality(DOMAIN bag), i)
    /\ UNCHANGED <<direct, edges>>

add_edge ==
    /\ Complete /\ Len(edges) < MaxEdge
    /\ \E v, w \in 0..NVertex :
          /\ bag' = graph_add_edge(bag, v, w, direct)
          /\ edges' = IF {v, w} \subseteq Vertices THEN Append(edges, <<v, w>>) ELSE edges
    /\ UNCHANGED direct

GraphNext == add_vertex \/ add_edge

GraphSpec == GraphInit /\ [][GraphNext]_graphVars

-----------------------------------------------------------------------------
(* Properties *)

Count(s, x) == Cardinality({i \in DOMAIN s : s[i] = x})

\* How often w is a neighbour of v, by the edges given.
Multiplicity(v, w) ==
    Count(edges, <<v, w>>) + IF direct THEN 0 ELSE Count(edges, <<w, v>>)

\* No bag starts outside its array, where the first edge would be written to foreign
\* memory.
StartsInside == \A v \in Vertices : bag[v].first <= FirstSize

\* Whatever index a bag starts with, as long as that is not outside its array: it stays
\* within its size, and from that index on it holds the edges given and nothing else.
Represents ==
    Complete /\ StartsInside => \A v \in Vertices :
        /\ BagIndex(bag[v]) <= bag[v].I
        /\ \A w \in Vertices : Count(bag[v].v, w) = Multiplicity(v, w)
=============================================================================
