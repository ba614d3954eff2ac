------------------------------ MODULE MCPaxos ------------------------------
(***************************************************************************)
(* Paxos with a handful of nodes and values.                               *)
(***************************************************************************)
EXTENDS Paxos, TLC
CONSTANTS n1, n2, n3, v1, v2

Nodes == {n1, n2, n3}
OneNode == {n1}
Values == {v1, v2}
Sym == Permutations(Values)

Started == {n \in Node : t_try[n] > 0}
Calm == dups = 0 /\ running = Node /\ \A n \in Node : replies[n] = NoMessage

\* A bound: several nodes race, with datagrams lost and reordered, or one node proposes
\* while a datagram is also delivered twice, replies meet EAGAIN and a node stops.
RaceOrFaults == Started \subseteq OneNode \/ Calm
=============================================================================
