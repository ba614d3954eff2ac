----------------------------- MODULE Consensus -----------------------------
(***************************************************************************)
(* What the Paxos nodes promise together: at most one value is ever        *)
(* reported as chosen, and it stays chosen.                                *)
(***************************************************************************)
CONSTANT Value
VARIABLE chosen

Init == chosen = {}

Choose(v) == chosen = {} /\ chosen' = {v}

Next == \E v \in Value : Choose(v)

Spec == Init /\ [][Next]_chosen
=============================================================================
