------------------------------- MODULE MCFork -------------------------------
(* Instances of Fork for TLC. *)
EXTENDS Fork, TLC

Connections == Permutations(Conn)
=============================================================================
