----------------------------- MODULE Allocator ------------------------------
(***************************************************************************)
(* What a pool of fixed-size objects promises: an object handed out is not *)
(* one that is still in use.  An allocation may also fail.  The count of   *)
(* allocations tells handing out an object again from doing nothing.       *)
(***************************************************************************)
EXTENDS Naturals

CONSTANT Addr        \* the places for objects
VARIABLES live,      \* the objects in use
          served     \* the allocations that succeeded

Init == live = {} /\ served = 0

alloc == /\ \E a \in live' \ live : a \in Addr /\ live' = live \cup {a}
         /\ served' = served + 1

free == (\E a \in live : live' = live \ {a}) /\ UNCHANGED served

destroy == live' = {} /\ UNCHANGED served

Spec == Init /\ [][alloc \/ free \/ destroy]_<<live, served>>
=============================================================================
