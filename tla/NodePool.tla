------------------------------ MODULE NodePool ------------------------------
(***************************************************************************)
(* The pool of tree nodes of algs/node_pool.cpp: a table n of N pointers   *)
(* to blocks of RTR_POOL_N nodes.  Nodes are never given back, and running *)
(* out of memory ends the process.                                         *)
(***************************************************************************)
EXTENDS Integers

CONSTANTS RTR_POOL_N,  \* nodes in a block
          FirstN,      \* entries of the first table, 8 by default
          MaxBlock     \* bound on the blocks in use

VARIABLES i, j, N,     \* of node_pool
          n,           \* the entries of the table that hold a block
          state,       \* "none", "ready", "exited"
          live,        \* the nodes in use
          served       \* the calls of node_new that returned a node

vars == <<i, j, N, n, state, live, served>>

Addr == Nat \X (0..(RTR_POOL_N - 1))

Init == i = 0 /\ j = 0 /\ N = 0 /\ n = {} /\ state = "none" /\ live = {} /\ served = 0

node_pool_init ==
    /\ state = "none"
    /\ N' = FirstN /\ state' = "ready"
    /\ UNCHANGED <<i, j, n, live, served>>

\* The integer part of log2, for k from 1 to 2^31 - 1: a larger table does not fit
\* into memory.
Log2(k) ==
    CHOOSE l \in 0..30 : /\ l = 0 \/ 2^l <= k
                         /\ \A e \in 1..30 : 2^e <= k => e <= l

Grown == IF i = N - 1 THEN N + (IF Log2(N) < 8 THEN 8 ELSE Log2(N)) ELSE N

BlockFull == j = RTR_POOL_N - 1

Block == IF BlockFull THEN i + 1 ELSE i
Column == IF BlockFull THEN 0 ELSE j

\* The first block, then a larger table, then a new block, then the node.
node_new ==
    /\ state = "ready" /\ i < MaxBlock
    /\ N' = Grown
    /\ i' = Block
    /\ n' = n \cup {0, Block}
    /\ j' = Column + 1
    /\ live' = live \cup {<<Block, Column>>} /\ served' = served + 1
    /\ UNCHANGED state

\* calloc, malloc or realloc fails.
OutOfMemory ==
    /\ state = "ready" /\ (n = {} \/ i = N - 1 \/ BlockFull)
    /\ state' = "exited"
    /\ UNCHANGED <<i, j, N, n, live, served>>

Next == node_pool_init \/ node_new \/ OutOfMemory

Spec == Init /\ [][Next]_vars

-----------------------------------------------------------------------------
(* Properties *)

\* The state has its type; block i lies inside the table, node j
\* inside a block, and every node in use in a block that was allocated.
TypeOK ==
    /\ i \in Nat /\ j \in Nat /\ N \in Nat
    /\ n \subseteq Nat /\ live \subseteq Addr /\ served \in Nat
    /\ state \in {"none", "ready", "exited"}
    /\ state = "ready" => i < N /\ j < RTR_POOL_N
    /\ \A a \in live : a[1] \in n

\* The pool hands out only nodes that are not in use.
Abstract == INSTANCE Allocator

ImplementsAllocator == Abstract!Spec
=============================================================================
