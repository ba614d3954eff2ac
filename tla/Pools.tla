------------------------------- MODULE Pools --------------------------------
(***************************************************************************)
(* The three pools: that of mem_pool.c, and beside it those of mmpool.c    *)
(* and of node_pool.cpp, whose tables grow in the same way but which never *)
(* take an object back.                                                    *)
(***************************************************************************)
EXTENDS MemPool

CONSTANTS PageSize, ObjSizes, Factors, MaxTableRow, \* of mmpool
          RTR_POOL_N, FirstN, MaxBlock              \* of node_pool

\* An object and a page have a size, a block at least two nodes (8 MB of them in the
\* code), and the first table an entry.
ASSUME TablesAssumption ==
    /\ PageSize \in Nat /\ ObjSizes \subseteq Nat \ {0}
    /\ RTR_POOL_N \in Nat \ {0, 1} /\ FirstN \in Nat \ {0}

VARIABLES rows, mx, my, X, Y, mstate, mlive, mserved,
          ni, nj, nN, nn, nstate, nlive, nserved

Mm == INSTANCE MmPool WITH MaxRow <- MaxTableRow, x <- mx, y <- my,
                           state <- mstate, live <- mlive, served <- mserved
Nodes == INSTANCE NodePool WITH i <- ni, j <- nj, N <- nN, n <- nn,
                                state <- nstate, live <- nlive, served <- nserved

\* mmpool and node_pool hand out only objects that are not in use; the next object of
\* mmpool lies inside its row and its row inside the table, block i of node_pool inside
\* the table and node j inside the block.
TablesImplementAllocator == /\ [](Mm!TypeOK /\ Nodes!TypeOK)
                            /\ Mm!ImplementsAllocator /\ Nodes!ImplementsAllocator
=============================================================================
