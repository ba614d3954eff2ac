------------------------------- MODULE MmPool -------------------------------
(***************************************************************************)
(* The pool of mmpool/mmpool.c: a table of X rows of Y objects each.       *)
(* mmp_free does nothing, so that an object handed out stays in use.       *)
(***************************************************************************)
EXTENDS Integers

CONSTANTS PageSize,     \* sysconf(_SC_PAGESIZE)
          ObjSizes,     \* the object sizes asked for
          Factors,      \* the factors asked for
          MaxRow,       \* bound on the rows in use
          ReallocFails  \* the table may fail to grow

VARIABLES rows, x, y, X, Y,  \* of struct mmpool; rows are the non-NULL entries of ptr
          state,             \* "none", "ready", "lost" (ptr is NULL), "undefined", "destroyed"
          live,              \* the objects handed out
          served             \* the allocations that succeeded

vars == <<rows, x, y, X, Y, state, live, served>>

Addr == Nat \X Nat

Init == /\ rows = {} /\ x = 0 /\ y = 0 /\ X = 0 /\ Y = 0
        /\ state = "none" /\ live = {} /\ served = 0

\* The integer part of log2, for n from 1 to 2^31 - 1, the values of an int.
Log2(n) ==
    CHOOSE k \in 0..30 : /\ k = 0 \/ 2^k <= n
                         /\ \A e \in 1..30 : 2^e <= n => e <= k

Factor(f) == IF f \in 1..10 THEN f ELSE 5

\* (factor * page_size) / (objsize * 10.0) - 2, rounded towards zero, at least 2.
RowLength(size, f) ==
    LET n == (Factor(f) * PageSize) \div (size * 10) - 2
    IN  IF n <= 1 THEN 2 ELSE n

mmp_create(size, f) ==
    /\ state = "none"
    /\ X' = Factor(f) * (IF Log2(size) < 8 THEN 8 ELSE Log2(size))
    /\ Y' = RowLength(size, f)
    /\ state' = "ready"
    /\ UNCHANGED <<rows, x, y, live, served>>

NextRow == y = Y - 1

SameRow == x

\* The position of the object after the step to the next row.
Row == IF NextRow THEN x + 1 ELSE x
Col == IF NextRow THEN 0 ELSE y

\* The number of rows of the table before row r is used.
TableFor(r) == IF r = X - 1 THEN 2 * X ELSE X

\* realloc failed and the old table is lost with it; realloc(NULL, ...) after that
\* gives a table whose first half, where x points, was never written.
LosesTable ==
    /\ Row = X - 1
    /\ \/ ReallocFails /\ state' = "lost"
       \/ state = "lost" /\ state' = "undefined"
    /\ y' = Col
    /\ UNCHANGED <<rows, X, live, served>>

\* malloc of a row may fail: the step to the row and the growth are kept.
RowFails ==
    /\ state = "ready" /\ Row \notin rows
    /\ X' = TableFor(Row) /\ y' = Col
    /\ UNCHANGED <<rows, state, live, served>>

Hands ==
    /\ state = "ready"
    /\ X' = TableFor(Row)
    /\ rows' = rows \cup {Row}
    /\ live' = live \cup {<<Row, Col>>} /\ served' = served + 1
    /\ y' = Col + 1
    /\ UNCHANGED state

mmp_alloc ==
    /\ state \in {"ready", "lost"} /\ Row < MaxRow
    /\ LosesTable \/ RowFails \/ Hands
    /\ x' = Row
    /\ UNCHANGED Y

\* Frees the rows before the current one, if there is a table.
mmp_destroy ==
    /\ state \in {"ready", "lost"}
    /\ rows' = IF state = "ready" THEN {r \in rows : r >= x} ELSE rows
    /\ state' = "destroyed" /\ live' = {}
    /\ UNCHANGED <<x, y, X, Y, served>>

Next == \/ \E size \in ObjSizes, f \in Factors : mmp_create(size, f)
        \/ mmp_alloc \/ mmp_destroy

Spec == Init /\ [][Next]_vars

-----------------------------------------------------------------------------
(* Properties *)

\* The state has its type; while the pool is ready the next object lies inside a
\* row and the current row inside the table, and every object in use lies in an
\* allocated row, inside the Y objects of it.
TypeOK ==
    /\ X \in Nat /\ Y \in Nat /\ x \in Nat /\ y \in Nat
    /\ rows \subseteq Nat /\ live \subseteq Addr /\ served \in Nat
    /\ state \in {"none", "ready", "lost", "undefined", "destroyed"}
    /\ state = "ready" => x < X /\ y < Y
    /\ \A a \in live : a[1] \in rows /\ a[2] < Y

\* The pool hands out only objects that are not in use.
Abstract == INSTANCE Allocator

ImplementsAllocator == Abstract!Spec
=============================================================================
