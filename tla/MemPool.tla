------------------------------ MODULE MemPool -------------------------------
(***************************************************************************)
(* The pool of fixed-size objects of mem_pool/mem_pool.c.  ptr is a table  *)
(* of NX rows, a row is NULL or one block of memory with a header and NY   *)
(* objects, and the header (here the set of its marked columns) says which *)
(* of them are in use.  Object y of row x is <<x, y>>.  The next object to *)
(* hand out is <<x, y>> for the current x and y.                           *)
(***************************************************************************)
EXTENDS Integers

CONSTANTS NY,            \* objects in a row
          FirstNX,       \* rows of the first table, 10 in the code
          MaxRow,        \* bound on the rows in use
          ReallocFails   \* the table may fail to grow

ASSUME PoolAssumption == /\ NY \in Nat \ {0} /\ FirstNX \in Nat \ {0}
                         /\ MaxRow \in Nat /\ ReallocFails \in BOOLEAN

VARIABLES ptr, x, y, NX,  \* of struct mem_pool
          state,          \* "ready", "lost" (ptr is NULL), "undefined", "destroyed"
          heap,           \* the rows that malloc returned and free did not get back
          live,           \* the objects in use by the caller
          served          \* the allocations that succeeded

vars == <<ptr, x, y, NX, state, heap, live, served>>

NULL == {-1}                  \* not a set of columns
NoTable == [r \in {} |-> NULL]
Column == 0..(NY - 1)
Addr == Nat \X Column

Init ==
    /\ NX = FirstNX
    /\ ptr = [r \in 0..(FirstNX - 1) |-> NULL]
    /\ x = 0 /\ y = 0
    /\ state = "ready" /\ heap = {} /\ live = {} /\ served = 0

-----------------------------------------------------------------------------
GrowsTooLate == x = NX

Grows == x = NX - 1

\* The table after realloc and memset.
Table == IF Grows THEN [r \in 0..(2 * NX - 1) |-> IF r < NX THEN ptr[r] ELSE NULL]
                  ELSE ptr

SameRowAgain == x' = x /\ y' = (y + 1) % NY

Advance == IF y + 1 = NY THEN x' = x + 1 /\ y' = 0
                         ELSE x' = x /\ y' = y + 1

\* realloc failed: the old table is lost with it.
LosesTable ==
    /\ Grows /\ ReallocFails
    /\ state' = "lost" /\ ptr' = NoTable
    /\ UNCHANGED <<x, y, NX, heap, live, served>>

\* realloc(NULL, ...) after that gives a table whose first half, where x points,
\* was never written.
ReadsGarbage ==
    /\ state = "lost" /\ Grows
    /\ state' = "undefined"
    /\ UNCHANGED <<ptr, x, y, NX, heap, live, served>>

\* malloc of a new row failed; the table has grown all the same.
RowFails ==
    /\ state = "ready" /\ Table[x] = NULL
    /\ ptr' = Table
    /\ NX' = IF Grows THEN 2 * NX ELSE NX
    /\ UNCHANGED <<x, y, state, heap, live, served>>

Hands ==
    LET row == IF Table[x] = NULL THEN {} ELSE Table[x]
    IN  /\ state = "ready"
        /\ ptr' = [Table EXCEPT ![x] = row \cup {y}]
        /\ NX' = IF Grows THEN 2 * NX ELSE NX
        /\ heap' = heap \cup {x}
        /\ live' = live \cup {<<x, y>>} /\ served' = served + 1
        /\ Advance
        /\ UNCHANGED state

mp_alloc ==
    /\ state \in {"ready", "lost"} /\ x < MaxRow
    /\ LosesTable \/ ReadsGarbage \/ RowFails \/ Hands

-----------------------------------------------------------------------------
\* The search stops before the current row.
Found(a) == a[1] < x /\ a[2] \in ptr[a[1]]

ClearsRow(a) == [ptr EXCEPT ![a[1]] = {}]

Cleared(a) == [ptr EXCEPT ![a[1]] = @ \ {a[2]}]

\* Dereferences ptr, also when it is NULL.
mp_free(a) ==
    /\ live' = live \ {a}
    /\ \/ /\ state = "ready"
          /\ ptr' = IF Found(a) THEN Cleared(a) ELSE ptr
          /\ UNCHANGED state
       \/ /\ state = "lost"
          /\ state' = IF x > 0 THEN "undefined" ELSE state
          /\ UNCHANGED ptr
    /\ UNCHANGED <<x, y, NX, heap, served>>

FreesAllButFirst == heap' = {r \in heap : r = 0 \/ r >= x}

FreesRows == heap' = {r \in heap : r >= x}

\* Frees the rows before the current one and the table.
mp_destroy ==
    /\ \/ /\ state = "ready" \/ (state = "lost" /\ x = 0)
          /\ state' = "destroyed"
          /\ FreesRows
       \/ /\ state = "lost" /\ x > 0
          /\ state' = "undefined"
          /\ UNCHANGED heap
    /\ live' = {}
    /\ UNCHANGED <<ptr, x, y, NX, served>>

Next == mp_alloc \/ (\E a \in live : mp_free(a)) \/ mp_destroy

Spec == Init /\ [][Next]_vars

-----------------------------------------------------------------------------
(* Properties *)

\* The state has its type: y stays inside a row and x inside the table, so that
\* ptr[x] is never read beyond the memory that calloc or realloc gave.
TypeOK ==
    /\ NX \in Nat \ {0} /\ x \in 0..(NX - 1) /\ y \in Column
    /\ ptr \in [0..(NX - 1) -> {NULL} \cup SUBSET Column] \cup {NoTable}
    /\ state \in {"ready", "lost", "undefined", "destroyed"}
    /\ heap \subseteq Nat /\ live \subseteq Addr /\ served \in Nat

\* Every object in use lies in a row that was allocated and is not freed, and
\* while there is a table the header of the row marks it: mp_free never clears
\* another object's mark.
Marked ==
    \A a \in live : a[1] \in heap /\ (state = "ready" => a[2] \in ptr[a[1]])

\* mp_destroy gives back every row but at most the one in use.
Destroyed == state = "destroyed" => heap \subseteq {x}

\* The pool hands out only objects that are not in use.
Abstract == INSTANCE Allocator

ImplementsAllocator == Abstract!Spec
=============================================================================
