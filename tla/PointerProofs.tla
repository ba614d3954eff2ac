--------------------------- MODULE PointerProofs ----------------------------
(***************************************************************************)
(* The pools, for rows and blocks of any length and any first table: the   *)
(* cursor stays inside the table and every pool implements Allocator; in   *)
(* mem_pool.c objects in use are marked and rows are given back.  The sort *)
(* of linked lists, for any list.                                          *)
(***************************************************************************)
EXTENDS Pools, ListSort, WellFoundedInduction, TLAPS

\* A set of natural numbers has a smallest one.
LEMMA Least ==
    ASSUME NEW S \in SUBSET Nat, S # {}
    PROVE  \E m \in S : \A k \in S : m <= k
<1> DEFINE R == OpToRel(<, Nat)
<1>1. IsWellFoundedOn(R, Nat)
  BY NatLessThanWellFounded, ZenonT(30)
<1>2. \E m \in S : \A k \in S : <<k, m>> \notin R
  <2> HIDE DEF R
  <2> QED
    BY <1>1, WFMin, ZenonT(30)
<1>3. \A k, m \in S : <<k, m>> \notin R => m <= k
  BY SMTT(30) DEF OpToRel
<1> QED
  BY <1>2, <1>3, ZenonT(30)

USE PoolAssumption

\* A pool that has a table has one of NX rows.
LEMMA TableType ==
    ASSUME TypeOK, DOMAIN ptr = 0..(NX - 1)
    PROVE  ptr \in [0..(NX - 1) -> {NULL} \cup SUBSET Column]
<1>1. DOMAIN NoTable = {} /\ 0 \in DOMAIN ptr
  BY DEF NoTable, TypeOK
<1>2. ptr # NoTable
  BY ZenonT(30), <1>1
<1> QED
  BY <1>2 DEF TypeOK

\* The table and its size before an object is taken from it.
LEMMA Growth ==
    ASSUME TypeOK, state = "ready", DOMAIN ptr = 0..(NX - 1), NEW size,
           size = IF Grows THEN 2 * NX ELSE NX
    PROVE  /\ size \in Nat \ {0} /\ x + 1 <= size - 1
           /\ Table \in [0..(size - 1) -> {NULL} \cup SUBSET Column]
           /\ \A r \in 0..(NX - 1) : Table[r] = ptr[r]
<1>1. ptr \in [0..(NX - 1) -> {NULL} \cup SUBSET Column]
  BY TableType
<1>2. NX \in Nat \ {0} /\ x \in 0..(NX - 1)
  BY DEF TypeOK
<1>3. CASE Grows
  BY <1>1, <1>2, <1>3 DEF Grows, Table
<1>4. CASE ~Grows
  BY <1>1, <1>2, <1>4 DEF Grows, Table
<1> QED
  BY <1>3, <1>4

\* The cursor is ahead of every object in use: what makes the next object fresh.
Ahead == \A a \in live : a[1] < x \/ (a[1] = x /\ a[2] < y)

PoolInv ==
    /\ TypeOK /\ Marked /\ Ahead
    /\ state = "ready" => DOMAIN ptr = 0..(NX - 1)

-----------------------------------------------------------------------------
\* A new pool has one row's worth of cursor and nothing in use.
LEMMA PoolInit == Init => PoolInv
BY DEF Init, PoolInv, TypeOK, Marked, Ahead, Column, Addr

\* Taking an object keeps the invariant, and the object was not in use.
LEMMA HandsKeeps ==
    ASSUME PoolInv, Hands
    PROVE  /\ PoolInv'
           /\ <<x, y>> \in Addr \ live /\ live' = live \cup {<<x, y>>}
           /\ served' = served + 1
<1> DEFINE row == IF Table[x] = NULL THEN {} ELSE Table[x]
<1>1. /\ TypeOK /\ Marked /\ Ahead
      /\ state = "ready" /\ DOMAIN ptr = 0..(NX - 1)
  BY DEF PoolInv, Hands
<1>2. NX' = IF Grows THEN 2 * NX ELSE NX
  BY DEF Hands
<1>3. /\ NX' \in Nat \ {0} /\ x + 1 <= NX' - 1
      /\ Table \in [0..(NX' - 1) -> {NULL} \cup SUBSET Column]
      /\ \A r \in 0..(NX - 1) : Table[r] = ptr[r]
  BY <1>1, <1>2, Growth
<1>4. x \in Nat /\ x \in 0..(NX - 1) /\ NX \in Nat /\ y \in Column
  BY <1>1 DEF TypeOK
<1>a. \A r \in Nat : r <= x + 1 => r \in 0..(NX' - 1)
  <2> DEFINE new == NX'
  <2>1. new \in Nat /\ x + 1 <= new - 1
    BY <1>3
  <2> HIDE DEF new
  <2>2. \A r \in Nat : r <= x + 1 => r \in 0..(new - 1)
    BY <2>1, <1>4
  <2> QED
    BY <2>2 DEF new
<1>b. 0 \in Column /\ (y + 1 # NY => y + 1 \in Column)
  BY <1>4 DEF Column
<1>5. row \in SUBSET Column /\ ptr' = [Table EXCEPT ![x] = row \cup {y}]
  BY <1>3, <1>4 DEF Hands
<1>6. \/ x' = x + 1 /\ y' = 0
      \/ x' = x /\ y' = y + 1 /\ y + 1 # NY
  BY DEF Hands, Advance
<1>7. x' \in 0..(NX' - 1) /\ y' \in Column
  BY <1>4, <1>6, <1>a, <1>b
<1>8. ptr' \in [0..(NX' - 1) -> {NULL} \cup SUBSET Column]
  BY ZenonT(30), <1>3, <1>4, <1>5
<1>9. <<x, y>> \in Addr
  BY <1>4 DEF Addr
<1>10. TypeOK'
  BY <1>1, <1>3, <1>4, <1>7, <1>8, <1>9 DEF TypeOK, Hands
<1>11. Ahead'
  BY <1>1, <1>4, <1>6 DEF Ahead, Hands, TypeOK, Addr, Column
<1>12. Marked'
  <2> SUFFICES ASSUME NEW a \in live' PROVE a[1] \in heap' /\ a[2] \in ptr'[a[1]]
    BY DEF Marked
  <2>1. a \in live \/ a = <<x, y>>
    BY DEF Hands
  <2>2. heap' = heap \cup {x}
    BY DEF Hands
  <2>3. CASE a = <<x, y>>
    <3>1. ptr'[x] = row \cup {y}
      <4>1. x \in 0..(NX' - 1)
        BY <1>4, <1>a
      <4> QED
        BY <4>1, <1>3, <1>5
    <3> QED
      BY <2>2, <2>3, <3>1
  <2>4. CASE a \in live
    <3>1. a[1] \in heap /\ a[2] \in ptr[a[1]] /\ a[1] \in Nat /\ a[2] \in Column
      BY <2>4, <1>1 DEF Marked, TypeOK, Addr
    <3>2. a[1] <= x
      BY <2>4, <1>1, <1>4, <3>1 DEF Ahead
    <3>3. a[1] \in 0..(NX - 1) /\ a[1] \in 0..(NX' - 1)
      BY <3>1, <3>2, <1>4, <1>a
    <3>4. Table[a[1]] = ptr[a[1]]
      BY ZenonT(30), <3>3, <1>3
    <3>5. CASE a[1] = x
      <4>1. ptr[x] # NULL
        BY <3>1, <3>5 DEF NULL, Column
      <4> QED
        BY <3>1, <3>3, <3>4, <3>5, <4>1, <1>3, <1>5, <2>2
    <3>6. CASE a[1] # x
      BY <3>1, <3>3, <3>4, <3>6, <1>3, <1>5, <2>2
    <3> QED
      BY <3>5, <3>6
  <2> QED
    BY <2>1, <2>3, <2>4
<1>13. <<x, y>> \notin live
  BY <1>1, <1>4 DEF Ahead, Column
<1> QED
  BY <1>8, <1>9, <1>10, <1>11, <1>12, <1>13 DEF PoolInv, Hands

\* The other outcomes of an allocation hand out nothing.
LEMMA OthersKeep ==
    ASSUME PoolInv, LosesTable \/ ReadsGarbage \/ (RowFails /\ state = "ready")
    PROVE  PoolInv' /\ UNCHANGED <<live, served>>
<1>1. CASE LosesTable
  BY <1>1 DEF LosesTable, PoolInv, TypeOK, Marked, Ahead
<1>2. CASE ReadsGarbage
  BY <1>2 DEF ReadsGarbage, PoolInv, TypeOK, Marked, Ahead
<1>3. CASE RowFails
  <2>1. /\ TypeOK /\ Marked /\ Ahead
        /\ state = "ready" /\ DOMAIN ptr = 0..(NX - 1)
    BY <1>3 DEF PoolInv, RowFails
  <2>2. NX' = (IF Grows THEN 2 * NX ELSE NX) /\ ptr' = Table
        /\ UNCHANGED <<x, y, state, heap, live, served>>
    BY <1>3 DEF RowFails
  <2>3. /\ NX' \in Nat \ {0} /\ x + 1 <= NX' - 1
        /\ ptr' \in [0..(NX' - 1) -> {NULL} \cup SUBSET Column]
        /\ \A r \in 0..(NX - 1) : ptr'[r] = ptr[r]
    BY <2>1, <2>2, Growth
  <2>4. x \in Nat /\ x \in 0..(NX - 1) /\ NX \in Nat
    BY <2>1 DEF TypeOK
  <2>5. TypeOK'
    BY <2>1, <2>2, <2>3, <2>4 DEF TypeOK
  <2>6. \A a \in live : a[1] \in 0..(NX - 1)
    BY <2>1, <2>4 DEF Ahead, TypeOK, Addr
  <2>7. Marked' /\ Ahead'
    BY <2>1, <2>2, <2>3, <2>6 DEF Marked, Ahead
  <2> QED
    BY <2>2, <2>3, <2>5, <2>7 DEF PoolInv
<1> QED
  BY <1>1, <1>2, <1>3

\* Giving an object back clears at most its own mark.
LEMMA FreeKeeps ==
    ASSUME PoolInv, NEW a \in live, mp_free(a)
    PROVE  PoolInv' /\ live' = live \ {a} /\ UNCHANGED served
<1>1. live' = live \ {a} /\ UNCHANGED <<x, y, NX, heap, served>>
  BY DEF mp_free
<1>2. CASE state = "lost"
  BY <1>1, <1>2 DEF mp_free, PoolInv, TypeOK, Marked, Ahead
<1>3. CASE state = "ready"
  <2>1. /\ TypeOK /\ Marked /\ Ahead /\ state' = state
        /\ DOMAIN ptr = 0..(NX - 1)
        /\ ptr' = IF Found(a) THEN Cleared(a) ELSE ptr
    BY <1>3 DEF PoolInv, mp_free
  <2>2. ptr \in [0..(NX - 1) -> {NULL} \cup SUBSET Column]
    BY <2>1, TableType
  <2>3. \A b \in live : b \in Nat \X Column /\ b[2] \in ptr[b[1]]
    BY <2>1, <1>3 DEF Marked, TypeOK, Addr
  <2>4. CASE Found(a)
    <3>1. ptr' = [ptr EXCEPT ![a[1]] = ptr[a[1]] \ {a[2]}]
      BY <2>1, <2>4 DEF Cleared
    <3>2. a[1] \in 0..(NX - 1) /\ ptr[a[1]] \in SUBSET Column
      <4>1. a[1] < x /\ a[1] \in Nat /\ x \in 0..(NX - 1) /\ NX \in Nat
        BY <2>1, <2>3, <2>4 DEF Found, TypeOK
      <4>2. a[1] \in 0..(NX - 1)
        BY <4>1
      <4>3. ptr[a[1]] # NULL
        BY <2>3 DEF NULL, Column
      <4> QED
        BY <4>2, <4>3, <2>2
    <3>3. ptr' \in [0..(NX - 1) -> {NULL} \cup SUBSET Column]
      BY <3>1, <3>2, <2>2
    <3>4. \A b \in live \ {a} : b[2] \in ptr'[b[1]]
      <4> SUFFICES ASSUME NEW b \in live \ {a} PROVE b[2] \in ptr'[b[1]]
        OBVIOUS
      <4>1. b[2] \in ptr[b[1]] /\ (b[1] = a[1] => b[2] # a[2])
        BY <2>3
      <4> QED
        BY <4>1, <3>1, <3>2, <2>2
    <3> QED
      BY <3>3, <3>4, <2>1, <1>1, <1>3 DEF PoolInv, TypeOK, Marked, Ahead
  <2>5. CASE ~Found(a)
    BY <2>1, <2>5, <1>1, <1>3 DEF PoolInv, TypeOK, Marked, Ahead
  <2> QED
    BY <2>4, <2>5
<1> QED
  BY <1>2, <1>3 DEF mp_free

\* A destroyed pool has nothing in use.
LEMMA DestroyKeeps ==
    ASSUME PoolInv, mp_destroy
    PROVE  PoolInv' /\ live' = {} /\ UNCHANGED served
BY ZenonT(30) DEF mp_destroy, FreesRows, PoolInv, TypeOK, Marked, Ahead

\* Every step keeps the invariant and is one of Allocator or changes no object.
LEMMA PoolNext ==
    ASSUME PoolInv, [Next]_vars
    PROVE  PoolInv' /\ [Abstract!alloc \/ Abstract!free \/ Abstract!destroy]_<<live, served>>
<1>1. CASE UNCHANGED vars
  BY <1>1 DEF vars, PoolInv, TypeOK, Marked, Ahead
<1>2. CASE mp_alloc
  <2>1. CASE Hands
    BY <2>1, HandsKeeps DEF Abstract!alloc
  <2>2. CASE LosesTable \/ ReadsGarbage \/ RowFails
    BY <2>2, OthersKeep DEF RowFails
  <2> QED
    BY <1>2, <2>1, <2>2 DEF mp_alloc
<1>3. ASSUME NEW a \in live, mp_free(a)
      PROVE PoolInv' /\ [Abstract!alloc \/ Abstract!free \/ Abstract!destroy]_<<live, served>>
  BY <1>3, FreeKeeps DEF Abstract!free
<1>4. CASE mp_destroy
  BY <1>4, DestroyKeeps DEF Abstract!destroy
<1> QED
  BY <1>1, <1>2, <1>3, <1>4 DEF Next

\* For rows of any length and a first table of any size the cursor of mp_alloc
\* stays inside the table and the row.
THEOREM TypeCorrect == Spec => []TypeOK
<1>1. PoolInv /\ [Next]_vars => PoolInv'
  BY PoolNext
<1>2. PoolInv => TypeOK
  BY DEF PoolInv
<1> QED
  BY <1>1, <1>2, PoolInit, PTL DEF Spec

\* Likewise objects in use lie in allocated rows and keep their mark, whatever is
\* given back in between.
THEOREM MarksKept == Spec => []Marked
<1>1. PoolInv /\ [Next]_vars => PoolInv'
  BY PoolNext
<1>2. PoolInv => Marked
  BY DEF PoolInv
<1> QED
  BY <1>1, <1>2, PoolInit, PTL DEF Spec

\* mp_alloc, mp_free and mp_destroy implement Allocator: no object is handed out
\* while it is in use, also after failed allocations.
THEOREM Refinement == Spec => ImplementsAllocator
<1>1. Init => Abstract!Init
  BY DEF Init, Abstract!Init
<1>2. PoolInv /\ [Next]_vars
        => PoolInv' /\ [Abstract!alloc \/ Abstract!free \/ Abstract!destroy]_<<live, served>>
  BY PoolNext
<1> QED
  BY <1>1, <1>2, PoolInit, PTL DEF Spec, ImplementsAllocator, Abstract!Spec

\* No row beyond the current one was allocated, and a destroyed pool keeps at most
\* that one.
RowsInv == (\A r \in heap : r <= x) /\ Destroyed

\* Every step keeps this: x only grows, and the row it is at is the one allocated.
LEMMA RowsKept ==
    ASSUME PoolInv, RowsInv, [Next]_vars
    PROVE  RowsInv'
<1>1. x \in Nat /\ heap \subseteq Nat
  BY DEF PoolInv, TypeOK
<1>2. CASE Hands
  <2>1. heap' = heap \cup {x} /\ x' \in {x, x + 1} /\ state' = "ready"
    BY <1>2 DEF Hands, Advance
  <2>2. \A r \in heap' : r <= x'
    BY <1>1, <2>1 DEF RowsInv
  <2> QED
    BY <2>1, <2>2 DEF RowsInv, Destroyed
<1>3. CASE mp_destroy
  <2>1. x' = x /\ heap' \subseteq heap /\ (state' = "destroyed" => \A r \in heap' : r >= x)
    BY <1>3 DEF mp_destroy, FreesRows
  <2>2. \A r \in heap' : r <= x
    BY <2>1 DEF RowsInv
  <2>3. \A r \in heap' : r >= x => r = x
    BY <1>1, <2>1, <2>2
  <2> QED
    BY <2>1, <2>2, <2>3 DEF RowsInv, Destroyed
<1>4. CASE UNCHANGED <<x, heap>> /\ (state' = "destroyed" => state = "destroyed")
  BY <1>4 DEF RowsInv, Destroyed
<1> QED
  BY <1>2, <1>3, <1>4 DEF Next, vars, mp_alloc, LosesTable, ReadsGarbage, RowFails, mp_free

\* mp_destroy gives back every row it has allocated but at most the one in use,
\* whatever was allocated, failed or given back before.
THEOREM GivesBack == Spec => []Destroyed
<1>1. Init => PoolInv /\ RowsInv
  BY PoolInit DEF Init, RowsInv, Destroyed
<1>2. PoolInv /\ RowsInv /\ [Next]_vars => PoolInv' /\ RowsInv'
  BY PoolNext, RowsKept
<1>3. RowsInv => Destroyed
  BY DEF RowsInv
<1> QED
  BY <1>1, <1>2, <1>3, PTL DEF Spec

-----------------------------------------------------------------------------
(* mmpool.c *)

\* Both tables grow with log2 of a size, which is a natural number.
LEMMA Logarithms == \A m : Mm!Log2(m) \in Nat /\ Nodes!Log2(m) \in Nat
<1> TAKE m
<1> DEFINE Fits(e) == 2^e <= m
           S == {k \in 0..30 : \A e \in 1..30 : Fits(e) => e <= k}
<1> HIDE DEF Fits
<1>1. 30 \in S
  OBVIOUS
<1>2. PICK k \in S : \A e \in S : k <= e
  BY <1>1, Least
<1>3. k = 0 \/ Fits(k)
  <2> SUFFICES ASSUME k # 0, ~Fits(k) PROVE k - 1 \in S
    BY <1>2
  <2>1. \A e \in 1..30 : Fits(e) => e # k
    OBVIOUS
  <2> QED
    BY <2>1
<1>4. \E l \in 0..30 : (l = 0 \/ Fits(l)) /\ \A e \in 1..30 : Fits(e) => e <= l
  BY <1>3
<1>5. \E l \in 0..30 : (l = 0 \/ 2^l <= m) /\ \A e \in 1..30 : 2^e <= m => e <= l
  BY <1>4, ZenonT(30) DEF Fits
<1>6. Mm!Log2(m) \in 0..30 /\ Nodes!Log2(m) \in 0..30
  BY <1>5, ZenonT(30) DEF Mm!Log2, Nodes!Log2
<1> QED
  BY <1>6

\* The cursor is ahead of every object handed out, so that the next one is fresh; a
\* row has room for two objects, of which the last is never used.
MmInv ==
    /\ Mm!TypeOK
    /\ mstate = "none" => mx = 0 /\ my = 0 /\ mlive = {}
    /\ mstate = "ready" => mx < X - 1 /\ Y > 1
    /\ \A a \in mlive : a[1] < mx \/ (a[1] = mx /\ a[2] < my)

\* Before mmpool_init there is no object.
LEMMA MmInit == Mm!Init => MmInv
BY DEF Mm!Init, MmInv, Mm!TypeOK

\* A new pool has at least 8 rows of at least 2 objects.
LEMMA MmCreates ==
    ASSUME MmInv, NEW size \in ObjSizes, NEW f, Mm!mmp_create(size, f)
    PROVE  MmInv' /\ UNCHANGED <<mlive, mserved>>
<1> DEFINE l == Mm!Log2(size)
           r == Mm!RowLength(size, f)
           g == Mm!Factor(f)
<1>1. l \in Nat
  BY Logarithms
<1>2. g \in 1..10
  BY DEF Mm!Factor
<1>3. r \in Nat /\ r > 1
  <2>1. size \in Nat \ {0} /\ PageSize \in Nat
    BY TablesAssumption
  <2>2. g * PageSize \in Int /\ size * 10 \in Nat \ {0}
    BY <1>2, <2>1
  <2> HIDE DEF g
  <2>3. (g * PageSize) \div (size * 10) \in Int
    BY <2>2
  <2> QED
    BY <2>3 DEF Mm!RowLength, g
<1> HIDE DEF l, r, g
<1>4. /\ mstate = "none" /\ mstate' = "ready" /\ X' = g * (IF l < 8 THEN 8 ELSE l) /\ Y' = r
      /\ UNCHANGED <<rows, mx, my, mlive, mserved>>
  BY DEF Mm!mmp_create, l, r, g
<1>5. X' \in Nat /\ 0 < X' - 1
  BY <1>1, <1>2, <1>4
<1> QED
  BY <1>3, <1>4, <1>5 DEF MmInv, Mm!TypeOK

\* An allocation moves the cursor ahead, keeps it inside the table, and hands out the
\* object it was at or nothing.
LEMMA MmAllocates ==
    ASSUME MmInv, Mm!mmp_alloc
    PROVE  /\ MmInv'
           /\ \/ UNCHANGED <<mlive, mserved>>
              \/ /\ \E a \in Mm!Addr \ mlive : mlive' = mlive \cup {a}
                 /\ mserved' = mserved + 1
<1> DEFINE row == Mm!Row
           col == Mm!Col
<1>1. /\ X \in Nat /\ Y \in Nat /\ mx \in Nat /\ my \in Nat /\ rows \subseteq Nat
      /\ mlive \subseteq Nat \X Nat /\ mserved \in Nat
      /\ \A a \in mlive : a[1] \in rows /\ a[2] < Y
      /\ \A a \in mlive : a[1] < mx \/ (a[1] = mx /\ a[2] < my)
      /\ mstate = "ready" => mx < X - 1 /\ Y > 1 /\ my < Y
  BY DEF MmInv, Mm!TypeOK, Mm!Addr
<1>2. /\ row \in Nat /\ col \in Nat
      /\ \/ row = mx + 1 /\ col = 0
         \/ row = mx /\ col = my /\ my # Y - 1
  BY <1>1 DEF Mm!Row, Mm!Col, Mm!NextRow
<1>3. mx' = row /\ Y' = Y /\ mstate \in {"ready", "lost"}
  BY DEF Mm!mmp_alloc
<1>4. \A a \in mlive : a[1] < row \/ (a[1] = row /\ a[2] < col)
  BY <1>1, <1>2
<1> HIDE DEF row, col
<1>5. CASE Mm!LosesTable
  <2>1. my' = col /\ mstate' \in {"lost", "undefined"} /\ UNCHANGED <<rows, X, mlive, mserved>>
    BY <1>5 DEF Mm!LosesTable, col
  <2> QED
    BY <1>1, <1>2, <1>3, <1>4, <2>1 DEF MmInv, Mm!TypeOK, Mm!Addr
<1>6. ASSUME mstate = "ready" PROVE row < Mm!TableFor(row) - 1 /\ Mm!TableFor(row) \in Nat /\ col + 1 < Y
  BY <1>1, <1>2, <1>6 DEF Mm!TableFor
<1>7. CASE Mm!RowFails
  <2>1. /\ mstate = "ready" /\ mstate' = "ready" /\ X' = Mm!TableFor(row) /\ my' = col
        /\ UNCHANGED <<rows, mlive, mserved>>
    BY <1>7 DEF Mm!RowFails, row, col
  <2> QED
    BY <1>1, <1>2, <1>3, <1>4, <1>6, <2>1 DEF MmInv, Mm!TypeOK, Mm!Addr
<1>8. CASE Mm!Hands
  <2>1. /\ mstate = "ready" /\ mstate' = "ready" /\ X' = Mm!TableFor(row) /\ my' = col + 1
        /\ rows' = rows \cup {row} /\ mlive' = mlive \cup {<<row, col>>} /\ mserved' = mserved + 1
    BY <1>8 DEF Mm!Hands, row, col
  <2>2. <<row, col>> \in Mm!Addr \ mlive
    BY <1>2, <1>4 DEF Mm!Addr
  <2>3. \A a \in mlive' : a[1] < row \/ (a[1] = row /\ a[2] < col + 1)
    BY <1>1, <1>2, <1>4, <2>1
  <2>4. \A a \in mlive' : a[1] \in rows' /\ a[2] < Y
    BY <1>1, <1>2, <1>6, <2>1
  <2> QED
    BY <1>1, <1>2, <1>3, <1>6, <2>1, <2>2, <2>3, <2>4 DEF MmInv, Mm!TypeOK, Mm!Addr
<1> QED
  BY <1>5, <1>7, <1>8 DEF Mm!mmp_alloc

\* Every call of mmpool keeps the cursor ahead of the objects and is a step of Allocator.
LEMMA MmNext ==
    ASSUME MmInv, [Mm!Next]_(Mm!vars)
    PROVE  MmInv' /\ [Mm!Abstract!alloc \/ Mm!Abstract!free \/ Mm!Abstract!destroy]_<<mlive, mserved>>
<1>1. CASE UNCHANGED Mm!vars
  BY <1>1 DEF Mm!vars, MmInv, Mm!TypeOK
<1>2. ASSUME NEW size \in ObjSizes, NEW f \in Factors, Mm!mmp_create(size, f)
      PROVE  MmInv' /\ UNCHANGED <<mlive, mserved>>
  BY <1>2, MmCreates
<1>3. CASE Mm!mmp_alloc
  BY <1>3, MmAllocates DEF Mm!Abstract!alloc
<1>4. CASE Mm!mmp_destroy
  BY <1>4, ZenonT(30) DEF Mm!mmp_destroy, Mm!Abstract!destroy, MmInv, Mm!TypeOK
<1> QED
  BY <1>1, <1>2, <1>3, <1>4 DEF Mm!Next

-----------------------------------------------------------------------------
(* node_pool.cpp *)

\* The cursor is ahead of every node handed out.
NodesInv ==
    /\ Nodes!TypeOK
    /\ nstate = "none" => ni = 0 /\ nj = 0
    /\ \A a \in nlive : a[1] < ni \/ (a[1] = ni /\ a[2] < nj)

\* Before the first node_new there is no node.
LEMMA NodesInit == Nodes!Init => NodesInv
BY DEF Nodes!Init, NodesInv, Nodes!TypeOK

\* node_new: the node at the cursor is not in use, and the table has room for its block.
LEMMA NodesAllocates ==
    ASSUME NodesInv, Nodes!node_new
    PROVE  /\ NodesInv'
           /\ \E a \in Nodes!Addr \ nlive : nlive' = nlive \cup {a}
           /\ nserved' = nserved + 1
<1> DEFINE row == Nodes!Block
           col == Nodes!Column
           l == Nodes!Log2(nN)
<1>1. /\ ni \in Nat /\ nj \in Nat /\ nN \in Nat /\ nn \subseteq Nat /\ nserved \in Nat
      /\ nlive \subseteq Nat \X (0..(RTR_POOL_N - 1))
      /\ ni < nN /\ nj < RTR_POOL_N /\ RTR_POOL_N \in Nat \ {0, 1}
      /\ \A a \in nlive : a[1] \in nn
      /\ \A a \in nlive : a[1] < ni \/ (a[1] = ni /\ a[2] < nj)
  BY TablesAssumption DEF NodesInv, Nodes!TypeOK, Nodes!Addr, Nodes!node_new
<1>2. /\ row \in Nat /\ col \in Nat
      /\ \/ row = ni + 1 /\ col = 0
         \/ row = ni /\ col = nj /\ nj # RTR_POOL_N - 1
  BY <1>1 DEF Nodes!Block, Nodes!Column, Nodes!BlockFull
<1>3. l \in Nat
  BY Logarithms
<1>4. /\ ni' = row /\ nj' = col + 1 /\ nn' = nn \cup {0, row} /\ nlive' = nlive \cup {<<row, col>>}
      /\ nserved' = nserved + 1 /\ nstate' = "ready"
      /\ nN' = IF ni = nN - 1 THEN nN + (IF l < 8 THEN 8 ELSE l) ELSE nN
  BY DEF Nodes!node_new, Nodes!Grown
<1> HIDE DEF row, col, l
<1>5. row < nN' /\ nN' \in Nat /\ col + 1 < RTR_POOL_N
  BY <1>1, <1>2, <1>3, <1>4
<1>6. \A a \in nlive : a[1] < row \/ (a[1] = row /\ a[2] < col)
  BY <1>1, <1>2
<1>7. <<row, col>> \in Nodes!Addr \ nlive
  BY <1>1, <1>2, <1>5, <1>6 DEF Nodes!Addr
<1>8. \A a \in nlive' : a[1] \in nn' /\ (a[1] < row \/ (a[1] = row /\ a[2] < col + 1))
  BY <1>1, <1>2, <1>4, <1>6
<1> QED
  BY <1>1, <1>2, <1>4, <1>5, <1>7, <1>8 DEF NodesInv, Nodes!TypeOK, Nodes!Addr

\* Every call of node_pool keeps the cursor ahead of the nodes and is a step of Allocator.
LEMMA NodesNext ==
    ASSUME NodesInv, [Nodes!Next]_(Nodes!vars)
    PROVE  /\ NodesInv'
           /\ [Nodes!Abstract!alloc \/ Nodes!Abstract!free \/ Nodes!Abstract!destroy]_<<nlive, nserved>>
<1>1. CASE UNCHANGED Nodes!vars
  BY <1>1 DEF Nodes!vars, NodesInv, Nodes!TypeOK
<1>2. CASE Nodes!node_pool_init
  BY <1>2, TablesAssumption DEF Nodes!node_pool_init, NodesInv, Nodes!TypeOK
<1>3. CASE Nodes!node_new
  BY <1>3, NodesAllocates DEF Nodes!Abstract!alloc
<1>4. CASE Nodes!OutOfMemory
  BY <1>4 DEF Nodes!OutOfMemory, NodesInv, Nodes!TypeOK
<1> QED
  BY <1>1, <1>2, <1>3, <1>4 DEF Nodes!Next

\* mmp_alloc and node_new hand out only objects that are not in use, from rows inside
\* their tables, for every page, object and block size and every factor.
THEOREM Tables == Mm!Spec /\ Nodes!Spec => TablesImplementAllocator
<1>1. MmInv => Mm!TypeOK
  BY DEF MmInv
<1>2. NodesInv => Nodes!TypeOK
  BY DEF NodesInv
<1>3. Mm!Init => MmInv /\ Mm!Abstract!Init
  BY MmInit DEF Mm!Init, Mm!Abstract!Init
<1>4. Nodes!Init => NodesInv /\ Nodes!Abstract!Init
  BY NodesInit DEF Nodes!Init, Nodes!Abstract!Init
<1>5. MmInv /\ [Mm!Next]_(Mm!vars)
        => MmInv' /\ [Mm!Abstract!alloc \/ Mm!Abstract!free \/ Mm!Abstract!destroy]_<<mlive, mserved>>
  BY MmNext
<1>6. NodesInv /\ [Nodes!Next]_(Nodes!vars)
        => NodesInv' /\ [Nodes!Abstract!alloc \/ Nodes!Abstract!free \/ Nodes!Abstract!destroy]_<<nlive, nserved>>
  BY NodesNext
<1> QED
  BY <1>1, <1>2, <1>3, <1>4, <1>5, <1>6, PTL
     DEF Mm!Spec, Nodes!Spec, TablesImplementAllocator, Mm!ImplementsAllocator, Nodes!ImplementsAllocator,
         Mm!Abstract!Spec, Nodes!Abstract!Spec

-----------------------------------------------------------------------------
(***************************************************************************)
(* listsort, for lists of any length and any values.  s is the order in    *)
(* which the elements stand: first those merged, then the rest of the      *)
(* first list, then that of the second and all behind it.  W has the cuts  *)
(* between sorted parts of the list.                                       *)
(***************************************************************************)

HIDE PoolAssumption
USE ZenonT(30)

Perm(s) ==
    /\ s \in [Element -> Element]
    /\ \A i, j \in Element : s[i] = s[j] => i = j
    /\ \A e \in Element : \E i \in Element : s[i] = e

\* The elements before a cut stood before it from the beginning.
Cuts(W, s) ==
    /\ W \subseteq 0..Length /\ 0 \in W /\ Length \in W
    /\ \A w \in W, i \in Element : i <= w <=> s[i] <= w

\* The next cut after w comes k elements later, or at the end.
Spaced(W, k, w) ==
    /\ \A u \in W : w < u => w + k <= u \/ u = Length
    /\ w + k < Length => w + k \in W

\* Cuts are k apart from a on and m apart before.
Apart(W, a, k, m) == \A w \in W : (w < a => Spaced(W, m, w)) /\ (a <= w => Spaced(W, k, w))

Runs(s, W) == \A i \in Element : i + 1 \in Element /\ i \notin W => Before(s[i], s[i + 1])

\* Between the cuts c and d two sorted parts are being merged: a elements are in place,
\* those up to b are left of the first part and those up to d of the second, which
\* stood behind h.
Merging(s, W, k, a, b, c, d, h) ==
    /\ Perm(s) /\ Cuts(W, s)
    /\ a \in Int /\ b \in Int /\ h \in Int
    /\ c \in W /\ d \in W /\ c <= a /\ a <= b /\ b <= d /\ c < d
    /\ d = IF c + 2 * k < Length THEN c + 2 * k ELSE Length
    /\ \A u \in W : u <= c \/ d <= u
    /\ \A w \in W : (w < c => Spaced(W, 2 * k, w)) /\ (d <= w => Spaced(W, k, w))
    /\ \A i \in Element : i + 1 \in Element /\ i \notin W /\ i # a /\ i # b => Before(s[i], s[i + 1])
    /\ c < a /\ a < b => Before(s[a], s[a + 1])
    /\ c < a /\ b < d => Before(s[a], s[b + 1])
    /\ \A i \in Element : (a < i /\ i <= b => s[i] <= h) /\ (b < i /\ i <= d => h < s[i])

Upper(a, k) == IF a + k < Length THEN a + k ELSE Length

\* Two neighbouring parts are about to be merged.
LEMMA MergeStarts ==
    ASSUME NEW s, NEW W, NEW a \in W, NEW k \in Nat \ {0}, Length \in Nat,
           Perm(s), Cuts(W, s), Apart(W, a, k, 2 * k), Runs(s, W), a < Length
    PROVE  LET b == Upper(a, k)
           IN  Merging(s, W \ {u \in {b} : u < Length}, k, a, b, a, Upper(a, 2 * k), b)
<1> DEFINE b == Upper(a, k)
           d == Upper(a, 2 * k)
           V == W \ {u \in {b} : u < Length}
<1>1. a \in Nat /\ k \in Nat /\ k > 0 /\ Length \in Nat /\ a < Length /\ W \subseteq Int /\ a \in Int
  BY SMTT(30) DEF Cuts
<1>2. /\ b \in Int /\ d \in Int /\ a < b /\ b <= d /\ b <= Length
      /\ b = IF a + k < Length THEN a + k ELSE Length
      /\ d = IF a + 2 * k < Length THEN a + 2 * k ELSE Length
  BY <1>1, SMTT(30) DEF Upper
<1>3. b \in W /\ Length \in W /\ 0 \in W
  <2>1. Spaced(W, k, a)
    BY <1>1, SMTT(30) DEF Apart
  <2> QED
    BY <1>2, <2>1, SMTT(30) DEF Spaced, Cuts
<1>4. \A u \in W : u \in V <=> (u # b \/ ~(u < Length))
  OBVIOUS
<1>5. d \in V
  <2>1. b < Length => Spaced(W, k, b)
    BY <1>1, <1>2, <1>3, SMTT(30) DEF Apart
  <2> QED
    BY <1>1, <1>2, <1>3, <1>4, <2>1, SMTT(30) DEF Spaced
<1>6. V \subseteq W /\ V \subseteq 0..Length /\ 0 \in V /\ Length \in V /\ a \in V
  <2>1. V \subseteq W
    OBVIOUS
  <2>2. W \subseteq 0..Length
    BY DEF Cuts
  <2>3. 0 # b /\ ~(Length < Length) /\ a # b
    BY <1>1, <1>2, SMTT(30)
  <2> QED
    BY <1>3, <1>4, <2>1, <2>2, <2>3
<1>7. Cuts(V, s)
  BY <1>6 DEF Cuts
<1>8. \A u \in V : u <= a \/ d <= u
  <2> SUFFICES ASSUME NEW u \in V PROVE u <= a \/ d <= u
    OBVIOUS
  <2>1. u \in W /\ u \in Int /\ (u # b \/ ~(u < Length))
    BY <1>1, <1>4, <1>6
  <2>2. Spaced(W, k, a) /\ (b < Length => Spaced(W, k, b))
    BY <1>1, <1>2, <1>3, SMTT(30) DEF Apart
  <2>3. /\ a < u => a + k <= u \/ u = Length
        /\ b < Length /\ b < u => b + k <= u \/ u = Length
    BY <2>1, <2>2 DEF Spaced
  <2> QED
    BY <1>1, <1>2, <2>1, <2>3, SMTT(30)
<1>9. \A w \in V : w < a => Spaced(V, 2 * k, w)
  <2> SUFFICES ASSUME NEW w \in V, w < a PROVE Spaced(V, 2 * k, w)
    OBVIOUS
  <2>1. Spaced(W, 2 * k, w)
    BY <1>6 DEF Apart
  <2>2. /\ \A u \in V : w < u => w + 2 * k <= u \/ u = Length
        /\ w + 2 * k < Length => w + 2 * k \in W
        /\ w + 2 * k <= a \/ a = Length
    BY <1>6, <2>1 DEF Spaced
  <2>3. w + 2 * k # b
    BY <1>1, <1>2, <1>6, <2>2, SMTT(30)
  <2> QED
    BY <1>4, <2>2, <2>3 DEF Spaced
<1>10. \A w \in V : d <= w => Spaced(V, k, w)
  <2> SUFFICES ASSUME NEW w \in V, d <= w PROVE Spaced(V, k, w)
    OBVIOUS
  <2>1. a <= w /\ w \in W /\ (w + k < Length => w + k # b)
    BY <1>1, <1>2, <1>6, SMTT(30)
  <2>2. Spaced(W, k, w)
    BY <2>1 DEF Apart
  <2> QED
    BY <1>4, <1>6, <2>1, <2>2 DEF Spaced
<1>11. \A i \in Element : i + 1 \in Element /\ i \notin V /\ i # a /\ i # b => Before(s[i], s[i + 1])
  BY <1>4 DEF Runs
<1>12. \A i \in Element : (a < i /\ i <= b => s[i] <= b) /\ (b < i /\ i <= d => b < s[i])
  <2> SUFFICES ASSUME NEW i \in Element PROVE (i <= b => s[i] <= b) /\ (b < i => b < s[i])
    OBVIOUS
  <2>1. i <= b <=> s[i] <= b
    BY <1>3 DEF Cuts
  <2>2. i \in Int /\ s[i] \in Int
    BY SMTT(30) DEF Perm, Element
  <2> QED
    BY <1>2, <2>1, <2>2, SMTT(30)
<1>13. ~(a < a) /\ a <= a /\ a <= b /\ a < d
  BY <1>1, <1>2, SMTT(30)
<1>14. Merging(s, V, k, a, b, a, d, b)
  <2> HIDE DEF V, b, d
  <2> QED
    BY <1>1, <1>2, <1>5, <1>6, <1>7, <1>8, <1>9, <1>10, <1>11, <1>12, <1>13 DEF Merging
<1> QED
  BY <1>14
\* The next element is taken from the first part.
LEMMA TakesFirst ==
    ASSUME NEW s, NEW W, NEW k, NEW a, NEW b, NEW c, NEW d, NEW h, Length \in Nat,
           val \in [Element -> Int], Merging(s, W, k, a, b, c, d, h),
           a < b, b < d => val[s[a + 1]] <= val[s[b + 1]]
    PROVE  Merging(s, W, k, a + 1, b, c, d, h)
<1>1. /\ a \in Int /\ b \in Int /\ c \in Int /\ d \in Int /\ h \in Int
      /\ 0 <= c /\ c <= a /\ a < b /\ b <= d /\ d <= Length /\ W \subseteq Int
  BY SMTT(30) DEF Merging, Cuts
<1>2. /\ a + 1 \in Element /\ a + 1 \in Int /\ c <= a + 1 /\ a + 1 <= b /\ c < a + 1
      /\ (c < a => a \in Element) /\ (b < d => b + 1 \in Element)
  BY <1>1, SMTT(30) DEF Element
<1>3. s \in [Element -> Element] /\ \A u \in W : u <= c \/ d <= u
  BY DEF Merging, Perm
<1>4. b < d => Before(s[a + 1], s[b + 1])
  <2> SUFFICES ASSUME b < d PROVE Before(s[a + 1], s[b + 1])
    OBVIOUS
  <2>1. s[a + 1] <= h /\ h < s[b + 1]
    <3>1. a < a + 1 /\ b < b + 1 /\ b + 1 <= d
      BY <1>1, SMTT(30)
    <3> QED
      BY <1>2, <3>1 DEF Merging
  <2>2. s[a + 1] \in Int /\ s[b + 1] \in Int /\ val[s[a + 1]] \in Int /\ val[s[b + 1]] \in Int
    BY <1>2, <1>3, SMTT(30) DEF Element
  <2> QED
    BY <1>1, <2>1, <2>2, SMTT(30) DEF Before
<1>5. a + 1 < b => Before(s[a + 1], s[(a + 1) + 1])
  <2> SUFFICES ASSUME a + 1 < b PROVE Before(s[a + 1], s[(a + 1) + 1])
    OBVIOUS
  <2>1. a + 1 \notin W /\ a + 1 # a /\ a + 1 # b /\ (a + 1) + 1 \in Element
    BY <1>1, <1>2, <1>3, SMTT(30) DEF Element
  <2> QED
    BY <1>2, <2>1 DEF Merging
<1>6. \A i \in Element : i + 1 \in Element /\ i \notin W /\ i # a + 1 /\ i # b => Before(s[i], s[i + 1])
  <2> SUFFICES ASSUME NEW i \in Element, i + 1 \in Element, i \notin W, i # a + 1, i # b
               PROVE  Before(s[i], s[i + 1])
    OBVIOUS
  <2>1. CASE i = a
    <3>1. a # c
      BY <2>1 DEF Merging
    <3>2. c < a
      BY <1>1, <3>1, SMTT(30)
    <3> QED
      BY <1>1, <2>1, <3>2 DEF Merging
  <2>2. CASE i # a
    BY <2>2 DEF Merging
  <2> QED
    BY <2>1, <2>2
<1>7. \A i \in Element : (a + 1 < i /\ i <= b => s[i] <= h) /\ (b < i /\ i <= d => h < s[i])
  <2>1. \A i \in Element : a + 1 < i => a < i
    BY <1>1, SMTT(30) DEF Element
  <2> QED
    BY <2>1 DEF Merging
<1>8. Merging(s, W, k, a, b, c, d, h)
  OBVIOUS
<1> QED
  BY <1>1, <1>2, <1>4, <1>5, <1>6, <1>7, <1>8 DEF Merging

\* Element b + 1 goes before those from a + 1 on: where an element comes from.
Source(a, b, i) == IF i = a + 1 THEN b + 1 ELSE IF a + 1 < i /\ i <= b + 1 THEN i - 1 ELSE i

Moved(s, a, b) == [i \in Element |-> s[Source(a, b, i)]]

IsMoved(s, a, b, t) ==
    /\ t[a + 1] = s[b + 1]
    /\ \A i \in Element : (a < i /\ i <= b => t[i + 1] = s[i]) /\ (i <= a \/ b + 1 < i => t[i] = s[i])

\* Where the elements are then.
LEMMA Moves ==
    ASSUME NEW s, NEW a \in Nat, NEW b \in Nat, Length \in Nat, a <= b, b < Length
    PROVE  IsMoved(s, a, b, Moved(s, a, b))
<1>1. a + 1 \in Element /\ \A i \in Element : i \in Int /\ (i <= b => i + 1 \in Element)
  BY SMTT(30) DEF Element
<1>2. Moved(s, a, b)[a + 1] = s[b + 1]
  BY <1>1 DEF Moved, Source
<1>3. ASSUME NEW i \in Element, a < i, i <= b PROVE Moved(s, a, b)[i + 1] = s[i]
  <2>1. i + 1 \in Element /\ i + 1 # a + 1 /\ a + 1 < i + 1 /\ i + 1 <= b + 1 /\ (i + 1) - 1 = i
    BY <1>1, <1>3, SMTT(30)
  <2> QED
    BY <2>1 DEF Moved, Source
<1>4. ASSUME NEW i \in Element, i <= a \/ b + 1 < i PROVE Moved(s, a, b)[i] = s[i]
  <2>1. i # a + 1 /\ ~(a + 1 < i /\ i <= b + 1)
    BY <1>1, <1>4, SMTT(30)
  <2> QED
    BY <2>1 DEF Moved, Source
<1> QED
  BY <1>2, <1>3, <1>4 DEF IsMoved

\* All elements are still there.
LEMMA MovedPerm ==
    ASSUME NEW s, NEW a \in Nat, NEW b \in Nat, Length \in Nat, a <= b, b < Length, Perm(s)
    PROVE  Perm(Moved(s, a, b))
<1> DEFINE t == Moved(s, a, b)
<1>1. \A i \in Element : Source(a, b, i) \in Element
  BY SMTT(30) DEF Element, Source
<1>2. \A i, j \in Element : Source(a, b, i) = Source(a, b, j) => i = j
  BY SMTT(30) DEF Element, Source
<1>3. \A j \in Element : \E i \in Element : Source(a, b, i) = j
  <2> SUFFICES ASSUME NEW j \in Element PROVE \E i \in Element : Source(a, b, i) = j
    OBVIOUS
  <2> DEFINE i == IF j = b + 1 THEN a + 1 ELSE IF a < j /\ j <= b THEN j + 1 ELSE j
  <2>1. i \in Element /\ Source(a, b, i) = j
    BY SMTT(30) DEF Element, Source
  <2> QED
    BY <2>1
<1>4. \A i \in Element : t[i] = s[Source(a, b, i)]
  BY DEF Moved
<1>5. t \in [Element -> Element]
  BY <1>1 DEF Perm, Moved
<1>6. \A i, j \in Element : t[i] = t[j] => i = j
  <2> SUFFICES ASSUME NEW i \in Element, NEW j \in Element, t[i] = t[j] PROVE i = j
    OBVIOUS
  <2>1. s[Source(a, b, i)] = s[Source(a, b, j)]
    BY <1>4
  <2> QED
    BY <1>1, <1>2, <2>1 DEF Perm
<1>7. ASSUME NEW e \in Element PROVE \E i \in Element : t[i] = e
  <2>1. PICK j \in Element : s[j] = e
    BY DEF Perm
  <2>2. PICK i \in Element : Source(a, b, i) = j
    BY <1>3
  <2> QED
    BY <1>4, <2>1, <2>2
<1> QED
  BY <1>5, <1>6, <1>7 DEF Perm

\* The next element is taken from the second part.
LEMMA TakesSecond ==
    ASSUME NEW s, NEW W, NEW k, NEW a, NEW b, NEW c, NEW d, NEW h, Length \in Nat,
           Merging(s, W, k, a, b, c, d, h), b < d, a < b => Before(s[b + 1], s[a + 1])
    PROVE  Merging(Moved(s, a, b), W, k, a + 1, b + 1, c, d, h)
<1> DEFINE t == Moved(s, a, b)
<1>1. /\ a \in Int /\ b \in Int /\ c \in Int /\ d \in Int /\ h \in Int
      /\ 0 <= c /\ c <= a /\ a <= b /\ b < d /\ d <= Length /\ W \subseteq Int /\ a \in Nat /\ b \in Nat /\ b < Length
  BY SMTT(30) DEF Merging, Cuts
<1>2. /\ a + 1 \in Element /\ a + 1 \in Int /\ b + 1 \in Int /\ b + 1 \in Element
      /\ c <= a + 1 /\ a + 1 <= b + 1 /\ b + 1 <= d /\ c < a + 1
      /\ (c < a => a \in Element)
  BY <1>1, SMTT(30) DEF Element
<1>3. \A u \in W : u <= c \/ d <= u
  BY DEF Merging
<1>4. Perm(s) /\ Perm(t)
  <2>1. Perm(s)
    BY DEF Merging
  <2> QED
    BY <1>1, <2>1, MovedPerm
<1>5. IsMoved(s, a, b, t)
  BY <1>1, Moves
<1> HIDE DEF t
<1>6. Cuts(W, t)
  <2>1. Cuts(W, s)
    BY DEF Merging
  <2>2. ASSUME NEW w \in W, NEW i \in Element PROVE i <= w <=> t[i] <= w
    <3>1. i \in Int /\ w \in Int /\ (w <= c \/ d <= w) /\ i \in Nat
      BY <1>1, <1>3, SMTT(30) DEF Element
    <3>2. CASE i <= a \/ b + 1 < i
      BY <1>5, <2>1, <3>2 DEF IsMoved, Cuts
    <3>3. CASE i = a + 1
      <4>1. t[i] = s[b + 1] /\ (b + 1 <= w <=> s[b + 1] <= w)
        BY <1>2, <1>5, <2>1, <3>3 DEF IsMoved, Cuts
      <4>2. a + 1 <= w <=> b + 1 <= w
        BY <1>1, <3>1, SMTT(30)
      <4> QED
        BY <3>3, <4>1, <4>2
    <3>4. CASE a + 1 < i /\ i <= b + 1
      <4>1. i - 1 \in Element /\ a < i - 1 /\ i - 1 <= b /\ (i - 1) + 1 = i
        BY <1>1, <3>1, <3>4, SMTT(30) DEF Element
      <4>2. t[i] = s[i - 1] /\ (i - 1 <= w <=> s[i - 1] <= w)
        BY <1>5, <2>1, <4>1 DEF IsMoved, Cuts
      <4>3. i <= w <=> i - 1 <= w
        BY <1>1, <3>1, <3>4, SMTT(30)
      <4> QED
        BY <4>2, <4>3
    <3> QED
      BY <1>1, <3>1, <3>2, <3>3, <3>4, SMTT(30)
  <2> QED
    BY <2>1, <2>2 DEF Cuts
<1>7. b + 1 < d => Before(t[a + 1], t[(b + 1) + 1])
  <2> SUFFICES ASSUME b + 1 < d PROVE Before(t[a + 1], t[(b + 1) + 1])
    OBVIOUS
  <2>1. /\ b + 1 \notin W /\ b + 1 # a /\ b + 1 # b /\ (b + 1) + 1 \in Element
        /\ b + 1 < (b + 1) + 1
    BY <1>1, <1>2, <1>3, SMTT(30) DEF Element
  <2>2. Before(s[b + 1], s[(b + 1) + 1])
    BY <1>2, <2>1 DEF Merging
  <2> QED
    BY <1>5, <2>1, <2>2 DEF IsMoved
<1>8. a + 1 < b + 1 => Before(t[a + 1], t[(a + 1) + 1])
  <2> SUFFICES ASSUME a + 1 < b + 1 PROVE Before(t[a + 1], t[(a + 1) + 1])
    OBVIOUS
  <2>1. a < b /\ a < a + 1 /\ a + 1 <= b
    BY <1>1, SMTT(30)
  <2>2. t[a + 1] = s[b + 1] /\ t[(a + 1) + 1] = s[a + 1]
    BY <1>2, <1>5, <2>1 DEF IsMoved
  <2> QED
    BY <2>1, <2>2
<1>9. ASSUME NEW i \in Element, i + 1 \in Element, i \notin W, i # a + 1, i # b + 1
      PROVE  Before(t[i], t[i + 1])
  <2>1. i \in Int /\ i \in Nat /\ i > 0
    BY <1>1, SMTT(30) DEF Element
  <2>2. CASE i = a
    <3>1. a # c
      BY <1>9, <2>2 DEF Merging
    <3>2. c < a /\ a <= a
      BY <1>1, <3>1, SMTT(30)
    <3>3. t[a] = s[a] /\ t[a + 1] = s[b + 1]
      BY <1>2, <1>5, <3>2 DEF IsMoved
    <3>4. Before(s[a], s[b + 1])
      BY <1>1, <3>2 DEF Merging
    <3> QED
      BY <2>2, <3>3, <3>4
  <2>3. CASE a + 1 < i /\ i <= b
    <3>1. /\ i - 1 \in Element /\ (i - 1) + 1 = i /\ i - 1 # a /\ i - 1 # b
          /\ a < i - 1 /\ i - 1 <= b /\ a < i /\ i - 1 \notin W
      BY <1>1, <1>3, <2>1, <2>3, SMTT(30) DEF Element
    <3>2. t[i] = s[i - 1] /\ t[i + 1] = s[i]
      <4>1. t[(i - 1) + 1] = s[i - 1]
        BY <1>5, <3>1 DEF IsMoved
      <4> QED
        BY <1>5, <2>3, <3>1, <4>1 DEF IsMoved
    <3>3. Before(s[i - 1], s[(i - 1) + 1])
      BY <3>1 DEF Merging
    <3> QED
      BY <3>1, <3>2, <3>3
  <2>4. CASE i < a \/ b + 1 < i
    <3>1. /\ i <= a \/ b + 1 < i
          /\ i + 1 <= a \/ b + 1 < i + 1
          /\ i # a /\ i # b
      BY <1>1, <2>1, <2>4, SMTT(30)
    <3>2. t[i] = s[i] /\ t[i + 1] = s[i + 1]
      BY <1>5, <1>9, <3>1 DEF IsMoved
    <3>3. Before(s[i], s[i + 1])
      BY <1>9, <3>1 DEF Merging
    <3> QED
      BY <3>2, <3>3
  <2> QED
    BY <1>1, <1>9, <2>1, <2>2, <2>3, <2>4, SMTT(30)
<1>10. ASSUME NEW i \in Element
       PROVE  (a + 1 < i /\ i <= b + 1 => t[i] <= h) /\ (b + 1 < i /\ i <= d => h < t[i])
  <2>1. i \in Int
    BY <1>1, SMTT(30) DEF Element
  <2>2. ASSUME a + 1 < i, i <= b + 1 PROVE t[i] <= h
    <3>1. i - 1 \in Element /\ (i - 1) + 1 = i /\ a < i - 1 /\ i - 1 <= b
      BY <1>1, <2>1, <2>2, SMTT(30) DEF Element
    <3>2. t[(i - 1) + 1] = s[i - 1] /\ s[i - 1] <= h
      BY <1>5, <3>1 DEF IsMoved, Merging
    <3> QED
      BY <3>1, <3>2
  <2>3. ASSUME b + 1 < i, i <= d PROVE h < t[i]
    <3>1. b < i
      BY <1>1, <2>1, <2>3, SMTT(30)
    <3> QED
      BY <1>5, <2>3, <3>1 DEF IsMoved, Merging
  <2> QED
    BY <2>2, <2>3
<1>11. Merging(s, W, k, a, b, c, d, h)
  OBVIOUS
<1> QED
  <2>1. Merging(t, W, k, a + 1, b + 1, c, d, h)
    BY <1>2, <1>4, <1>6, <1>7, <1>8, <1>9, <1>10, <1>11 DEF Merging
  <2> QED
    BY <2>1 DEF t

\* A merge has come to its end.
LEMMA MergeEnds ==
    ASSUME NEW s, NEW W, NEW k \in Nat \ {0}, NEW c, NEW d, NEW h, Length \in Nat,
           Merging(s, W, k, d, d, c, d, h)
    PROVE  /\ Perm(s) /\ Cuts(W, s) /\ d \in W /\ Runs(s, W) /\ Apart(W, d, k, 2 * k)
           /\ \A u \in W : c < u => d <= u
<1>1. /\ Perm(s) /\ Cuts(W, s) /\ d \in W /\ c \in W /\ W \subseteq Int /\ c \in Int /\ d \in Int /\ c < d
      /\ d = IF c + 2 * k < Length THEN c + 2 * k ELSE Length
      /\ \A u \in W : u <= c \/ d <= u
  BY SMTT(30) DEF Merging, Cuts
<1>2. Runs(s, W)
  BY <1>1 DEF Runs, Merging
<1>3. \A u \in W : c < u => d <= u
  BY <1>1, SMTT(30)
<1>4. Spaced(W, 2 * k, c)
  <2>1. \A u \in W : c < u => c + 2 * k <= u \/ u = Length
    <3> SUFFICES ASSUME NEW u \in W, c < u PROVE c + 2 * k <= u \/ u = Length
      OBVIOUS
    <3>1. d <= u /\ u \in Int /\ u <= Length
      BY <1>3, SMTT(30) DEF Merging, Cuts
    <3> QED
      BY <1>1, <3>1, SMTT(30)
  <2>2. c + 2 * k < Length => c + 2 * k = d
    BY <1>1
  <2> QED
    BY <1>1, <2>1, <2>2 DEF Spaced
<1>5. ASSUME NEW w \in W PROVE (w < d => Spaced(W, 2 * k, w)) /\ (d <= w => Spaced(W, k, w))
  <2>1. w < d => w < c \/ w = c
    BY <1>1, SMTT(30)
  <2> QED
    BY <1>4, <2>1 DEF Merging
<1> QED
  BY <1>1, <1>2, <1>3, <1>5 DEF Apart
-----------------------------------------------------------------------------
(* The links. *)

\* a elements are linked into the merged list.
Front(s, a) ==
    /\ list = IF a = 0 THEN 0 ELSE s[1]
    /\ tail = IF a = 0 THEN 0 ELSE s[a]
    /\ \A i \in Element : i < a => next[s[i]] = s[i + 1]
    /\ is_double => \A i \in Element : i <= a => prev[s[i]] = IF i = 1 THEN 0 ELSE s[i - 1]

Chained(s, a, b) == \A i \in Element : a < i /\ i < b => After(s[i]) = s[i + 1]

\* e is the first of the elements behind b, which are still linked as they were.
Behind(s, b, e) ==
    /\ e = IF b < Length THEN s[b + 1] ELSE 0
    /\ Chained(s, b, Length)
    /\ b < Length => After(s[Length]) = 0

ListTypes ==
    /\ Length \in Nat \ {0} /\ val \in [Element -> Int]
    /\ is_circular \in BOOLEAN /\ is_double \in BOOLEAN
    /\ insize \in Nat \ {0} /\ nmerges \in Nat
    /\ next \in [Element -> 0..Length] /\ prev \in [Element -> 0..Length]
    /\ pc \in {"pass", "merge", "take", "done"}

\* All elements are linked in the order s.
Closed(s) ==
    /\ list = s[1]
    /\ \A i \in Element : i < Length => next[s[i]] = s[i + 1]
    /\ next[s[Length]] = IF is_circular THEN s[1] ELSE 0

PassInv(s, W) ==
    /\ Perm(s) /\ Cuts(W, s) /\ Apart(W, 0, insize, 2 * insize) /\ Runs(s, W)
    /\ Closed(s)

MergeInv(s, W, a) ==
    /\ Perm(s) /\ Cuts(W, s) /\ a \in W /\ Apart(W, a, insize, 2 * insize) /\ Runs(s, W)
    /\ Front(s, a) /\ Behind(s, a, lp)
    /\ nmerges = 0 => a = 0
    /\ nmerges = 1 => \A u \in W : 0 < u => a <= u

TakeInv(s, W, a, b, c, d, h) ==
    /\ Merging(s, W, insize, a, b, c, d, h)
    /\ Front(s, a)
    /\ a < b => lp = s[a + 1]
    /\ Chained(s, a, b) /\ Behind(s, b, lq)
    /\ psize = b - a /\ qsize \in Nat
    /\ b + qsize = c + 2 * insize \/ (b = Length /\ Length <= c + 2 * insize)
    /\ nmerges # 0 /\ (nmerges = 1 => c = 0)

DoneInv(s) ==
    /\ Perm(s) /\ Runs(s, {}) /\ Closed(s)
    /\ is_double => /\ prev[s[1]] = IF is_circular THEN s[Length] ELSE 0
                    /\ \A i \in Element : 1 < i => prev[s[i]] = s[i - 1]

ListInv ==
    /\ ListTypes
    /\ pc = "pass" => \E s, W : PassInv(s, W)
    /\ pc = "merge" => \E s, W, a : MergeInv(s, W, a)
    /\ pc = "take" => \E s, W, a, b, c, d, h : TakeInv(s, W, a, b, c, d, h)
    /\ pc = "done" => \E s : DoneInv(s)

\* A list as the test sets it up.
LEMMA ListStarts ==
    ASSUME ListInit
    PROVE  ListInv
<1> DEFINE s == [i \in Element |-> i]
           W == 0..Length
<1>1. PICK len \in 1..MaxLen : val \in [1..len -> Values]
  BY DEF ListInit
<1>2. Length = len /\ Length \in Nat \ {0} /\ val \in [Element -> Int]
  <2>1. len \in Nat \ {0}
    BY ListAssumption, SMTT(30)
  <2>2. Len(val) = len
    BY <1>1, <2>1, SMTT(30)
  <2>3. val \in [1..len -> Int]
    BY <1>1, ListAssumption
  <2> QED
    BY <2>1, <2>2, <2>3 DEF Length, Element
<1>3. ListTypes
  <2>1. next \in [Element -> 0..Length]
    <3>1. \A e \in Element : FirstNext(e) \in 0..Length
      BY <1>2, SMTT(30) DEF Element, FirstNext
    <3> QED
      BY <3>1 DEF ListInit
  <2>2. prev \in [Element -> 0..Length]
    <3>1. 0 \in 0..Length /\ \A e \in Element : FirstPrev(e) \in 0..Length
      BY <1>2, SMTT(30) DEF Element, FirstPrev
    <3>2. \A e \in Element : (IF is_double THEN FirstPrev(e) ELSE 0) \in 0..Length
      BY <3>1
    <3> QED
      BY <3>2 DEF ListInit
  <2>3. 1 \in Nat \ {0} /\ 0 \in Nat
    BY SMTT(30)
  <2> QED
    BY <1>2, <2>1, <2>2, <2>3 DEF ListInit, ListTypes
<1>4. Perm(s)
  BY DEF Perm
<1>5. Cuts(W, s)
  <2>1. 0 \in W /\ Length \in W
    BY <1>2, SMTT(30)
  <2> QED
    BY <2>1 DEF Cuts
<1>6. Apart(W, 0, insize, 2 * insize)
  <2>1. insize = 1
    BY DEF ListInit
  <2>2. \A w \in W : Spaced(W, 1, w) /\ ~(w < 0)
    BY <1>2, SMTT(30) DEF Spaced
  <2> QED
    BY <2>1, <2>2 DEF Apart
<1>7. Runs(s, W)
  BY <1>2, SMTT(30) DEF Runs, Element
<1>8. Closed(s)
  <2>1. /\ 1 \in Element /\ Length \in Element /\ ~(Length < Length)
        /\ \A i \in Element : i < Length => i + 1 \in Element
    BY <1>2, SMTT(30) DEF Element
  <2> QED
    BY <2>1 DEF Closed, ListInit, FirstNext
<1> HIDE DEF s, W
<1>9. PassInv(s, W)
  BY <1>4, <1>5, <1>6, <1>7, <1>8 DEF PassInv
<1>10. pc = "pass" /\ "pass" # "merge" /\ "pass" # "take" /\ "pass" # "done"
  BY DEF ListInit
<1> QED
  BY <1>3, <1>9, <1>10 DEF ListInv

\* A new pass.
LEMMA PassStarts ==
    ASSUME ListTypes, NEW s, NEW W, PassInv(s, W), pass
    PROVE  MergeInv(s, W, 0)'
<1>1. /\ val' = val /\ is_circular' = is_circular /\ is_double' = is_double
      /\ next' = next /\ prev' = prev /\ insize' = insize
      /\ lp' = list /\ oldhead' = list /\ list' = 0 /\ tail' = 0 /\ nmerges' = 0
  BY DEF pass, args
<1>2. Length' = Length /\ Element' = Element /\ Length \in Nat /\ Length > 0
  BY <1>1, SMTT(30) DEF Length, Element, ListTypes
<1>3. /\ 1 \in Element /\ Length \in Element /\ 0 < Length /\ 0 + 1 = 1
      /\ \A i \in Element : i < Length => i + 1 \in Element /\ i + 1 # 1
      /\ \A i \in Element : ~(i < 0) /\ ~(i <= 0)
  BY <1>2, SMTT(30) DEF Element
<1>4. Perm(s) /\ Cuts(W, s) /\ Apart(W, 0, insize, 2 * insize) /\ Runs(s, W) /\ Closed(s)
  BY DEF PassInv
<1>5. /\ Perm(s)' /\ Cuts(W, s)' /\ Apart(W, 0, insize, 2 * insize)' /\ Runs(s, W)' /\ 0 \in W
  BY <1>1, <1>2, <1>4 DEF Perm, Cuts, Apart, Spaced, Runs, Before
<1>6. Front(s, 0)'
  BY <1>1, <1>2, <1>3 DEF Front
<1>7. Behind(s, 0, lp)'
  <2>1. ASSUME NEW i \in Element, i < Length PROVE After(s[i])' = s[i + 1]
    <3>1. next[s[i]] = s[i + 1] /\ s[i + 1] # s[1]
      BY <1>3, <1>4, <2>1 DEF Closed, Perm
    <3> QED
      BY <1>1, <1>4, <3>1 DEF After, Closed
  <2>2. After(s[Length])' = 0
    <3>1. next[s[Length]] = IF is_circular THEN list ELSE 0
      BY <1>4 DEF Closed
    <3>2. After(s[Length])' = IF is_circular /\ next[s[Length]] = list THEN 0 ELSE next[s[Length]]
      BY <1>1, <1>2 DEF After
    <3> QED
      BY <3>1, <3>2
  <2>3. lp' = s[1]
    BY <1>1, <1>4 DEF Closed
  <2> QED
    BY <1>2, <1>3, <2>1, <2>2, <2>3 DEF Behind, Chained
<1>8. nmerges' = 0 /\ nmerges' # 1
  BY <1>1, SMTT(30)
<1> QED
  BY <1>5, <1>6, <1>7, <1>8 DEF MergeInv

\* Where stepping along from the elements behind a leads.
AlongFrom(s, a, i) ==
    [at |-> IF a + i < Length THEN s[a + i + 1] ELSE 0, steps |-> IF a + i < Length THEN i ELSE Length - a]

IsAlong(e, k, f) ==
    f = [i \in 0..k |-> IF i = 0 THEN [at |-> e, steps |-> 0]
                         ELSE IF f[i - 1].at = 0 THEN f[i - 1]
                         ELSE [at |-> After(f[i - 1].at), steps |-> i]]

\* A step along.
LEMMA AlongStep ==
    ASSUME NEW s, NEW a \in Nat, NEW i \in Nat \ {0}, Length \in Nat \ {0}, Perm(s), a < Length, Behind(s, a, s[a + 1])
    PROVE  AlongFrom(s, a, i) = IF AlongFrom(s, a, i - 1).at = 0 THEN AlongFrom(s, a, i - 1)
                                ELSE [at |-> After(AlongFrom(s, a, i - 1).at), steps |-> i]
<1> DEFINE last == AlongFrom(s, a, i - 1)
<1>1. /\ a + (i - 1) + 1 = a + i /\ Length - a + 1 \in Int
      /\ a + i < Length => a + (i - 1) < Length
      /\ a + i <= Length <=> a + (i - 1) < Length
  BY SMTT(30)
<1>2. /\ last.at = IF a + (i - 1) < Length THEN s[a + i] ELSE 0
      /\ last.steps = IF a + (i - 1) < Length THEN i - 1 ELSE Length - a
      /\ last = [at |-> last.at, steps |-> last.steps]
  BY <1>1 DEF AlongFrom
<1>3. CASE a + i < Length
  <2>1. a + i \in Element /\ a < a + i /\ Length \in Element
    BY <1>3, SMTT(30) DEF Element
  <2>2. s[a + i] # 0 /\ After(s[a + i]) = s[a + i + 1]
    <3>1. s[a + i] \in Element
      BY <2>1 DEF Perm
    <3>2. 0 \notin Element
      BY SMTT(30) DEF Element
    <3> QED
      BY <1>3, <2>1, <3>1, <3>2 DEF Behind, Chained
  <2> QED
    BY <1>1, <1>2, <1>3, <2>2 DEF AlongFrom
<1>4. CASE a + i = Length
  <2>1. a + i \in Element /\ ~(a + i < Length) /\ a + (i - 1) < Length /\ Length - a = i
    BY <1>4, SMTT(30) DEF Element
  <2>2. s[a + i] # 0 /\ After(s[a + i]) = 0
    <3>1. s[a + i] \in Element
      BY <2>1 DEF Perm
    <3>2. 0 \notin Element
      BY SMTT(30) DEF Element
    <3> QED
      BY <1>4, <2>1, <3>1, <3>2 DEF Behind
  <2> QED
    BY <1>2, <2>1, <2>2 DEF AlongFrom
<1>5. CASE Length < a + i
  <2>1. ~(a + i < Length) /\ ~(a + (i - 1) < Length)
    BY <1>5, SMTT(30)
  <2> QED
    BY <1>2, <2>1 DEF AlongFrom
<1> QED
  BY <1>3, <1>4, <1>5, SMTT(30)

\* What stepping along gives.
LEMMA AlongIs ==
    ASSUME NEW s, NEW a \in Nat, NEW k \in Nat, Length \in Nat \ {0}, Perm(s), a < Length, Behind(s, a, s[a + 1])
    PROVE  Along(s[a + 1], k) = AlongFrom(s, a, k)
<1> DEFINE e == s[a + 1]
           g == [i \in 0..k |-> AlongFrom(s, a, i)]
           f == CHOOSE f : IsAlong(e, k, f)
<1>1. AlongFrom(s, a, 0) = [at |-> e, steps |-> 0]
  <2>1. a + 0 = a
    BY SMTT(30)
  <2> QED
    BY <2>1 DEF AlongFrom
<1>2. \A i \in 0..k : i # 0 => /\ i - 1 \in 0..k /\ i \in Nat \ {0}
                              /\ AlongFrom(s, a, i) = IF AlongFrom(s, a, i - 1).at = 0 THEN AlongFrom(s, a, i - 1)
                                                       ELSE [at |-> After(AlongFrom(s, a, i - 1).at), steps |-> i]
  <2> SUFFICES ASSUME NEW i \in 0..k, i # 0
               PROVE  /\ i - 1 \in 0..k /\ i \in Nat \ {0}
                      /\ AlongFrom(s, a, i) = IF AlongFrom(s, a, i - 1).at = 0 THEN AlongFrom(s, a, i - 1)
                                               ELSE [at |-> After(AlongFrom(s, a, i - 1).at), steps |-> i]
    OBVIOUS
  <2>1. i - 1 \in 0..k /\ i \in Nat \ {0}
    BY SMTT(30)
  <2> QED
    BY <2>1, AlongStep
<1>3. IsAlong(e, k, g)
  <2> DEFINE step(i) == IF i = 0 THEN [at |-> e, steps |-> 0]
                     ELSE IF g[i - 1].at = 0 THEN g[i - 1]
                     ELSE [at |-> After(g[i - 1].at), steps |-> i]
  <2>1. \A i \in 0..k : g[i] = step(i)
    BY <1>1, <1>2
  <2>2. g = [i \in 0..k |-> g[i]]
    OBVIOUS
  <2>3. g = [i \in 0..k |-> step(i)]
    <3> HIDE DEF g, step
    <3> QED
      BY <2>1, <2>2
  <2> HIDE DEF g
  <2> QED
    BY <2>3 DEF IsAlong
<1>4. IsAlong(e, k, f)
  BY <1>3
<1>5. Along(e, k) = f[k]
  BY DEF Along, IsAlong
<1> HIDE DEF f, g
<1>6. \A i \in 0..k : f[i] = IF i = 0 THEN [at |-> e, steps |-> 0]
                             ELSE IF f[i - 1].at = 0 THEN f[i - 1]
                             ELSE [at |-> After(f[i - 1].at), steps |-> i]
  BY <1>4 DEF IsAlong
<1> DEFINE Bad == {i \in 0..k : f[i] # AlongFrom(s, a, i)}
<1>7. Bad = {}
  <2> SUFFICES ASSUME Bad # {} PROVE FALSE
    OBVIOUS
  <2>1. Bad \in SUBSET Nat
    BY SMTT(30)
  <2>2. PICK m \in Bad : \A i \in Bad : m <= i
    BY <2>1, Least
  <2>3. m \in 0..k /\ f[m] # AlongFrom(s, a, m)
    OBVIOUS
  <2>4. m # 0
    BY <1>1, <1>6, <2>3
  <2>5. m - 1 \in 0..k /\ ~(m <= m - 1)
    BY <2>3, <2>4, SMTT(30)
  <2>6. f[m - 1] = AlongFrom(s, a, m - 1)
    BY <2>2, <2>5
  <2> QED
    BY <1>2, <1>6, <2>3, <2>4, <2>6
<1>8. k \in 0..k
  BY SMTT(30)
<1> QED
  BY <1>5, <1>7, <1>8

\* The two parts to merge next.
LEMMA MergeSteps ==
    ASSUME ListTypes, NEW s, NEW W, NEW a, MergeInv(s, W, a), merge
    PROVE  ListTypes' /\ \E V, b, d : TakeInv(s, V, a, b, a, d, b)'
<1>1. /\ val' = val /\ is_circular' = is_circular /\ is_double' = is_double
      /\ next' = next /\ prev' = prev /\ insize' = insize /\ list' = list /\ lp' = lp
      /\ tail' = tail /\ oldhead' = oldhead /\ nmerges' = nmerges + 1 /\ qsize' = insize
      /\ lq' = Along(lp, insize).at /\ psize' = Along(lp, insize).steps /\ lp # 0 /\ pc' = "take"
  BY DEF merge, args
<1>2. /\ Length' = Length /\ Element' = Element /\ Length \in Nat \ {0} /\ Length \in Nat
      /\ insize \in Nat /\ insize \in Nat \ {0} /\ nmerges \in Nat
  BY <1>1 DEF Length, Element, ListTypes
<1>3. ListTypes'
  <2>1. nmerges + 1 \in Nat
    BY <1>2, SMTT(30)
  <2> QED
    BY <1>1, <1>2, <2>1 DEF ListTypes
<1>4. /\ Perm(s) /\ Cuts(W, s) /\ a \in W /\ Apart(W, a, insize, 2 * insize) /\ Runs(s, W)
      /\ Front(s, a) /\ Behind(s, a, lp)
  BY DEF MergeInv
<1>5. a \in Nat /\ a < Length /\ lp = s[a + 1]
  <2>1. a \in Nat
    BY <1>2, <1>4, SMTT(30) DEF Cuts
  <2> QED
    BY <1>1, <1>4, <2>1 DEF Behind
<1>6. Along(lp, insize) = AlongFrom(s, a, insize)
  BY <1>2, <1>4, <1>5, AlongIs
<1>7. PICK b, d, V : b = Upper(a, insize) /\ d = Upper(a, 2 * insize) /\ V = W \ {u \in {b} : u < Length}
  OBVIOUS
<1>8. /\ b \in Nat /\ a < b /\ b <= Length /\ insize \in Nat
      /\ b + insize = a + 2 * insize \/ (b = Length /\ Length <= a + 2 * insize)
  BY <1>2, <1>5, <1>7, SMTT(30) DEF Upper
<1>9. lq' = (IF b < Length THEN s[b + 1] ELSE 0) /\ psize' = b - a
  <2>1. /\ a + insize < Length => b = a + insize /\ b < Length /\ b - a = insize
        /\ ~(a + insize < Length) => b = Length /\ ~(b < Length)
    BY <1>2, <1>5, <1>7, SMTT(30) DEF Upper
  <2>2. /\ AlongFrom(s, a, insize).at = IF a + insize < Length THEN s[a + insize + 1] ELSE 0
        /\ AlongFrom(s, a, insize).steps = IF a + insize < Length THEN insize ELSE Length - a
    BY DEF AlongFrom
  <2>3. /\ lq' = IF a + insize < Length THEN s[a + insize + 1] ELSE 0
        /\ psize' = IF a + insize < Length THEN insize ELSE Length - a
    BY <1>1, <1>6, <2>2
  <2> QED
    BY <2>1, <2>3
<1>10. Merging(s, V, insize, a, b, a, d, b)
  BY <1>2, <1>4, <1>5, <1>7, MergeStarts
<1>11. Merging(s, V, insize, a, b, a, d, b)'
  BY <1>1, <1>2, <1>10 DEF Merging, Perm, Cuts, Spaced, Before
<1>12. Front(s, a)'
  BY <1>1, <1>2, <1>4 DEF Front
<1>13. \A e : After(e)' = After(e)
  BY <1>1 DEF After
<1>14. Chained(s, a, b)'
  <2>1. \A i \in Element : i < b => i < Length
    BY <1>2, <1>8, SMTT(30) DEF Element
  <2> QED
    BY <1>2, <1>4, <1>13, <2>1 DEF Chained, Behind
<1>15. Behind(s, b, lq)'
  <2>1. \A i \in Element : b < i => a < i
    BY <1>2, <1>5, <1>8, SMTT(30) DEF Element
  <2> QED
    BY <1>2, <1>4, <1>5, <1>9, <1>13, <2>1 DEF Chained, Behind
<1>16. nmerges' # 0 /\ (nmerges' = 1 => a = 0)
  <2>1. nmerges + 1 # 0 /\ (nmerges + 1 = 1 => nmerges = 0)
    BY <1>2, SMTT(30)
  <2> QED
    BY <1>1, <2>1 DEF MergeInv
<1>17. TakeInv(s, V, a, b, a, d, b)'
  BY <1>1, <1>2, <1>5, <1>8, <1>9, <1>11, <1>12, <1>14, <1>15, <1>16 DEF TakeInv
<1> QED
  BY <1>3, <1>17

\* An element linked to the end of the merged list.
LEMMA Linked ==
    ASSUME ListTypes, NEW s, NEW a \in Nat, a < Length, Perm(s), Front(s, a),
           val' = val, is_double' = is_double, tail' = s[a + 1],
           next' = IF tail = 0 THEN next ELSE [next EXCEPT ![tail] = s[a + 1]],
           list' = IF tail = 0 THEN s[a + 1] ELSE list,
           prev' = IF is_double THEN [prev EXCEPT ![s[a + 1]] = tail] ELSE prev
    PROVE  Front(s, a + 1)' /\ next' \in [Element -> 0..Length] /\ prev' \in [Element -> 0..Length]
<1>1. Length' = Length /\ Element' = Element /\ Length \in Nat \ {0}
  BY DEF Length, Element, ListTypes
<1>2. /\ 0 \notin Element /\ a + 1 \in Element /\ a + 1 # 0 /\ (a # 0 => a \in Element) /\ 1 \in Element
      /\ Element \subseteq 0..Length /\ 0 \in 0..Length /\ (a + 1) - 1 = a /\ 0 + 1 = 1 /\ (a # 0 => a + 1 # 1)
      /\ \A i \in Element : /\ i < a + 1 <=> (i < a \/ i = a)
                            /\ i <= a + 1 <=> (i <= a \/ i = a + 1)
                            /\ i < a => i # a /\ i + 1 \in Element
                            /\ i <= a => i # a + 1
  BY <1>1, SMTT(30) DEF Element
<1>3. s \in [Element -> Element] /\ \A i, j \in Element : s[i] = s[j] => i = j
  BY DEF Perm
<1>4. /\ list = (IF a = 0 THEN 0 ELSE s[1]) /\ tail = (IF a = 0 THEN 0 ELSE s[a])
      /\ \A i \in Element : i < a => next[s[i]] = s[i + 1]
      /\ is_double => \A i \in Element : i <= a => prev[s[i]] = IF i = 1 THEN 0 ELSE s[i - 1]
  BY DEF Front
<1>5. s[a + 1] \in Element /\ (a # 0 => s[a] \in Element /\ tail = s[a] /\ tail # 0) /\ (a = 0 => tail = 0)
  <2>1. s[a + 1] \in Element /\ (a # 0 => s[a] \in Element)
    BY <1>2, <1>3
  <2>2. (a # 0 => tail = s[a]) /\ (a = 0 => tail = 0)
    BY <1>4
  <2> QED
    BY <1>2, <2>1, <2>2
<1>6. next \in [Element -> 0..Length] /\ prev \in [Element -> 0..Length]
  BY DEF ListTypes
<1>7. next' \in [Element -> 0..Length] /\ prev' \in [Element -> 0..Length]
  <2>1. s[a + 1] \in 0..Length /\ tail \in 0..Length
    BY <1>2, <1>5
  <2> QED
    BY <1>6, <2>1
<1>8. list' = s[1]
  BY <1>2, <1>4, <1>5
<1>9. ASSUME NEW i \in Element, i < a + 1 PROVE next'[s[i]] = s[i + 1]
  <2>1. a # 0
    BY <1>1, <1>9, SMTT(30) DEF Element
  <2>2. next' = [next EXCEPT ![s[a]] = s[a + 1]] /\ s[a] \in Element /\ a \in Element
    BY <1>2, <1>5, <2>1
  <2>3. CASE i = a
    BY <1>6, <2>2, <2>3
  <2>4. CASE i < a
    <3>1. s[i] # s[a] /\ s[i] \in Element
      BY <1>2, <1>3, <2>2, <2>4
    <3> QED
      BY <1>4, <1>6, <2>2, <2>4, <3>1
  <2> QED
    BY <1>2, <1>9, <2>3, <2>4
<1>10. ASSUME is_double, NEW i \in Element, i <= a + 1 PROVE prev'[s[i]] = IF i = 1 THEN 0 ELSE s[i - 1]
  <2>1. prev' = [prev EXCEPT ![s[a + 1]] = tail]
    BY <1>10
  <2>2. CASE i = a + 1
    <3>1. prev'[s[i]] = tail
      BY <1>5, <1>6, <2>1, <2>2
    <3> QED
      BY <1>2, <1>4, <2>2, <3>1
  <2>3. CASE i <= a
    <3>1. s[i] # s[a + 1] /\ s[i] \in Element
      BY <1>2, <1>3, <2>3
    <3> QED
      BY <1>4, <1>6, <1>10, <2>1, <2>3, <3>1
  <2> QED
    BY <1>2, <1>10, <2>2, <2>3
<1> QED
  BY <1>1, <1>2, <1>7, <1>8, <1>9, <1>10 DEF Front

\* The links of the elements behind are kept.
LEMMA Kept ==
    ASSUME ListTypes, NEW s, NEW a \in Nat, NEW e, a < Length, Perm(s), Front(s, a),
           is_circular' = is_circular, oldhead' = oldhead,
           next' = IF tail = 0 THEN next ELSE [next EXCEPT ![tail] = e]
    PROVE  \A i \in Element : a < i => After(s[i])' = After(s[i])
<1> SUFFICES ASSUME NEW i \in Element, a < i PROVE After(s[i])' = After(s[i])
  OBVIOUS
<1>1. Length \in Nat \ {0} /\ next \in [Element -> 0..Length]
  BY DEF ListTypes
<1>2. (a # 0 => a \in Element) /\ i # a /\ 0 \notin Element
  BY <1>1, SMTT(30) DEF Element
<1>3. s[i] \in Element /\ (a # 0 => s[i] # s[a])
  BY <1>2 DEF Perm
<1>4. tail = IF a = 0 THEN 0 ELSE s[a]
  BY DEF Front
<1>5. next'[s[i]] = next[s[i]]
  <2>1. CASE tail = 0
    BY <2>1
  <2>2. CASE tail # 0
    <3>1. s[i] # tail /\ next' = [next EXCEPT ![tail] = e]
      BY <1>3, <1>4, <2>2
    <3> QED
      BY <1>1, <1>3, <3>1
  <2> QED
    BY <2>1, <2>2
<1> QED
  BY <1>5 DEF After

\* When the lists to merge go on.
LEMMA Goes ==
    ASSUME ListTypes, NEW s, NEW W, NEW a, NEW b, NEW c, NEW d, NEW h, TakeInv(s, W, a, b, c, d, h)
    PROVE  /\ a \in Nat /\ b \in Nat /\ c \in Nat /\ d \in Nat /\ a <= b /\ b <= d /\ d <= Length
           /\ psize > 0 <=> a < b
           /\ qsize = 0 \/ lq = 0 <=> ~(b < d)
           /\ qsize > 0 /\ lq # 0 <=> b < d
           /\ b < d => lq = s[b + 1] /\ qsize \in Nat \ {0}
<1>1. Length \in Nat \ {0} /\ insize \in Nat \ {0}
  BY DEF ListTypes
<1>2. /\ Merging(s, W, insize, a, b, c, d, h) /\ Behind(s, b, lq) /\ psize = b - a /\ qsize \in Nat
      /\ b + qsize = c + 2 * insize \/ (b = Length /\ Length <= c + 2 * insize)
  BY DEF TakeInv
<1>3. /\ a \in Nat /\ b \in Nat /\ c \in Nat /\ d \in Nat /\ a <= b /\ b <= d /\ d <= Length
      /\ d = IF c + 2 * insize < Length THEN c + 2 * insize ELSE Length
  <2>1. /\ c \in 0..Length /\ d \in 0..Length /\ a \in Int /\ b \in Int /\ c <= a /\ a <= b /\ b <= d
        /\ d = IF c + 2 * insize < Length THEN c + 2 * insize ELSE Length
    BY <1>2 DEF Merging, Cuts
  <2> QED
    BY <1>1, <2>1, SMTT(30)
<1>4. lq # 0 <=> b < Length
  <2>1. 0 \notin Element /\ (b < Length => b + 1 \in Element)
    BY <1>1, <1>3, SMTT(30) DEF Element
  <2>2. b < Length => s[b + 1] \in Element
    BY <1>2, <2>1 DEF Merging, Perm
  <2> QED
    BY <1>2, <2>1, <2>2 DEF Behind
<1>5. b < d => lq = s[b + 1]
  <2>1. b < d => b < Length
    BY <1>1, <1>3, SMTT(30)
  <2> QED
    BY <1>2, <2>1 DEF Behind
<1>6. /\ psize > 0 <=> a < b
      /\ qsize > 0 /\ b < Length <=> b < d
      /\ qsize = 0 <=> ~(qsize > 0)
      /\ b < d => qsize \in Nat \ {0}
  BY <1>1, <1>2, <1>3, SMTT(30)
<1> QED
  BY <1>3, <1>4, <1>5, <1>6

\* A step from the first list.
LEMMA FirstSteps ==
    ASSUME ListTypes, NEW s, NEW W, NEW a, NEW b, NEW c, NEW d, NEW h,
           TakeInv(s, W, a, b, c, d, h), take, FromFirst
    PROVE  ListTypes' /\ TakeInv(s, W, a + 1, b, c, d, h)'
<1>1. /\ val' = val /\ is_circular' = is_circular /\ is_double' = is_double
      /\ insize' = insize /\ nmerges' = nmerges /\ oldhead' = oldhead /\ pc' = pc
      /\ lp' = After(lp) /\ psize' = psize - 1 /\ lq' = lq /\ qsize' = qsize /\ tail' = lp
      /\ next' = IF tail = 0 THEN next ELSE [next EXCEPT ![tail] = lp]
      /\ list' = IF tail = 0 THEN lp ELSE list
      /\ prev' = IF is_double THEN [prev EXCEPT ![lp] = tail] ELSE prev
  BY DEF take, args
<1>2. Length' = Length /\ Element' = Element /\ Length \in Nat \ {0} /\ Length \in Nat /\ insize \in Nat \ {0}
  BY <1>1 DEF Length, Element, ListTypes
<1>3. /\ Merging(s, W, insize, a, b, c, d, h) /\ Front(s, a) /\ (a < b => lp = s[a + 1])
      /\ Chained(s, a, b) /\ Behind(s, b, lq) /\ psize = b - a /\ qsize \in Nat
      /\ b + qsize = c + 2 * insize \/ (b = Length /\ Length <= c + 2 * insize)
      /\ nmerges # 0 /\ (nmerges = 1 => c = 0)
  BY DEF TakeInv
<1>4. /\ a \in Nat /\ b \in Nat /\ c \in Nat /\ d \in Nat /\ a <= b /\ b <= d /\ d <= Length
      /\ psize > 0 <=> a < b
      /\ qsize = 0 \/ lq = 0 <=> ~(b < d)
      /\ b < d => lq = s[b + 1]
  BY Goes
<1>5. a < b /\ lp = s[a + 1] /\ (b < d => val[s[a + 1]] <= val[s[b + 1]])
  BY <1>3, <1>4 DEF FromFirst
<1>6. Merging(s, W, insize, a + 1, b, c, d, h)
  BY <1>2, <1>3, <1>5, TakesFirst DEF ListTypes
<1>7. Merging(s, W, insize, a + 1, b, c, d, h)'
  BY <1>1, <1>2, <1>6 DEF Merging, Perm, Cuts, Spaced, Before
<1>8. Perm(s) /\ a < Length
  <2>1. a < Length
    BY <1>2, <1>4, <1>5, SMTT(30)
  <2> QED
    BY <1>3, <2>1 DEF Merging
<1>9. Front(s, a + 1)' /\ next' \in [Element -> 0..Length] /\ prev' \in [Element -> 0..Length]
  BY <1>1, <1>3, <1>4, <1>5, <1>8, Linked
<1>10. ListTypes'
  BY <1>1, <1>2, <1>9 DEF ListTypes
<1>11. \A i \in Element : a < i => After(s[i])' = After(s[i])
  BY <1>1, <1>3, <1>4, <1>8, Kept
<1>12. a + 1 < b => lp' = s[a + 1 + 1]
  <2>1. a + 1 < b => a + 1 \in Element /\ a < a + 1
    BY <1>2, <1>4, SMTT(30) DEF Element
  <2> QED
    BY <1>1, <1>3, <1>5, <2>1 DEF Chained
<1>13. Chained(s, a + 1, b)' /\ Behind(s, b, lq)'
  <2>1. /\ \A i \in Element : (a + 1 < i => a < i) /\ (b < i => a < i)
        /\ b < Length => a < Length /\ Length \in Element
    BY <1>2, <1>4, SMTT(30) DEF Element
  <2> QED
    BY <1>1, <1>2, <1>3, <1>11, <2>1 DEF Chained, Behind
<1>14. psize' = b - (a + 1)
  BY <1>1, <1>3, <1>4, SMTT(30)
<1> QED
  BY <1>1, <1>2, <1>3, <1>7, <1>9, <1>10, <1>12, <1>13, <1>14 DEF TakeInv

\* A step from the second list.
LEMMA SecondSteps ==
    ASSUME ListTypes, NEW s, NEW W, NEW a, NEW b, NEW c, NEW d, NEW h,
           TakeInv(s, W, a, b, c, d, h), take, ~FromFirst
    PROVE  ListTypes' /\ \E t : TakeInv(t, W, a + 1, b + 1, c, d, h)'
<1>1. /\ val' = val /\ is_circular' = is_circular /\ is_double' = is_double
      /\ insize' = insize /\ nmerges' = nmerges /\ oldhead' = oldhead /\ pc' = pc
      /\ lq' = After(lq) /\ qsize' = qsize - 1 /\ lp' = lp /\ psize' = psize /\ tail' = lq
      /\ next' = IF tail = 0 THEN next ELSE [next EXCEPT ![tail] = lq]
      /\ list' = IF tail = 0 THEN lq ELSE list
      /\ prev' = IF is_double THEN [prev EXCEPT ![lq] = tail] ELSE prev
  BY DEF take, args
<1>2. Length' = Length /\ Element' = Element /\ Length \in Nat \ {0} /\ Length \in Nat /\ insize \in Nat \ {0}
  BY <1>1 DEF Length, Element, ListTypes
<1>3. /\ Merging(s, W, insize, a, b, c, d, h) /\ Front(s, a) /\ (a < b => lp = s[a + 1])
      /\ Chained(s, a, b) /\ Behind(s, b, lq) /\ psize = b - a /\ qsize \in Nat
      /\ b + qsize = c + 2 * insize \/ (b = Length /\ Length <= c + 2 * insize)
      /\ nmerges # 0 /\ (nmerges = 1 => c = 0)
  BY DEF TakeInv
<1>4. /\ a \in Nat /\ b \in Nat /\ c \in Nat /\ d \in Nat /\ a <= b /\ b <= d /\ d <= Length
      /\ psize > 0 <=> a < b
      /\ qsize = 0 \/ lq = 0 <=> ~(b < d)
      /\ qsize > 0 /\ lq # 0 <=> b < d
      /\ b < d => lq = s[b + 1] /\ qsize \in Nat \ {0}
  BY Goes
<1>5. b < d /\ lq = s[b + 1] /\ qsize \in Nat \ {0} /\ (a < b => ~(val[s[a + 1]] <= val[s[b + 1]]))
  <2>1. More
    BY DEF take
  <2>2. a < b \/ b < d
    BY <1>4, <2>1 DEF More
  <2>3. b < d
    BY <1>4, <2>2 DEF FromFirst
  <2> QED
    BY <1>3, <1>4, <2>3 DEF FromFirst
<1>6. /\ b < Length /\ a < Length /\ a + 1 \in Element /\ b + 1 \in Element /\ b < b + 1
      /\ (a + 1) + 1 = a + 2 /\ (b + 1) + 1 = b + 2
  BY <1>2, <1>4, <1>5, SMTT(30) DEF Element
<1>7. Perm(s)
  BY <1>3 DEF Merging
<1>8. a < b => Before(s[b + 1], s[a + 1])
  <2>1. val[s[a + 1]] \in Int /\ val[s[b + 1]] \in Int
    BY <1>6, <1>7 DEF Perm, ListTypes
  <2>2. \A m, n \in Int : ~(m <= n) => n < m
    BY SMTT(30)
  <2>3. ~(val[s[a + 1]] <= val[s[b + 1]]) => val[s[b + 1]] < val[s[a + 1]]
    BY <2>1, <2>2
  <2> QED
    BY <1>5, <2>3 DEF Before
<1>9. PICK t : t = Moved(s, a, b)
  OBVIOUS
<1>10. Merging(t, W, insize, a + 1, b + 1, c, d, h)
  BY <1>2, <1>3, <1>5, <1>8, <1>9, TakesSecond
<1>11. Merging(t, W, insize, a + 1, b + 1, c, d, h)'
  BY <1>1, <1>2, <1>10 DEF Merging, Perm, Cuts, Spaced, Before
<1>12. IsMoved(s, a, b, t) /\ Perm(t)
  BY <1>2, <1>4, <1>6, <1>7, <1>9, Moves, MovedPerm
<1>13. /\ t[a + 1] = s[b + 1]
       /\ \A i \in Element : (a < i /\ i <= b => t[i + 1] = s[i]) /\ (i <= a \/ b + 1 < i => t[i] = s[i])
  BY <1>12 DEF IsMoved
<1>14. Front(t, a)
  <2>1. /\ (a # 0 => a \in Element /\ 1 \in Element /\ 1 <= a /\ a <= a)
        /\ \A i \in Element : /\ i < a => i <= a /\ i + 1 \in Element /\ i + 1 <= a
                              /\ i <= a /\ i # 1 => i - 1 \in Element /\ i - 1 <= a
    BY <1>2, <1>4, <1>6, SMTT(30) DEF Element
  <2>2. list = (IF a = 0 THEN 0 ELSE t[1]) /\ tail = (IF a = 0 THEN 0 ELSE t[a])
    BY <1>3, <1>13, <2>1 DEF Front
  <2>3. \A i \in Element : i < a => next[t[i]] = t[i + 1]
    BY <1>3, <1>13, <2>1 DEF Front
  <2>4. ASSUME is_double, NEW i \in Element, i <= a PROVE prev[t[i]] = IF i = 1 THEN 0 ELSE t[i - 1]
    <3>1. prev[s[i]] = IF i = 1 THEN 0 ELSE s[i - 1]
      BY <1>3, <2>4 DEF Front
    <3> QED
      BY <1>13, <2>1, <2>4, <3>1
  <2> QED
    BY <2>2, <2>3, <2>4 DEF Front
<1>15. Front(t, a + 1)' /\ next' \in [Element -> 0..Length] /\ prev' \in [Element -> 0..Length]
  <2>1. lq = t[a + 1]
    BY <1>5, <1>13
  <2> QED
    BY <1>1, <1>4, <1>6, <1>12, <1>14, <2>1, Linked
<1>16. ListTypes'
  BY <1>1, <1>2, <1>15 DEF ListTypes
<1>17. \A i \in Element : a < i => After(s[i])' = After(s[i])
  BY <1>1, <1>3, <1>4, <1>6, <1>7, Kept
<1>18. a + 1 < b + 1 => lp' = t[a + 1 + 1]
  <2>1. a + 1 < b + 1 => a < b /\ a < a + 1 /\ a + 1 <= b
    BY <1>4, SMTT(30)
  <2> QED
    BY <1>1, <1>3, <1>6, <1>13, <2>1
<1>19. Chained(t, a + 1, b + 1)'
  <2> SUFFICES ASSUME NEW i \in Element, a + 1 < i, i < b + 1 PROVE After(t[i])' = t[i + 1]
    BY <1>2 DEF Chained
  <2>1. PICK j \in Element : i = j + 1 /\ a < j /\ j < b /\ j <= b /\ a < i /\ i <= b
    <3>1. i - 1 \in Element /\ i = (i - 1) + 1 /\ a < i - 1 /\ i - 1 < b /\ i - 1 <= b /\ a < i /\ i <= b
      BY <1>2, <1>4, SMTT(30) DEF Element
    <3> QED
      BY <3>1
  <2>2. t[i] = s[j] /\ t[i + 1] = s[i]
    BY <1>13, <2>1
  <2>3. After(s[j]) = s[i]
    BY <1>3, <2>1 DEF Chained
  <2>4. After(s[j])' = s[i]
    BY <1>17, <2>1, <2>3
  <2> QED
    BY <2>2, <2>4
<1>20. Behind(t, b + 1, lq)'
  <2>1. /\ \A i \in Element : b + 1 < i => /\ b < i /\ a < i
                                           /\ i < Length => i + 1 \in Element /\ b + 1 < i + 1
        /\ b + 1 < Length => b + 2 \in Element /\ b + 1 < b + 2 /\ a < Length /\ b + 1 < Length
        /\ Length \in Element /\ (~(b + 1 < Length) => b + 1 = Length)
    BY <1>2, <1>4, <1>6, SMTT(30) DEF Element
  <2>2. lq' = IF b + 1 < Length THEN t[b + 2] ELSE 0
    <3>1. CASE b + 1 < Length
      <4>1. After(s[b + 1]) = s[b + 2]
        BY <1>3, <1>6, <3>1 DEF Behind, Chained
      <4> QED
        BY <1>1, <1>5, <1>13, <2>1, <3>1, <4>1
    <3>2. CASE ~(b + 1 < Length)
      <4>1. After(s[Length]) = 0
        BY <1>3, <1>6 DEF Behind
      <4> QED
        BY <1>1, <1>5, <2>1, <3>2, <4>1
    <3> QED
      BY <3>1, <3>2
  <2>3. ASSUME NEW i \in Element, b + 1 < i, i < Length PROVE After(t[i])' = t[i + 1]
    <3>1. t[i] = s[i] /\ t[i + 1] = s[i + 1]
      BY <1>13, <2>1, <2>3
    <3>2. After(s[i])' = s[i + 1]
      BY <1>3, <1>17, <2>1, <2>3 DEF Behind, Chained
    <3> QED
      BY <3>1, <3>2
  <2>4. b + 1 < Length => After(t[Length])' = 0
    <3>1. b + 1 < Length => t[Length] = s[Length]
      BY <1>13, <2>1
    <3>2. PICK z \in Element : z = Length
      BY <2>1
    <3>3. After(s[z]) = 0
      BY <1>3, <1>6, <3>2 DEF Behind
    <3>4. After(s[z])' = 0
      BY <1>6, <1>17, <3>2, <3>3
    <3> QED
      BY <1>2, <3>1, <3>2, <3>4
  <2> QED
    BY <1>2, <1>6, <2>2, <2>3, <2>4 DEF Behind, Chained
<1>21. /\ psize' = (b + 1) - (a + 1) /\ qsize' \in Nat
       /\ (b + 1) + qsize' = c + 2 * insize \/ (b + 1 = Length /\ Length <= c + 2 * insize)
  <2>1. /\ b - a = (b + 1) - (a + 1) /\ qsize - 1 \in Nat
        /\ (b + 1) + (qsize - 1) = c + 2 * insize
    BY <1>2, <1>3, <1>4, <1>5, <1>6, SMTT(30)
  <2> QED
    BY <1>1, <1>3, <2>1
<1>22. TakeInv(t, W, a + 1, b + 1, c, d, h)'
  BY <1>1, <1>2, <1>3, <1>11, <1>15, <1>18, <1>19, <1>20, <1>21 DEF TakeInv
<1> QED
  BY <1>16, <1>22

\* The end of a merge.
LEMMA MergedSteps ==
    ASSUME ListTypes, NEW s, NEW W, NEW a, NEW b, NEW c, NEW d, NEW h, TakeInv(s, W, a, b, c, d, h), merged
    PROVE  ListTypes' /\ MergeInv(s, W, d)'
<1>1. /\ val' = val /\ is_circular' = is_circular /\ is_double' = is_double
      /\ insize' = insize /\ nmerges' = nmerges /\ oldhead' = oldhead /\ pc' = "merge"
      /\ lp' = lq /\ tail' = tail /\ next' = next /\ list' = list /\ prev' = prev
  BY DEF merged, args
<1>2. Length' = Length /\ Element' = Element /\ Length \in Nat \ {0} /\ Length \in Nat /\ insize \in Nat \ {0}
  BY <1>1 DEF Length, Element, ListTypes
<1>3. ListTypes'
  BY <1>1, <1>2 DEF ListTypes
<1>4. /\ Merging(s, W, insize, a, b, c, d, h) /\ Front(s, a) /\ Behind(s, b, lq)
      /\ nmerges # 0 /\ (nmerges = 1 => c = 0)
  BY DEF TakeInv
<1>5. a = d /\ b = d
  <2>1. /\ a \in Nat /\ b \in Nat /\ d \in Nat /\ a <= b /\ b <= d
        /\ psize > 0 <=> a < b
        /\ qsize > 0 /\ lq # 0 <=> b < d
    BY Goes
  <2>2. ~More
    BY DEF merged
  <2>3. ~(a < b) /\ ~(b < d)
    BY <2>1, <2>2 DEF More
  <2> QED
    BY <2>1, <2>3, SMTT(30)
<1>6. /\ Perm(s) /\ Cuts(W, s) /\ d \in W /\ Runs(s, W) /\ Apart(W, d, insize, 2 * insize)
      /\ \A u \in W : c < u => d <= u
  BY <1>2, <1>4, <1>5, MergeEnds
<1>7. Perm(s)' /\ Cuts(W, s)' /\ Apart(W, d, insize, 2 * insize)' /\ Runs(s, W)'
  BY <1>1, <1>2, <1>6 DEF Perm, Cuts, Apart, Spaced, Runs, Before
<1>8. Front(s, d)'
  BY <1>1, <1>2, <1>4, <1>5 DEF Front
<1>9. Behind(s, d, lp)'
  <2>1. \A e : After(e)' = After(e)
    BY <1>1 DEF After
  <2> QED
    BY <1>1, <1>2, <1>4, <1>5, <2>1 DEF Chained, Behind
<1>10. (nmerges = 0 => d = 0)' /\ (nmerges = 1 => \A u \in W : 0 < u => d <= u)'
  BY <1>1, <1>4, <1>6
<1> QED
  BY <1>3, <1>6, <1>7, <1>8, <1>9, <1>10 DEF MergeInv

\* The end of a pass.
LEMMA PassEnds ==
    ASSUME ListTypes, NEW s, NEW W, NEW a, MergeInv(s, W, a), passed
    PROVE  /\ ListTypes' /\ pc' \in {"pass", "done"}
           /\ pc' = "pass" => PassInv(s, W)'
           /\ pc' = "done" => DoneInv(s)'
<1>1. /\ val' = val /\ is_circular' = is_circular /\ is_double' = is_double /\ nmerges' = nmerges
      /\ list' = list /\ tail' = tail
      /\ next' = [next EXCEPT ![tail] = IF is_circular THEN list ELSE 0]
      /\ prev' = HeadPrev /\ lp = 0
  BY DEF passed, args
<1>2. Length' = Length /\ Element' = Element /\ Length \in Nat \ {0} /\ Length \in Nat /\ insize \in Nat \ {0} /\ nmerges \in Nat
  BY <1>1 DEF Length, Element, ListTypes
<1>3. /\ Perm(s) /\ Cuts(W, s) /\ a \in W /\ Apart(W, a, insize, 2 * insize) /\ Runs(s, W)
      /\ Front(s, a) /\ Behind(s, a, lp)
      /\ nmerges = 0 => a = 0
      /\ nmerges = 1 => \A u \in W : 0 < u => a <= u
  BY DEF MergeInv
<1>4. /\ 0 \notin Element /\ 1 \in Element /\ Length \in Element /\ Length # 0 /\ Element \subseteq 0..Length /\ 0 \in 0..Length
      /\ \A i \in Element : /\ i < Length => i # Length /\ i + 1 \in Element
                            /\ i <= Length /\ (1 < i => i # 1) /\ (i # 1 => 1 < i)
      /\ ~(Length < Length)
  BY <1>2, SMTT(30) DEF Element
<1>5. s \in [Element -> Element] /\ \A i, j \in Element : s[i] = s[j] => i = j
  BY <1>3 DEF Perm
<1>6. a = Length
  <2>1. a \in 0..Length
    BY <1>3 DEF Cuts
  <2>2. a < Length => a + 1 \in Element
    BY <1>2, <2>1, SMTT(30) DEF Element
  <2>3. a < Length => lp = s[a + 1]
    BY <1>3 DEF Behind
  <2>4. a < Length => s[a + 1] \in Element
    BY <1>5, <2>2
  <2>5. ~(a < Length)
    BY <1>1, <1>4, <2>3, <2>4
  <2> QED
    BY <1>2, <2>1, <2>5, SMTT(30)
<1>7. /\ list = s[1] /\ tail = s[Length] /\ s[1] \in Element /\ s[Length] \in Element
      /\ \A i \in Element : i < Length => next[s[i]] = s[i + 1]
      /\ is_double => \A i \in Element : prev[s[i]] = IF i = 1 THEN 0 ELSE s[i - 1]
  BY <1>3, <1>4, <1>5, <1>6 DEF Front
<1>8. next \in [Element -> 0..Length] /\ prev \in [Element -> 0..Length]
  BY DEF ListTypes
<1>9. next' \in [Element -> 0..Length] /\ prev' \in [Element -> 0..Length]
  <2>1. s[1] \in 0..Length /\ s[Length] \in 0..Length /\ (IF is_circular THEN list ELSE 0) \in 0..Length
    BY <1>4, <1>7
  <2>2. next' \in [Element -> 0..Length]
    BY <1>1, <1>8, <2>1
  <2> QED
    BY <1>1, <1>7, <1>8, <2>1, <2>2 DEF HeadPrev
<1>10. /\ pc' \in {"pass", "done"} /\ insize' \in Nat \ {0}
       /\ pc' = "pass" => ~(nmerges <= 1) /\ insize' = 2 * insize
       /\ pc' = "done" => nmerges <= 1
  <2>1. 2 * insize \in Nat \ {0}
    BY <1>2, SMTT(30)
  <2>2. "pass" # "done"
    OBVIOUS
  <2>3. CASE nmerges <= 1
    BY <1>2, <2>2, <2>3 DEF passed
  <2>4. CASE ~(nmerges <= 1)
    BY <2>1, <2>2, <2>4 DEF passed, NextSize
  <2> QED
    BY <2>3, <2>4
<1>11. ListTypes'
  BY <1>1, <1>2, <1>9, <1>10 DEF ListTypes
<1>12. Closed(s)'
  <2>1. next'[s[Length]] = IF is_circular THEN s[1] ELSE 0
    BY <1>1, <1>7, <1>8
  <2>2. ASSUME NEW i \in Element, i < Length PROVE next'[s[i]] = s[i + 1]
    <3>1. s[i] # s[Length] /\ s[i] \in Element
      BY <1>4, <1>5, <2>2
    <3> QED
      BY <1>1, <1>7, <1>8, <2>2, <3>1
  <2> QED
    BY <1>1, <1>2, <1>7, <2>1, <2>2 DEF Closed
<1>13. ASSUME pc' = "pass" PROVE PassInv(s, W)'
  <2>1. Apart(W, 0, 2 * insize, 2 * (2 * insize))
    <3> SUFFICES ASSUME NEW w \in W PROVE ~(w < 0) /\ Spaced(W, 2 * insize, w)
      BY DEF Apart
    <3>1. W \subseteq 0..Length
      BY <1>3 DEF Cuts
    <3>2. ~(w < 0) /\ (w < Length \/ w = Length)
      BY <1>2, <3>1, SMTT(30)
    <3>3. CASE w < Length
      BY <1>3, <1>6, <3>2, <3>3 DEF Apart
    <3>4. CASE w = Length
      <4>1. (\A u \in W : ~(w < u)) /\ ~(w + 2 * insize < Length)
        BY <1>2, <3>1, <3>4, SMTT(30)
      <4> QED
        BY <3>2, <4>1 DEF Spaced
    <3> QED
      BY <3>2, <3>3, <3>4
  <2>2. Perm(s)' /\ Cuts(W, s)' /\ Runs(s, W)'
    BY <1>1, <1>2, <1>3 DEF Perm, Cuts, Runs, Before
  <2>3. Apart(W, 0, insize, 2 * insize)'
    BY <1>2, <1>10, <1>13, <2>1 DEF Apart, Spaced
  <2> QED
    BY <1>12, <2>2, <2>3 DEF PassInv
<1>14. ASSUME pc' = "done" PROVE DoneInv(s)'
  <2>1. \A u \in W : 0 < u => Length <= u
    <3>1. nmerges = 0 \/ nmerges = 1
      BY <1>2, <1>10, <1>14, SMTT(30)
    <3> QED
      BY <1>3, <1>4, <1>6, <3>1
  <2>2. \A i \in Element : i + 1 \in Element => 0 < i /\ ~(Length <= i)
    BY <1>2, SMTT(30) DEF Element
  <2>3. Runs(s, {})
    BY <1>3, <2>1, <2>2 DEF Runs
  <2>4. Perm(s)' /\ Runs(s, {})'
    BY <1>1, <1>2, <1>3, <2>3 DEF Perm, Runs, Before
  <2>5. ASSUME is_double PROVE prev'[s[1]] = IF is_circular THEN s[Length] ELSE 0
    <3>1. prev[s[1]] = 0
      BY <1>4, <1>7, <2>5
    <3>2. CASE is_circular
      <4>1. prev' = [prev EXCEPT ![s[1]] = s[Length]]
        BY <1>1, <1>7, <2>5, <3>2 DEF HeadPrev
      <4> QED
        BY <1>7, <1>8, <3>2, <4>1
    <3>3. CASE ~is_circular
      BY <1>1, <3>1, <3>3 DEF HeadPrev
    <3> QED
      BY <3>2, <3>3
  <2>6. ASSUME is_double, NEW i \in Element, 1 < i PROVE prev'[s[i]] = s[i - 1]
    <3>1. s[i] # s[1] /\ s[i] \in Element /\ prev[s[i]] = s[i - 1]
      BY <1>4, <1>5, <1>7, <2>6
    <3> QED
      BY <1>1, <1>7, <1>8, <3>1 DEF HeadPrev
  <2> QED
    BY <1>1, <1>2, <1>12, <2>4, <2>5, <2>6 DEF DoneInv
<1> QED
  BY <1>10, <1>11, <1>13, <1>14

\* Every step of listsort keeps the invariant.
LEMMA ListSteps ==
    ASSUME ListInv, [ListNext]_listVars
    PROVE  ListInv'
<1>0. ListTypes
  BY DEF ListInv
<1>00. /\ "pass" # "merge" /\ "pass" # "take" /\ "pass" # "done"
       /\ "merge" # "take" /\ "merge" # "done" /\ "take" # "done"
  OBVIOUS
<1>1. CASE pass
  <2>1. pc = "pass" /\ pc' = "merge"
    BY <1>1 DEF pass
  <2>2. PICK s, W : PassInv(s, W)
    BY <2>1 DEF ListInv
  <2>3. MergeInv(s, W, 0)'
    BY <1>0, <1>1, <2>2, PassStarts
  <2>4. ListTypes'
    <3>1. 0 \in Nat
      BY SMTT(30)
    <3> QED
      BY <1>0, <1>1, <3>1 DEF pass, args, ListTypes, Length, Element
  <2> QED
    BY <1>00, <2>1, <2>3, <2>4 DEF ListInv
<1>2. CASE merge
  <2>1. pc = "merge" /\ pc' = "take"
    BY <1>2 DEF merge
  <2>2. PICK s, W, a : MergeInv(s, W, a)
    BY <2>1 DEF ListInv
  <2>3. ListTypes' /\ \E V, b, d : TakeInv(s, V, a, b, a, d, b)'
    BY <1>0, <1>2, <2>2, MergeSteps
  <2> QED
    BY <1>00, <2>1, <2>3 DEF ListInv
<1>3. CASE take
  <2>1. pc = "take" /\ pc' = "take"
    BY <1>3 DEF take
  <2>2. PICK s, W, a, b, c, d, h : TakeInv(s, W, a, b, c, d, h)
    BY <2>1 DEF ListInv
  <2>3. CASE FromFirst
    <3>1. ListTypes' /\ TakeInv(s, W, a + 1, b, c, d, h)'
      BY <1>0, <1>3, <2>2, <2>3, FirstSteps
    <3> QED
      BY <1>00, <2>1, <3>1 DEF ListInv
  <2>4. CASE ~FromFirst
    <3>1. ListTypes' /\ \E t : TakeInv(t, W, a + 1, b + 1, c, d, h)'
      BY <1>0, <1>3, <2>2, <2>4, SecondSteps
    <3> QED
      BY <1>00, <2>1, <3>1 DEF ListInv
  <2> QED
    BY <2>3, <2>4
<1>4. CASE merged
  <2>1. pc = "take" /\ pc' = "merge"
    BY <1>4 DEF merged
  <2>2. PICK s, W, a, b, c, d, h : TakeInv(s, W, a, b, c, d, h)
    BY <2>1 DEF ListInv
  <2>3. ListTypes' /\ MergeInv(s, W, d)'
    BY <1>0, <1>4, <2>2, MergedSteps
  <2> QED
    BY <1>00, <2>1, <2>3 DEF ListInv
<1>5. CASE passed
  <2>1. pc = "merge"
    BY <1>5 DEF passed
  <2>2. PICK s, W, a : MergeInv(s, W, a)
    BY <2>1 DEF ListInv
  <2>3. /\ ListTypes' /\ pc' \in {"pass", "done"}
        /\ pc' = "pass" => PassInv(s, W)'
        /\ pc' = "done" => DoneInv(s)'
    BY <1>0, <1>5, <2>2, PassEnds
  <2> QED
    BY <1>00, <2>3 DEF ListInv
<1>6. CASE UNCHANGED listVars
  <2>1. /\ val' = val /\ is_circular' = is_circular /\ is_double' = is_double /\ next' = next /\ prev' = prev
        /\ list' = list /\ lp' = lp /\ lq' = lq /\ tail' = tail /\ oldhead' = oldhead /\ insize' = insize
        /\ nmerges' = nmerges /\ psize' = psize /\ qsize' = qsize /\ pc' = pc
    BY <1>6 DEF listVars, args
  <2>2. Length' = Length /\ Element' = Element /\ \A e : After(e)' = After(e)
    BY <2>1 DEF Length, Element, After
  <2>3. ListTypes'
    BY <1>0, <2>1, <2>2 DEF ListTypes
  <2>4. \A s, W : /\ (Perm(s) => Perm(s)') /\ (Cuts(W, s) => Cuts(W, s)')
                  /\ (Runs(s, W) => Runs(s, W)') /\ (Closed(s) => Closed(s)')
    BY <2>1, <2>2 DEF Perm, Cuts, Runs, Before, Closed
  <2>5. \A W, a : Apart(W, a, insize, 2 * insize) => Apart(W, a, insize, 2 * insize)'
    BY <2>1, <2>2 DEF Apart, Spaced
  <2>6. \A s, a, b : /\ (Front(s, a) => Front(s, a)') /\ (Chained(s, a, b) => Chained(s, a, b)')
    <3>1. \A s, a : Front(s, a) => Front(s, a)'
      BY <2>1, <2>2 DEF Front
    <3>2. \A s, a, b : Chained(s, a, b) => Chained(s, a, b)'
      BY <2>2 DEF Chained
    <3> QED
      BY <3>1, <3>2
  <2>7. \A s, b : (Behind(s, b, lp) => Behind(s, b, lp)') /\ (Behind(s, b, lq) => Behind(s, b, lq)')
    BY <2>1, <2>2 DEF Behind, Chained
  <2>8. ASSUME NEW s, NEW W, NEW a, NEW b, NEW c, NEW d, NEW h, Merging(s, W, insize, a, b, c, d, h)
        PROVE  Merging(s, W, insize, a, b, c, d, h)'
    BY <2>1, <2>2, <2>8 DEF Merging, Perm, Cuts, Spaced, Before
  <2>9. \A s, W : PassInv(s, W) => PassInv(s, W)'
    BY <2>4, <2>5 DEF PassInv
  <2>10. \A s, W, a : MergeInv(s, W, a) => MergeInv(s, W, a)'
    BY <2>1, <2>4, <2>5, <2>6, <2>7 DEF MergeInv
  <2>11. ASSUME NEW s, NEW W, NEW a, NEW b, NEW c, NEW d, NEW h, TakeInv(s, W, a, b, c, d, h)
         PROVE  TakeInv(s, W, a, b, c, d, h)'
    BY <2>1, <2>2, <2>6, <2>7, <2>8, <2>11 DEF TakeInv
  <2>12. \A s : DoneInv(s) => DoneInv(s)'
    BY <2>1, <2>2, <2>4 DEF DoneInv
  <2>13. /\ (\E s, W : PassInv(s, W)) => \E s, W : PassInv(s, W)'
         /\ (\E s, W, a : MergeInv(s, W, a)) => \E s, W, a : MergeInv(s, W, a)'
         /\ (\E s : DoneInv(s)) => \E s : DoneInv(s)'
    BY <2>9, <2>10, <2>12
  <2>14. ASSUME \E s, W, a, b, c, d, h : TakeInv(s, W, a, b, c, d, h)
         PROVE  \E s, W, a, b, c, d, h : TakeInv(s, W, a, b, c, d, h)'
    <3>1. PICK s, W, a, b, c, d, h : TakeInv(s, W, a, b, c, d, h)
      BY <2>14
    <3>2. TakeInv(s, W, a, b, c, d, h)'
      BY <2>11, <3>1
    <3> QED
      BY <3>2
  <2> QED
    BY <2>1, <2>3, <2>13, <2>14 DEF ListInv
<1> QED
  BY <1>1, <1>2, <1>3, <1>4, <1>5, <1>6 DEF ListNext

-----------------------------------------------------------------------------
(* The sorted list. *)

IsWalk(e, f) ==
    f = [k \in Element |-> IF k = 1 THEN e ELSE IF f[k - 1] = 0 THEN 0 ELSE next[f[k - 1]]]

\* Walking along linked elements meets them.
LEMMA WalkIs ==
    ASSUME Length \in Nat \ {0}, NEW g \in [Element -> Element],
           \A i \in Element : i < Length => next[g[i]] = g[i + 1]
    PROVE  Walk(g[1]) = g
<1> DEFINE e == g[1]
           step(i) == IF i = 1 THEN e ELSE IF g[i - 1] = 0 THEN 0 ELSE next[g[i - 1]]
           f == CHOOSE f : IsWalk(e, f)
<1>1. /\ 0 \notin Element /\ 1 \in Element
      /\ \A i \in Element : i # 1 => i - 1 \in Element /\ i - 1 < Length /\ (i - 1) + 1 = i /\ ~(i <= i - 1)
  BY SMTT(30) DEF Element
<1>2. \A i \in Element : g[i] = step(i)
  <2> SUFFICES ASSUME NEW i \in Element PROVE g[i] = step(i)
    OBVIOUS
  <2>1. CASE i = 1
    BY <2>1
  <2>2. CASE i # 1
    <3>1. i - 1 \in Element /\ i - 1 < Length /\ (i - 1) + 1 = i
      BY <1>1, <2>2
    <3>2. next[g[i - 1]] = g[(i - 1) + 1] /\ g[i - 1] \in Element
      BY <3>1
    <3>3. g[i - 1] # 0 /\ next[g[i - 1]] = g[i]
      BY <1>1, <3>1, <3>2
    <3> QED
      BY <2>2, <3>3
  <2> QED
    BY <2>1, <2>2
<1>3. g = [i \in Element |-> step(i)]
  <2>1. g = [i \in Element |-> g[i]]
    OBVIOUS
  <2> HIDE DEF step
  <2> QED
    BY <1>2, <2>1
<1>4. IsWalk(e, g)
  BY <1>3 DEF IsWalk
<1>5. IsWalk(e, f)
  BY <1>4
<1>6. Walk(e) = f
  BY DEF Walk, IsWalk
<1> HIDE DEF f, step
<1>7. /\ f = [i \in Element |-> f[i]]
      /\ \A i \in Element : f[i] = IF i = 1 THEN e ELSE IF f[i - 1] = 0 THEN 0 ELSE next[f[i - 1]]
  BY <1>5 DEF IsWalk
<1> DEFINE Bad == {i \in Element : f[i] # g[i]}
<1>8. Bad = {}
  <2> SUFFICES ASSUME Bad # {} PROVE FALSE
    OBVIOUS
  <2>1. Bad \in SUBSET Nat
    BY SMTT(30) DEF Element
  <2>2. PICK m \in Bad : \A i \in Bad : m <= i
    BY <2>1, Least
  <2>3. m \in Element /\ f[m] # g[m]
    OBVIOUS
  <2>4. m # 1
    BY <1>7, <2>3
  <2>5. f[m - 1] = g[m - 1]
    BY <1>1, <2>2, <2>3, <2>4
  <2>6. g[m - 1] # 0 /\ next[g[m - 1]] = g[m]
    <3>1. m - 1 \in Element /\ m - 1 < Length /\ (m - 1) + 1 = m
      BY <1>1, <2>3, <2>4
    <3>2. g[m - 1] \in Element
      BY <3>1
    <3>3. next[g[m - 1]] = g[(m - 1) + 1]
      BY <3>1
    <3> QED
      BY <1>1, <3>1, <3>2, <3>3
  <2>7. f[m] = IF m = 1 THEN e ELSE IF f[m - 1] = 0 THEN 0 ELSE next[f[m - 1]]
    BY <1>7, <2>3
  <2> HIDE DEF Bad, e
  <2> QED
    BY <2>3, <2>4, <2>5, <2>6, <2>7
<1>9. \A i \in Element : f[i] = g[i]
  BY <1>8
<1>10. g = [i \in Element |-> g[i]]
  OBVIOUS
<1> QED
  BY <1>6, <1>7, <1>9, <1>10

\* In a sorted list an element is before every later one.
LEMMA AllBefore ==
    ASSUME ListTypes, NEW s, Perm(s), Runs(s, {}), NEW i \in Element, NEW j \in Element, i < j
    PROVE  Before(s[i], s[j])
<1> DEFINE Bad == {k \in Element : i < k /\ ~Before(s[i], s[k])}
<1> SUFFICES ASSUME Bad # {} PROVE FALSE
  OBVIOUS
<1>0. Length \in Nat \ {0} /\ val \in [Element -> Int] /\ s \in [Element -> Element]
  BY DEF ListTypes, Perm
<1>1. Bad \in SUBSET Nat
  BY <1>0, SMTT(30) DEF Element
<1>2. PICK m \in Bad : \A k \in Bad : m <= k
  BY <1>1, Least
<1>3. m \in Element /\ i < m /\ ~Before(s[i], s[m])
  OBVIOUS
<1>4. m - 1 \in Element /\ (m - 1) + 1 = m /\ ~(m <= m - 1) /\ (m - 1 = i \/ i < m - 1)
  BY <1>0, <1>3, SMTT(30) DEF Element
<1>5. Before(s[m - 1], s[m])
  BY <1>3, <1>4 DEF Runs
<1>6. m - 1 # i /\ Before(s[i], s[m - 1])
  BY <1>2, <1>3, <1>4, <1>5
<1>7. s[i] \in Element /\ s[m] \in Element /\ s[m - 1] \in Element
  BY <1>0, <1>3, <1>4
<1>8. \A e1, e2, e3 \in Element : Before(e1, e2) /\ Before(e2, e3) => Before(e1, e3)
  <2> SUFFICES ASSUME NEW e1 \in Element, NEW e2 \in Element, NEW e3 \in Element, Before(e1, e2), Before(e2, e3)
               PROVE  Before(e1, e3)
    OBVIOUS
  <2>1. val[e1] \in Int /\ val[e2] \in Int /\ val[e3] \in Int
    BY <1>0
  <2>2. e1 \in Int /\ e2 \in Int /\ e3 \in Int
    BY <1>0, SMTT(30) DEF Element
  <2> QED
    BY <2>1, <2>2, SMTT(30) DEF Before
<1> QED
  BY <1>3, <1>5, <1>6, <1>7, <1>8

\* The place that is i-th from place r on, round the list.
Round(r, i) == IF r + i - 1 <= Length THEN r + i - 1 ELSE r + i - 1 - Length

\* A sorted circular list is listed from element 1.
LEMMA ListsNodes ==
    ASSUME ListTypes, NEW s, DoneInv(s), is_circular
    PROVE  ListedFromHead(ListedNodes)
<1>0. Length \in Nat \ {0} /\ Perm(s) /\ Runs(s, {}) /\ Closed(s)
  BY DEF ListTypes, DoneInv
<1>1. 1 \in Element /\ 0 \notin Element
  BY <1>0, SMTT(30) DEF Element
<1>2. PICK r \in Element : s[r] = 1
  BY <1>0, <1>1 DEF Perm
<1>3. /\ \A i \in Element : Round(r, i) \in Element
      /\ Round(r, 1) = r
      /\ \A i \in 2..Length : i \in Element /\ Round(r, i) # r
      /\ \A i \in Element : i < Length /\ Round(r, i) < Length => Round(r, i + 1) = Round(r, i) + 1
      /\ \A i \in Element : i < Length /\ ~(Round(r, i) < Length) => Round(r, i) = Length /\ Round(r, i + 1) = 1
      /\ \A i, j \in 2..Length :
             i < j => Round(r, i) < Round(r, j) \/ (r < Round(r, i) /\ Round(r, j) < r)
      /\ \A i \in Element : i < Length => i + 1 \in Element
  <2>1. /\ \A i \in Element : Round(r, i) \in Element
        /\ Round(r, 1) = r
        /\ \A i \in 2..Length : i \in Element /\ Round(r, i) # r
        /\ \A i \in Element : i < Length => i + 1 \in Element
    BY <1>0, SMTT(30) DEF Element, Round
  <2>2. /\ \A i \in Element : i < Length /\ Round(r, i) < Length => Round(r, i + 1) = Round(r, i) + 1
        /\ \A i \in Element : i < Length /\ ~(Round(r, i) < Length) => Round(r, i) = Length /\ Round(r, i + 1) = 1
    BY <1>0, SMTT(30) DEF Element, Round
  <2>3. \A i, j \in 2..Length :
           i < j => Round(r, i) < Round(r, j) \/ (r < Round(r, i) /\ Round(r, j) < r)
    BY <1>0, SMTT(30) DEF Element, Round
  <2> QED
    BY <2>1, <2>2, <2>3
<1>4. PICK g : g = [i \in Element |-> s[Round(r, i)]]
  OBVIOUS
<1>5. g \in [Element -> Element] /\ g[1] = 1
  BY <1>0, <1>1, <1>2, <1>3, <1>4 DEF Perm
<1>6. ASSUME NEW i \in Element, i < Length PROVE next[g[i]] = g[i + 1]
  <2>1. g[i] = s[Round(r, i)] /\ g[i + 1] = s[Round(r, i + 1)]
    BY <1>3, <1>4, <1>6
  <2>2. CASE Round(r, i) < Length
    BY <1>0, <1>3, <1>6, <2>1, <2>2 DEF Closed
  <2>3. CASE ~(Round(r, i) < Length)
    BY <1>0, <1>3, <1>6, <2>1, <2>3 DEF Closed
  <2> QED
    BY <2>2, <2>3
<1>7. Walk(1) = g
  BY <1>0, <1>5, <1>6, WalkIs
<1>8. ASSUME NEW i \in 2..Length PROVE g[i] \notin {0, 1}
  <2>1. g[i] \in Element /\ g[i] = s[Round(r, i)]
    BY <1>3, <1>4, <1>5, <1>8
  <2>2. g[i] # s[r]
    BY <1>0, <1>3, <1>8, <2>1 DEF Perm
  <2> QED
    BY <1>1, <1>2, <2>1, <2>2
<1>9. ASSUME NEW i \in 2..Length, NEW j \in 2..Length, i < j
      PROVE  Before(g[i], g[j]) \/ (Before(1, g[i]) /\ Before(g[j], 1))
  <2>1. /\ g[i] = s[Round(r, i)] /\ g[j] = s[Round(r, j)]
        /\ Round(r, i) \in Element /\ Round(r, j) \in Element
    BY <1>3, <1>4, <1>9
  <2>2. CASE Round(r, i) < Round(r, j)
    <3>1. Before(s[Round(r, i)], s[Round(r, j)])
      BY <1>0, <2>1, <2>2, AllBefore
    <3> QED
      BY <2>1, <3>1
  <2>3. CASE r < Round(r, i) /\ Round(r, j) < r
    <3>1. Before(s[r], s[Round(r, i)]) /\ Before(s[Round(r, j)], s[r])
      BY <1>0, <2>1, <2>3, AllBefore
    <3> QED
      BY <1>2, <2>1, <3>1
  <2> QED
    BY <1>3, <1>9, <2>2, <2>3
<1> QED
  BY <1>7, <1>8, <1>9 DEF ListedFromHead, ListedNodes

\* listsort sorts every list: a list of any length and any values is in order when it
\* returns, equal elements as they stood before, with all links right.
THEOREM ListSorted == ListSpec => []Sorted
<1>1. ListInv => Sorted
  <2> SUFFICES ASSUME ListInv, pc = "done"
               PROVE  /\ InOrderOfValues(Walk(list)) /\ LinksMirrored(Walk(list))
                      /\ is_circular /\ is_double => ListedFromHead(ListedNodes)
    BY DEF Sorted
  <2>1. PICK s : DoneInv(s)
    BY DEF ListInv
  <2>2. ListTypes /\ Perm(s) /\ Runs(s, {}) /\ Closed(s) /\ Length \in Nat \ {0}
    BY <2>1 DEF ListInv, ListTypes, DoneInv
  <2>3. /\ 0 \notin Element
        /\ \A i \in 1..(Length - 1) : i \in Element /\ i + 1 \in Element /\ 1 < i + 1 /\ (i + 1) - 1 = i
    BY <2>2, SMTT(30) DEF Element
  <2>4. Walk(list) = s
    <3>1. list = s[1]
      BY <2>2 DEF Closed
    <3>2. Walk(s[1]) = s
      BY <2>2, WalkIs DEF Closed, Perm
    <3> QED
      BY <3>1, <3>2
  <2>5. InOrderOfValues(s)
    BY <2>2, <2>3 DEF InOrderOfValues, Perm, Runs
  <2>6. LinksMirrored(s)
    <3>1. list = s[1] /\ next[s[Length]] = IF is_circular THEN list ELSE 0
      BY <2>2 DEF Closed
    <3>2. ASSUME is_double PROVE /\ prev[list] = IF is_circular THEN s[Length] ELSE 0
                                 /\ \A i \in 1..(Length - 1) : prev[s[i + 1]] = s[i]
      BY <2>1, <2>3, <3>1, <3>2 DEF DoneInv
    <3> QED
      BY <3>1, <3>2 DEF LinksMirrored
  <2>7. is_circular /\ is_double => ListedFromHead(ListedNodes)
    BY <2>1, <2>2, ListsNodes
  <2> QED
    BY <2>4, <2>5, <2>6, <2>7
<1> QED
  BY <1>1, ListStarts, ListSteps, PTL DEF ListSpec
=============================================================================
