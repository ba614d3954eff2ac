-------------------------- MODULE StructureProofs ---------------------------
(***************************************************************************)
(* Three of the data structures, for any size: chess_board_find of the     *)
(* board, the weighted quick-union and the bags of the graph.              *)
(***************************************************************************)
EXTENDS Chess, Wqu, Graph, FiniteSetTheorems, TLAPS

-----------------------------------------------------------------------------
(***************************************************************************)
(* chess_board_find, for a board of any size and any length of the row     *)
(* asked for.  The stone it stops at is the first one of its row, so that  *)
(* the walk goes one way only and meets exactly the stones of a row.       *)
(***************************************************************************)

USE BoardAssumption
USE ZenonT(30)

-----------------------------------------------------------------------------
(* The geometry of the board. *)

\* The directions in which the rows of the rules run, and the ways back.
Dirs == {<<1, 0>>, <<0, 1>>, <<1, 1>>, <<-1, 1>>}
Back(v) == <<-v[1], -v[2]>>

\* The m points behind c in direction v.
Ray(c, v, m) == {At(c, v, e) : e \in 1..m}

\* Point k of the line through c, on either side, is a stone of the colour of c.
Same(c, v, k) == At(c, v, k) \in Cell /\ hit[At(c, v, k)] = hit[c]

Index(c) == c[2] * W + c[1]

\* One of the two walks from c along the line meets x within d steps.
Meets(c, v, d, x) ==
    \E e \in 1..d : \/ x = At(c, v, e) /\ NotOff(c, v, e)
                    \/ x = At(c, v, -e) /\ NotOff(c, Back(v), e)

\* Line l has n stones first after d steps.
FirstFull(c, l, d, n) ==
    /\ Cardinality(Collected(c, l, d)) >= n
    /\ \A e \in 1..Size : Cardinality(Collected(c, l, e)) >= n => d <= e

\* Each of the four lines runs in one of the directions, both ways.
LEMMA LineDirs ==
    /\ \A l \in 1..4 : \E v \in Dirs : Lines[l] = {v, Back(v)}
    /\ \A v \in Dirs : \E l \in 1..4 : Lines[l] = {v, Back(v)}
<1>1. /\ Lines[1] = {<<1, 0>>, Back(<<1, 0>>)} /\ Lines[2] = {<<0, 1>>, Back(<<0, 1>>)}
      /\ Lines[3] = {<<1, 1>>, Back(<<1, 1>>)} /\ Lines[4] = {<<-1, 1>>, Back(<<-1, 1>>)}
  BY SMTT(30) DEF Lines, Back
<1>2. \A l \in 1..4 : l = 1 \/ l = 2 \/ l = 3 \/ l = 4
  BY SMTT(30)
<1>3. 1 \in 1..4 /\ 2 \in 1..4 /\ 3 \in 1..4 /\ 4 \in 1..4
  BY SMTT(30)
<1> QED
  BY <1>1, <1>2, <1>3 DEF Dirs

\* What the points of a line are when they are counted from c.
Shift(c, v) ==
    /\ \A k \in Int : At(c, v, k) \in Int \X Int
    /\ At(c, v, 0) = c
    /\ \A k \in Int : At(c, Back(v), k) = At(c, v, -k)
    /\ \A k, a \in Int : At(At(c, v, a), v, k) = At(c, v, a + k)
    /\ \A a, b \in Int : At(c, v, a) = At(c, v, b) => a = b

\* Points of a line are counted from any of them.
LEMMA Shifts ==
    ASSUME NEW c \in Int \X Int, NEW v \in Dirs
    PROVE  Shift(c, v)
<1>1. CASE v = <<1, 0>>
  BY <1>1, SMTT(30) DEF Shift, At, Back
<1>2. CASE v = <<0, 1>>
  BY <1>2, SMTT(30) DEF Shift, At, Back
<1>3. CASE v = <<1, 1>>
  BY <1>3, SMTT(30) DEF Shift, At, Back
<1>4. CASE v = <<-1, 1>>
  BY <1>4, SMTT(30) DEF Shift, At, Back
<1> QED
  BY <1>1, <1>2, <1>3, <1>4 DEF Dirs

\* A point of the board is a pair of integers.
LEMMA CellType == Cell \subseteq Int \X Int
BY SMTT(30) DEF Cell

\* A walk that is still on the board has taken less steps than the board is long, and
\* the points of a row come in the order in which the board is searched.
LEMMA OnBoard ==
    ASSUME NEW c \in Cell, NEW v \in Dirs
    PROVE  /\ Size \in Nat
           /\ \A k \in Int : At(c, v, k) \in Cell => -Size < k /\ k < Size
           /\ At(c, v, -1) \in Cell => Index(At(c, v, -1)) < Index(c)
<1>1. CASE v = <<1, 0>>
  BY <1>1, SMTT(30) DEF At, Cell, Size, Index
<1>2. CASE v = <<0, 1>>
  BY <1>2, SMTT(30) DEF At, Cell, Size, Index
<1>3. CASE v = <<1, 1>>
  BY <1>3, SMTT(30) DEF At, Cell, Size, Index
<1>4. CASE v = <<-1, 1>>
  BY <1>4, SMTT(30) DEF At, Cell, Size, Index
<1> QED
  BY <1>1, <1>2, <1>3, <1>4 DEF Dirs

\* A ray has as many points as steps.
LEMMA RayCount ==
    ASSUME NEW c \in Cell, NEW v \in Dirs, NEW m \in Nat
    PROVE  IsFiniteSet(Ray(c, v, m)) /\ Cardinality(Ray(c, v, m)) = m
<1> DEFINE f == [e \in 1..m |-> At(c, v, e)]
<1>1. \A a \in 1..m : a \in Int
  BY SMTT(30)
<1>2. \A a, b \in 1..m : f[a] = f[b] => a = b
  <2>1. c \in Int \X Int
    BY CellType
  <2>2. \A a, b \in Int : At(c, v, a) = At(c, v, b) => a = b
    <3>1. Shift(c, v)
      BY <2>1, Shifts
    <3> QED
      BY <3>1 DEF Shift
  <2> QED
    BY <1>1, <2>2
<1>3. f \in Injection(1..m, Ray(c, v, m))
  BY <1>2 DEF Injection, IsInjective, Ray
<1>4. f \in Surjection(1..m, Ray(c, v, m))
  BY DEF Surjection, Ray
<1>5. ExistsBijection(1..m, Ray(c, v, m))
  BY <1>3, <1>4 DEF ExistsBijection, Bijection
<1> QED
  BY <1>5, FS_CountingElements, FS_NatBijection

\* The board has finitely many points.
LEMMA CellFinite == IsFiniteSet(Cell)
<1>1. 0 \in Int /\ W - 1 \in Int /\ H - 1 \in Int
  BY SMTT(30)
<1>2. IsFiniteSet(0..W - 1) /\ IsFiniteSet(0..H - 1)
  BY <1>1, FS_Interval
<1> QED
  BY <1>2, FS_Product DEF Cell

\* A set of natural numbers has a smallest one.
LEMMA Least ==
    ASSUME NEW S \in SUBSET Nat, S # {}
    PROVE  \E m \in S : \A k \in S : m <= k
<1> DEFINE R == OpToRel(<, Nat)
<1>1. IsWellFoundedOn(R, Nat)
  BY NatLessThanWellFounded
<1>2. \E m \in S : \A k \in S : <<k, m>> \notin R
  <2> HIDE DEF R
  <2> QED
    BY <1>1, WFMin
<1>3. \A k, m \in S : <<k, m>> \notin R => m <= k
  BY SMTT(30) DEF OpToRel
<1> QED
  BY <1>2, <1>3

-----------------------------------------------------------------------------
(* The stones collected on a line. *)

\* Both walks, seen from the points of the line.
LEMMA Walks ==
    ASSUME NEW c \in Cell, NEW v \in Dirs, NEW d \in Nat
    PROVE  /\ NotOff(c, v, d) <=> \A e \in 1..d : Same(c, v, e)
           /\ NotOff(c, Back(v), d) <=> \A e \in 1..d : Same(c, v, -e)
<1>1. \A e \in 1..d : e \in Int
  BY SMTT(30)
<1>2. \A e \in 1..d : At(c, Back(v), e) = At(c, v, -e)
  <2>1. c \in Int \X Int
    BY CellType
  <2>2. \A k \in Int : At(c, Back(v), k) = At(c, v, -k)
    <3>1. Shift(c, v)
      BY <2>1, Shifts
    <3> QED
      BY <3>1 DEF Shift
  <2> QED
    BY <1>1, <2>2
<1> QED
  BY <1>2 DEF NotOff, Same

\* What is collected on a line within d steps.
LEMMA Collects ==
    ASSUME NEW c \in Cell, NEW v \in Dirs, NEW l, Lines[l] = {v, Back(v)}, NEW d \in Nat
    PROVE  /\ \A x : x \in Collected(c, l, d) <=> Meets(c, v, d, x)
           /\ Collected(c, l, d) \subseteq Cell /\ c \notin Collected(c, l, d)
           /\ IsFiniteSet(Collected(c, l, d)) /\ Cardinality(Collected(c, l, d)) \in Nat
<1>1. \A e \in 1..d : e \in Int /\ e \in Nat /\ e \in 1..e /\ e # 0 /\ -e # 0 /\ -e \in Int /\ 0 \in Int
  BY SMTT(30)
<1>2. \A e \in 1..d : At(c, Back(v), e) = At(c, v, -e)
  <2>1. c \in Int \X Int
    BY CellType
  <2>2. \A k \in Int : At(c, Back(v), k) = At(c, v, -k)
    <3>1. Shift(c, v)
      BY <2>1, Shifts
    <3> QED
      BY <3>1 DEF Shift
  <2> QED
    BY <1>1, <2>2
<1>3. \A x : x \in Collected(c, l, d) <=> Meets(c, v, d, x)
  <2> TAKE x
  <2>1. ASSUME x \in Collected(c, l, d)
        PROVE  Meets(c, v, d, x)
    <3>1. PICK u \in Lines[l] \X (1..d) : NotOff(c, u[1], u[2]) /\ x = At(c, u[1], u[2])
      BY <2>1 DEF Collected
    <3>2. u[1] \in {v, Back(v)} /\ u[2] \in 1..d
      BY <3>1
    <3> QED
      BY <3>1, <3>2, <1>2 DEF Meets
  <2>2. ASSUME NEW e \in 1..d, NEW u \in {v, Back(v)}, x = At(c, u, e), NotOff(c, u, e)
        PROVE  x \in Collected(c, l, d)
    <3>1. <<u, e>> \in Lines[l] \X (1..d) /\ <<u, e>>[1] = u /\ <<u, e>>[2] = e
      OBVIOUS
    <3> QED
      BY <2>2, <3>1 DEF Collected
  <2> QED
    BY <2>1, <2>2, <1>2 DEF Meets
<1>4. Collected(c, l, d) \subseteq Cell
  <2>1. \A e \in 1..d : NotOff(c, v, e) => Same(c, v, e)
    BY <1>1, Walks
  <2>2. \A e \in 1..d : NotOff(c, Back(v), e) => Same(c, v, -e)
    BY <1>1, Walks
  <2> SUFFICES ASSUME NEW x \in Collected(c, l, d) PROVE x \in Cell
    OBVIOUS
  <2>3. PICK e \in 1..d : \/ x = At(c, v, e) /\ NotOff(c, v, e)
                          \/ x = At(c, v, -e) /\ NotOff(c, Back(v), e)
    BY <1>3 DEF Meets
  <2> QED
    BY <2>1, <2>2, <2>3 DEF Same
<1>5. c \notin Collected(c, l, d)
  <2>1. c \in Int \X Int /\ 0 \in Int
    BY CellType, SMTT(30)
  <2>2. At(c, v, 0) = c /\ \A k \in Int : At(c, v, k) = At(c, v, 0) => k = 0
    <3>1. At(c, v, 0) = c
      <4>1. Shift(c, v)
        BY <2>1, Shifts
      <4> QED
        BY <4>1 DEF Shift
    <3>2. \A a, b \in Int : At(c, v, a) = At(c, v, b) => a = b
      <4>1. Shift(c, v)
        BY <2>1, Shifts
      <4> QED
        BY <4>1 DEF Shift
    <3> QED
      BY <2>1, <3>1, <3>2
  <2>3. ASSUME NEW e \in 1..d, c = At(c, v, e) \/ c = At(c, v, -e) PROVE FALSE
    BY <1>1, <2>2, <2>3
  <2> QED
    BY <1>3, <2>3 DEF Meets
<1> QED
  BY <1>3, <1>4, <1>5, CellFinite, FS_Subset, FS_CardinalityType

\* chess_board_find_first finds something exactly if some line has n stones within
\* the board, and then it takes the first such line.
LEMMA FindFirst ==
    ASSUME NEW c \in Cell, NEW n \in Nat \ {0}
    PROVE  /\ \A d \in 1..Size, l \in 1..4 :
                 Cardinality(Collected(c, l, d)) >= n => chess_board_find_first(c, n) # {}
           /\ chess_board_find_first(c, n) # {} =>
                 \E d \in 1..Size, l \in 1..4 :
                    /\ chess_board_find_first(c, n) = Collected(c, l, d)
                    /\ FirstFull(c, l, d, n)
<1> DEFINE full == {f \in (1..Size) \X (1..4) : Cardinality(Collected(c, f[2], f[1])) >= n}
           value(f) == 4 * f[1] + f[2]
           first == CHOOSE f \in full : \A g \in full : value(f) <= value(g)
<1>1. chess_board_find_first(c, n) = IF full = {} THEN {} ELSE Collected(c, first[2], first[1])
  BY DEF chess_board_find_first
<1>2. ASSUME full # {} PROVE first \in full /\ \A g \in full : value(first) <= value(g)
  <2> DEFINE S == {value(f) : f \in full}
  <2>1. \A f \in full : value(f) \in Nat
    <3> SUFFICES ASSUME NEW f \in full PROVE value(f) \in Nat
      OBVIOUS
    <3>1. f[1] \in 1..Size /\ f[2] \in 1..4
      OBVIOUS
    <3> QED
      BY <3>1, SMTT(30)
  <2> HIDE DEF value, full
  <2>2. S \in SUBSET Nat /\ S # {}
    BY <1>2, <2>1
  <2>3. \E m \in S : \A k \in S : m <= k
    BY <2>2, Least
  <2>4. \E f \in full : \A g \in full : value(f) <= value(g)
    BY <2>3
  <2> QED
    BY <2>4
<1>3. \A d \in 1..Size, l \in 1..4 : Cardinality(Collected(c, l, d)) >= n => <<d, l>> \in full
  <2> TAKE d \in 1..Size, l \in 1..4
  <2>1. <<d, l>> \in (1..Size) \X (1..4) /\ <<d, l>>[1] = d /\ <<d, l>>[2] = l
    OBVIOUS
  <2> QED
    BY <2>1
<1>4. ASSUME full # {}
      PROVE  /\ first[1] \in 1..Size /\ first[2] \in 1..4
             /\ Cardinality(Collected(c, first[2], first[1])) >= n
             /\ \A e \in 1..Size : Cardinality(Collected(c, first[2], e)) >= n => first[1] <= e
             /\ Collected(c, first[2], first[1]) # {}
  <2> HIDE DEF first
  <2>1. first[1] \in 1..Size /\ first[2] \in 1..4 /\ Cardinality(Collected(c, first[2], first[1])) >= n
    BY <1>2, <1>4
  <2>2. ASSUME NEW e \in 1..Size, Cardinality(Collected(c, first[2], e)) >= n
        PROVE  first[1] <= e
    <3>1. <<e, first[2]>> \in full
      BY <2>1, <2>2, <1>3
    <3>2. value(first) <= value(<<e, first[2]>>)
      BY <3>1, <1>2, <1>4
    <3> QED
      BY <2>1, <3>2, SMTT(30)
  <2>3. Cardinality({}) = 0 /\ ~(0 >= n)
    <3>1. ~(0 >= n)
      BY SMTT(30)
    <3> QED
      BY <3>1, FS_EmptySet
  <2> QED
    BY <2>1, <2>2, <2>3
<1> HIDE DEF full, first
<1>5. full = {} => chess_board_find_first(c, n) = {}
  BY <1>1
<1>6. full # {} => chess_board_find_first(c, n) = Collected(c, first[2], first[1])
  BY <1>1
<1> QED
  BY <1>3, <1>4, <1>5, <1>6 DEF FirstFull

\* The stone that chess_board_find stops at is the first one of its row: had it a
\* neighbour of its colour before it on the line, that one would have been found.
LEMMA RowStarts ==
    ASSUME NEW c \in Cell, NEW v \in Dirs, NEW l \in 1..4, Lines[l] = {v, Back(v)},
           NEW n \in Nat \ {0}, NEW d \in 1..Size, Cardinality(Collected(c, l, d)) >= n,
           Same(c, v, -1)
    PROVE  chess_board_find_first(At(c, v, -1), n) # {}
<1> DEFINE b == At(c, v, -1)
           S == Collected(c, l, d)
           T == Collected(b, l, Size)
<1>1. /\ c \in Int \X Int /\ b \in Cell /\ hit[b] = hit[c] /\ Size \in Nat /\ d \in Nat
      /\ 1 \in 1..Size /\ Size \in 1..Size /\ -1 \in Int
  <2>1. b \in Cell /\ hit[b] = hit[c]
    BY DEF Same
  <2>2. Size \in Nat
    BY OnBoard
  <2>3. d \in Nat /\ 1 \in 1..Size /\ Size \in 1..Size /\ -1 \in Int
    BY <2>2, SMTT(30)
  <2> QED
    BY <2>1, <2>2, <2>3, CellType
<1>2. \A k \in Int : At(b, v, k + 1) = At(c, v, k)
  <2>1. \A k, a \in Int : At(At(c, v, a), v, k) = At(c, v, a + k)
    <3>1. c \in Int \X Int
      BY <1>1
    <3> HIDE DEF b, S, T
    <3> QED
      <4>1. Shift(c, v)
        BY <3>1, Shifts
      <4> QED
        BY <4>1 DEF Shift
  <2>2. \A k \in Int : k + 1 \in Int /\ -1 + (k + 1) = k
    BY SMTT(30)
  <2> TAKE k \in Int
  <2>3. At(At(c, v, -1), v, k + 1) = At(c, v, -1 + (k + 1))
    BY <1>1, <2>1, <2>2
  <2> QED
    BY <2>2, <2>3
<1> HIDE DEF b
<1>3. \A k \in Int : Same(b, v, k + 1) <=> Same(c, v, k)
  BY <1>1, <1>2 DEF Same
<1>4. c = At(b, v, 1) /\ Same(b, v, 1)
  <2>1. 0 \in Int /\ 0 + 1 = 1
    BY SMTT(30)
  <2>2. At(c, v, 0) = c
    <3>1. Shift(c, v)
      BY <1>1, Shifts
    <3> QED
      BY <3>1 DEF Shift
  <2>3. At(b, v, 1) = At(c, v, 0)
    BY <1>2, <2>1
  <2> QED
    BY <1>1, <2>2, <2>3 DEF Same
<1>5. c \in T
  <2>1. \A e \in 1..1 : e = 1
    BY SMTT(30)
  <2>2. 1 \in Nat
    BY SMTT(30)
  <2>3. NotOff(b, v, 1)
    BY <1>1, <1>4, <2>1, <2>2, Walks
  <2> QED
    BY <1>1, <1>4, <2>3, Collects DEF Meets
<1>6. \A e \in 1..d : NotOff(c, v, e) => At(c, v, e) \in T
  <2> SUFFICES ASSUME NEW e \in 1..d, NotOff(c, v, e) PROVE At(c, v, e) \in T
    OBVIOUS
  <2>1. e \in Nat /\ e \in Int /\ e + 1 \in Nat
    BY SMTT(30)
  <2>2. \A k \in 1..e : Same(c, v, k)
    BY <2>1, Walks
  <2>3. \A k \in 1..(e + 1) : Same(b, v, k)
    <3> TAKE k \in 1..(e + 1)
    <3>1. CASE k = 1
      BY <3>1, <1>4
    <3>2. CASE k # 1
      <4>1. k - 1 \in 1..e /\ k - 1 \in Int /\ (k - 1) + 1 = k
        BY <2>1, <3>2, SMTT(30)
      <4> QED
        BY <4>1, <2>2, <1>3
    <3> QED
      BY <3>1, <3>2
  <2>4. NotOff(b, v, e + 1)
    BY <2>1, <2>3, <1>1, Walks
  <2>5. At(b, v, e + 1) = At(c, v, e)
    BY <2>1, <1>2
  <2>6. e + 1 \in 1..Size
    <3>1. e + 1 \in 1..(e + 1) /\ e + 1 \in Int
      BY <2>1, SMTT(30)
    <3>2. At(b, v, e + 1) \in Cell
      BY <2>3, <3>1 DEF Same
    <3>3. e + 1 < Size
      BY <3>1, <3>2, <1>1, OnBoard
    <3> QED
      BY <2>1, <3>3, <1>1, SMTT(30)
  <2> QED
    BY <2>4, <2>5, <2>6, <1>1, Collects DEF Meets
<1>7. \A e \in 1..d : NotOff(c, Back(v), e) => At(c, v, -e) \in T \cup {b}
  <2> SUFFICES ASSUME NEW e \in 1..d, NotOff(c, Back(v), e), e # 1 PROVE At(c, v, -e) \in T
    BY DEF b
  <2>1. e \in Nat /\ e - 1 \in Nat /\ -e \in Int /\ -e + 1 = -(e - 1) /\ e - 1 \in 1..d
    BY SMTT(30)
  <2>2. \A k \in 1..e : Same(c, v, -k)
    BY <2>1, Walks
  <2>3. \A k \in 1..(e - 1) : Same(b, v, -k)
    <3> TAKE k \in 1..(e - 1)
    <3>1. k + 1 \in 1..e /\ -(k + 1) \in Int /\ -(k + 1) + 1 = -k
      BY <2>1, SMTT(30)
    <3> QED
      BY <3>1, <2>2, <1>3
  <2>4. NotOff(b, Back(v), e - 1)
    BY <2>1, <2>3, <1>1, Walks
  <2>5. At(b, v, -(e - 1)) = At(c, v, -e)
    BY <2>1, <1>2
  <2>6. e - 1 \in 1..Size
    BY <2>1, <1>1, SMTT(30)
  <2> QED
    BY <2>4, <2>5, <2>6, <1>1, Collects DEF Meets
<1>8. S \subseteq T \cup {b}
  <2> SUFFICES ASSUME NEW x \in S PROVE x \in T \cup {b}
    OBVIOUS
  <2>1. Meets(c, v, d, x)
    BY <1>1, Collects
  <2>2. PICK e \in 1..d : \/ x = At(c, v, e) /\ NotOff(c, v, e)
                          \/ x = At(c, v, -e) /\ NotOff(c, Back(v), e)
    BY <2>1 DEF Meets
  <2> QED
    BY <2>2, <1>6, <1>7
<1>9. /\ IsFiniteSet(S) /\ c \notin S /\ Cardinality(S) \in Nat
      /\ IsFiniteSet(T) /\ b \notin T /\ Cardinality(T) \in Nat
  BY <1>1, Collects
<1>10. Cardinality(T) >= n
  <2> HIDE DEF S, T
  <2>1. IsFiniteSet(S \cup {c}) /\ Cardinality(S \cup {c}) = Cardinality(S) + 1
    BY <1>9, FS_AddElement
  <2>2. IsFiniteSet(T \cup {b}) /\ Cardinality(T \cup {b}) = Cardinality(T) + 1
    BY <1>9, FS_AddElement
  <2>3. S \cup {c} \subseteq T \cup {b}
    BY <1>5, <1>8 
  <2>4. Cardinality(S \cup {c}) <= Cardinality(T \cup {b})
    BY <2>2, <2>3, FS_Subset
  <2>5. Cardinality(S) >= n
    BY DEF S
  <2> QED
    BY <2>1, <2>2, <2>4, <2>5, <1>9, SMTT(30)
<1> QED
  BY <1>1, <1>10, FindFirst DEF b

\* A stone that starts a row of n + 1 on a line, and what is collected from it.
LEMMA RowFound ==
    ASSUME NEW c \in Cell, NEW v \in Dirs, NEW l \in 1..4, Lines[l] = {v, Back(v)},
           NEW n \in Nat \ {0}, NotOff(c, v, n)
    PROVE  /\ n \in 1..Size /\ Cardinality(Collected(c, l, n)) >= n
           /\ Ray(c, v, n) \subseteq Collected(c, l, n)
           /\ chess_board_find_first(c, n) # {}
<1>1. \A e \in 1..n : Same(c, v, e)
  BY Walks
<1>2. n \in 1..n /\ n \in Int
  BY SMTT(30)
<1>3. n \in 1..Size
  <2>1. At(c, v, n) \in Cell
    BY <1>1, <1>2 DEF Same
  <2>2. Size \in Nat /\ n < Size
    BY <1>2, <2>1, OnBoard
  <2> QED
    BY <2>2, SMTT(30)
<1>4. Ray(c, v, n) \subseteq Collected(c, l, n)
  <2> SUFFICES ASSUME NEW e \in 1..n PROVE At(c, v, e) \in Collected(c, l, n)
    BY DEF Ray
  <2>1. e \in Nat /\ \A k \in 1..e : k \in 1..n
    BY SMTT(30)
  <2>2. NotOff(c, v, e)
    BY <2>1, <1>1, Walks
  <2> QED
    BY <2>2, Collects DEF Meets
<1>5. Cardinality(Collected(c, l, n)) >= n
  <2>1. IsFiniteSet(Collected(c, l, n)) /\ Cardinality(Collected(c, l, n)) \in Nat
    BY Collects
  <2>2. Cardinality(Ray(c, v, n)) = n
    BY RayCount
  <2>3. Cardinality(Ray(c, v, n)) <= Cardinality(Collected(c, l, n))
    BY <1>4, <2>1, FS_Subset
  <2> QED
    BY <2>1, <2>2, <2>3, SMTT(30)
<1> QED
  BY <1>3, <1>4, <1>5, FindFirst

\* From the first stone of its row chess_board_find_first collects exactly n more.
LEMMA RowCollected ==
    ASSUME NEW c \in Cell, NEW v \in Dirs, NEW l \in 1..4, Lines[l] = {v, Back(v)},
           NEW n \in Nat \ {0}, NEW d \in 1..Size, FirstFull(c, l, d, n), ~Same(c, v, -1)
    PROVE  NotOff(c, v, n) /\ Collected(c, l, d) = Ray(c, v, n)
<1>1. d \in Nat /\ Size \in Nat
  <2>1. Size \in Nat
    BY OnBoard
  <2> QED
    BY <2>1, SMTT(30)
<1>2. \A e \in Nat \ {0} : ~NotOff(c, Back(v), e)
  <2> TAKE e \in Nat \ {0}
  <2>1. 1 \in 1..e
    BY SMTT(30)
  <2> QED
    BY <2>1, Walks
<1>3. \A x \in Collected(c, l, d) : \E e \in 1..d : x = At(c, v, e) /\ NotOff(c, v, e)
  <2> TAKE x \in Collected(c, l, d)
  <2>1. Meets(c, v, d, x)
    BY <1>1, Collects
  <2>2. \A e \in 1..d : e \in Nat \ {0}
    BY SMTT(30)
  <2> QED
    BY <1>2, <2>1, <2>2 DEF Meets
<1>4. NotOff(c, v, n)
  <2> SUFFICES ASSUME ~NotOff(c, v, n) PROVE FALSE
    OBVIOUS
  <2>1. n - 1 \in Nat
    BY SMTT(30)
  <2>2. Collected(c, l, d) \subseteq Ray(c, v, n - 1)
    <3> SUFFICES ASSUME NEW e \in 1..d, NotOff(c, v, e) PROVE At(c, v, e) \in Ray(c, v, n - 1)
      BY <1>3
    <3>1. e \in Nat /\ \A k \in 1..e : Same(c, v, k)
      <4>1. e \in Nat
        BY SMTT(30)
      <4> QED
        BY <4>1, Walks
    <3>2. ~(n <= e)
      <4> SUFFICES ASSUME n <= e PROVE FALSE
        OBVIOUS
      <4>1. \A k \in 1..n : k \in 1..e
        BY <3>1, SMTT(30)
      <4> QED
        BY <3>1, <4>1, Walks
    <3>3. e \in 1..(n - 1)
      BY <3>1, <3>2, SMTT(30)
    <3> QED
      BY <3>3 DEF Ray
  <2>3. IsFiniteSet(Ray(c, v, n - 1)) /\ Cardinality(Ray(c, v, n - 1)) = n - 1
    BY <2>1, RayCount
  <2>4. Cardinality(Collected(c, l, d)) <= Cardinality(Ray(c, v, n - 1))
    BY <2>2, <2>3, FS_Subset
  <2>5. Cardinality(Collected(c, l, d)) \in Nat /\ Cardinality(Collected(c, l, d)) >= n
    BY <1>1, Collects DEF FirstFull
  <2> QED
    BY <2>3, <2>4, <2>5, SMTT(30)
<1>5. n \in 1..Size /\ Cardinality(Collected(c, l, n)) >= n /\ Ray(c, v, n) \subseteq Collected(c, l, n)
  BY <1>4, RowFound
<1>6. d <= n
  BY <1>5 DEF FirstFull
<1>7. Collected(c, l, d) \subseteq Ray(c, v, n)
  <2> SUFFICES ASSUME NEW e \in 1..d PROVE At(c, v, e) \in Ray(c, v, n)
    BY <1>3
  <2>1. e \in 1..n
    BY <1>1, <1>6, SMTT(30)
  <2> QED
    BY <2>1 DEF Ray
<1>8. d = n
  <2>1. IsFiniteSet(Ray(c, v, d)) /\ Cardinality(Ray(c, v, d)) = d
    BY <1>1, RayCount
  <2>2. Collected(c, l, d) \subseteq Ray(c, v, d)
    BY <1>1, <1>3 DEF Ray
  <2>3. Cardinality(Collected(c, l, d)) <= Cardinality(Ray(c, v, d))
    BY <2>1, <2>2, FS_Subset
  <2>4. Cardinality(Collected(c, l, d)) \in Nat /\ Cardinality(Collected(c, l, d)) >= n
    BY <1>1, Collects DEF FirstFull
  <2> QED
    BY <2>1, <2>3, <2>4, <1>1, <1>6, SMTT(30)
<1> QED
  BY <1>4, <1>5, <1>7, <1>8

-----------------------------------------------------------------------------
(* chess_board_find *)

\* The set of points of a row of n + 1 stones from c on.
LEMMA RowPoints ==
    ASSUME NEW c \in Cell, NEW v \in Dirs, NEW n \in Nat \ {0, 1}
    PROVE  {At(c, v, e) : e \in 0..n - 1} = {c} \cup Ray(c, v, n - 1)
<1>1. At(c, v, 0) = c
  <2>1. Shift(c, v)
    BY CellType, Shifts
  <2> QED
    BY <2>1 DEF Shift
<1>2. \A e : e \in 0..n - 1 <=> e = 0 \/ e \in 1..n - 1
  BY SMTT(30)
<1> QED
  BY <1>1, <1>2 DEF Ray

Straight(n, r) == \E c \in Cell, v \in Dirs : r = {At(c, v, e) : e \in 0..n - 1}
OneColour(r) == r \subseteq Cell /\ \E colour \in {1, 2} : \A x \in r : hit[x] = colour

\* What a row of n stones is, by the stone it starts at.
LEMMA RowIs ==
    ASSUME NEW n, NEW r
    PROVE  /\ r \in Rows(n) <=> Straight(n, r) /\ OneColour(r)
           /\ hit' = hit => (r \in Rows(n)' <=> r \in Rows(n))
<1>1. r \in Rows(n) <=> Straight(n, r) /\ OneColour(r)
  BY SMTT(30) DEF Rows, Dirs, Straight, OneColour
<1>2. r \in Rows(n)' <=> Straight(n, r) /\ OneColour(r)'
  BY SMTT(30) DEF Rows, Dirs, Straight, OneColour
<1>3. hit' = hit => (OneColour(r)' <=> OneColour(r))
  BY DEF OneColour
<1> QED
  BY <1>1, <1>2, <1>3

\* A row of n stones starts at c in direction v exactly if the walk from c is not off
\* after n - 1 steps.
LEMMA RowsAre ==
    ASSUME hit \in [Cell -> 0..2], NEW n \in Nat \ {0, 1}
    PROVE  /\ \A c \in Cell, v \in Dirs : hit[c] # 0 /\ NotOff(c, v, n - 1) =>
                 {c} \cup Ray(c, v, n - 1) \in Rows(n)
           /\ \A r \in Rows(n) : \E c \in Cell, v \in Dirs : hit[c] # 0 /\ NotOff(c, v, n - 1)
<1>1. n - 1 \in Nat
  BY SMTT(30)
<1>2. ASSUME NEW c \in Cell, NEW v \in Dirs, hit[c] # 0, NotOff(c, v, n - 1)
      PROVE  {c} \cup Ray(c, v, n - 1) \in Rows(n)
  <2> DEFINE r == {At(c, v, e) : e \in 0..n - 1}
  <2>1. r = {c} \cup Ray(c, v, n - 1)
    BY RowPoints
  <2>2. \A e \in 1..n - 1 : At(c, v, e) \in Cell /\ hit[At(c, v, e)] = hit[c]
    BY <1>2 DEF NotOff
  <2>3. r \subseteq Cell /\ \A x \in r : hit[x] = hit[c]
    BY <2>1, <2>2 DEF Ray
  <2>4. hit[c] \in {1, 2}
    BY <1>2, SMTT(30)
  <2>5. Straight(n, r) /\ OneColour(r)
    BY <2>3, <2>4 DEF Straight, OneColour
  <2> QED
    BY <2>1, <2>5, RowIs
<1>3. ASSUME NEW r \in Rows(n)
      PROVE  \E c \in Cell, v \in Dirs : hit[c] # 0 /\ NotOff(c, v, n - 1)
  <2>6. Straight(n, r) /\ OneColour(r)
    BY RowIs
  <2>1. PICK c \in Cell, v \in Dirs : r = {At(c, v, e) : e \in 0..n - 1}
    BY <2>6 DEF Straight
  <2>2. r = {c} \cup Ray(c, v, n - 1)
    BY <2>1, RowPoints
  <2>3. r \subseteq Cell /\ \E colour \in {1, 2} : \A x \in r : hit[x] = colour
    BY <2>6 DEF OneColour
  <2>4. hit[c] # 0 /\ \A x \in r : hit[x] = hit[c]
    <3>1. c \in r /\ 1 # 0 /\ 2 # 0
      BY <2>2, SMTT(30)
    <3> QED
      BY <2>3, <3>1
  <2>5. NotOff(c, v, n - 1)
    BY <2>2, <2>3, <2>4 DEF NotOff, Ray
  <2> QED
    BY <2>4, <2>5
<1> QED
  BY <1>2, <1>3

\* The answer to n: a row is found exactly if there is one, and it is marked.
LEMMA Finds ==
    ASSUME hit \in [Cell -> 0..2], win = {}, NEW n \in Ns, chess_board_find(n)
    PROVE  /\ result' = 0 <=> Rows(n) # {}
           /\ IF result' = 0 THEN win' \in Rows(n) ELSE win' = {}
<1> DEFINE found == {c \in Cell : hit[c] # 0 /\ chess_board_find_first(c, n - 1) # {}}
           first == CHOOSE c \in found : \A e \in found : Index(c) <= Index(e)
<1>1. /\ result' = IF found = {} THEN -1 ELSE 0
      /\ win' = IF found = {} THEN {} ELSE {first} \cup chess_board_find_first(first, n - 1)
  BY DEF chess_board_find, Index
<1>2. n \in Nat \ {0, 1} /\ n - 1 \in Nat \ {0} /\ -1 # 0
  BY SMTT(30)
<1>3. ASSUME Rows(n) # {} PROVE found # {}
  <2>1. PICK c \in Cell, v \in Dirs : hit[c] # 0 /\ NotOff(c, v, n - 1)
    BY <1>2, <1>3, RowsAre
  <2>2. PICK l \in 1..4 : Lines[l] = {v, Back(v)}
    BY LineDirs
  <2>3. chess_board_find_first(c, n - 1) # {}
    BY <1>2, <2>1, <2>2, RowFound
  <2> QED
    BY <2>1, <2>3
<1>4. ASSUME found # {}
      PROVE  first \in found /\ \A e \in found : Index(first) <= Index(e)
  <2> DEFINE S == {Index(c) : c \in found}
  <2>1. \A c \in Cell : Index(c) \in Nat
    BY SMTT(30) DEF Index, Cell
  <2>2. S \in SUBSET Nat /\ S # {}
    BY <1>4, <2>1
  <2>3. \E m \in S : \A k \in S : m <= k
    BY <2>2, Least
  <2>4. \E c \in found : \A e \in found : Index(c) <= Index(e)
    BY <2>3
  <2> QED
    BY <2>4
<1>5. ASSUME found # {}
      PROVE  {first} \cup chess_board_find_first(first, n - 1) \in Rows(n)
  <2>1. first \in Cell /\ hit[first] # 0 /\ chess_board_find_first(first, n - 1) # {}
    BY <1>4, <1>5
  <2> HIDE DEF first
  <2>2. PICK d \in 1..Size, l \in 1..4 :
           /\ chess_board_find_first(first, n - 1) = Collected(first, l, d)
           /\ FirstFull(first, l, d, n - 1)
    BY <1>2, <2>1, FindFirst
  <2>3. PICK v \in Dirs : Lines[l] = {v, Back(v)}
    BY LineDirs
  <2>4. ~Same(first, v, -1)
    <3> SUFFICES ASSUME Same(first, v, -1) PROVE FALSE
      OBVIOUS
    <3> DEFINE b == At(first, v, -1)
    <3>1. b \in Cell /\ hit[b] # 0
      BY <2>1 DEF Same
    <3>2. chess_board_find_first(b, n - 1) # {}
      BY <1>2, <2>1, <2>2, <2>3, RowStarts DEF FirstFull
    <3>3. b \in found
      BY <3>1, <3>2
    <3>4. Index(first) <= Index(b)
      BY <3>3, <1>4, <1>5
    <3>5. Index(b) < Index(first)
      BY <2>1, <3>1, OnBoard
    <3>6. Index(b) \in Int /\ Index(first) \in Int
      BY <2>1, <3>1, SMTT(30) DEF Index, Cell
    <3> QED
      BY <3>4, <3>5, <3>6, SMTT(30)
  <2>5. NotOff(first, v, n - 1) /\ Collected(first, l, d) = Ray(first, v, n - 1)
    BY <1>2, <2>1, <2>2, <2>3, <2>4, RowCollected, SMTT(30)
  <2> QED
    BY <1>2, <2>1, <2>2, <2>5, RowsAre
<1> HIDE DEF found, first
<1> QED
  BY <1>1, <1>2, <1>3, <1>5

BoardInv ==
    /\ hit \in [Cell -> 0..2] /\ asked \in Ns \cup {0}
    /\ FindsRow

\* chess_board_init: an empty board with nothing found.
LEMMA BoardStarts == BoardInit => BoardInv
<1>1. 0 \in 0..2
  BY SMTT(30)
<1> QED
  BY <1>1 DEF BoardInit, BoardInv, FindsRow

\* A stone put and a search keep the board well formed and what was found true of it.
LEMMA BoardKeeps ==
    ASSUME BoardInv, [BoardNext]_boardVars
    PROVE  BoardInv'
<1>1. {0, 1, 2} \subseteq 0..2
  BY SMTT(30)
<1>2. hit' = hit => \A n : Rows(n)' = Rows(n)
  <2> SUFFICES ASSUME hit' = hit, NEW n PROVE Rows(n)' = Rows(n)
    OBVIOUS
  <2>1. \A r : r \in Rows(n)' <=> r \in Rows(n)
    BY RowIs
  <2> QED
    BY <2>1
<1>3. CASE place
  <2>1. hit' \in [Cell -> 0..2]
    BY <1>1, <1>3 DEF place, BoardInv
  <2> QED
    BY <1>3, <2>1 DEF place, BoardInv, FindsRow
<1>4. CASE ask
  <2>1. PICK n \in Ns : asked' = n /\ chess_board_find(n)
    BY <1>4 DEF ask
  <2>2. hit \in [Cell -> 0..2] /\ win = {} /\ hit' = hit
    BY <1>4, <2>1 DEF ask, BoardInv, FindsRow, chess_board_find
  <2>3. /\ result' = 0 <=> Rows(n) # {}
        /\ IF result' = 0 THEN win' \in Rows(n) ELSE win' = {}
    BY <2>1, <2>2, Finds
  <2>4. n # 0 /\ Rows(n)' = Rows(n)
    BY <1>2, <2>2
  <2>5. FindsRow'
    BY <2>1, <2>3, <2>4 DEF FindsRow
  <2> QED
    BY <2>1, <2>2, <2>5 DEF BoardInv
<1>5. CASE again
  BY <1>1, <1>5 DEF again, chess_board_reset, BoardInv, FindsRow
<1>6. CASE UNCHANGED boardVars
  BY <1>2, <1>6 DEF boardVars, BoardInv, FindsRow
<1> QED
  BY <1>3, <1>4, <1>5, <1>6 DEF BoardNext

\* On a board of any size and for any n from 2 on, chess_board_find returns 0 exactly
\* if there is a row of n stones, and it marks the points of one such row.
THEOREM RowOfN == BoardSpec => []FindsRow
<1>1. BoardInv => FindsRow
  BY DEF BoardInv
<1>2. BoardInv /\ [BoardNext]_boardVars => BoardInv'
  BY BoardKeeps
<1> QED
  BY <1>1, <1>2, BoardStarts, PTL DEF BoardSpec

-----------------------------------------------------------------------------
(***************************************************************************)
(* The weighted quick-union, for any number of sites: the forest stands    *)
(* for the partition that the unions generate, and the sizes at least      *)
(* double along a link, which is why wqu_find ends.                        *)
(***************************************************************************)

USE SiteAssumption
-----------------------------------------------------------------------------
(* The forest over the arrays a and z of the sites up to m, and the        *)
(* partition B that it stands for.                                         *)

Parts(B) == /\ \A b \in B : b \subseteq Site
            /\ \A x \in Site : \E b \in B : x \in b
            /\ \A b, c \in B : \A x \in b : x \in c => b = c

\* A site that has no place in the arrays is connected to none.
Fresh(B, m) == \A x \in Site : x > m => {x} \in B

Arrays(a, z, m) == m \in Site /\ a \in [0..m -> 0..m] /\ z \in [0..m -> Nat \ {0}]

\* Links stay in the block, a block has one root at most, the size of a root is that
\* of its block, and a link at least doubles the size.
Links(B, a, m) == \A b \in B : \A x \in b : x \in 0..m => a[x] \in b
OneRoot(B, a, m) == \A b \in B : \A x, y \in b :
                        x \in 0..m /\ y \in 0..m /\ a[x] = x /\ a[y] = y => x = y
Sizes(B, a, z, m) == \A b \in B : \A x \in b :
                        x \in 0..m /\ a[x] = x => z[x] = Cardinality(b)
Doubles(a, z, m) == \A x \in 0..m : a[x] # x => 2 * z[x] <= z[a[x]]

Forest(B, a, z, m) == /\ Parts(B) /\ Fresh(B, m) /\ Arrays(a, z, m)
                      /\ Links(B, a, m) /\ OneRoot(B, a, m)
                      /\ Sizes(B, a, z, m) /\ Doubles(a, z, m)

RootOf(b, a, m, r) == r \in 0..m /\ r \in b /\ a[r] = r

UnionInv == Forest(blocks, ids, sz, maxid)

\* A finite array of naturals has an upper bound.
LEMMA Bounded ==
    ASSUME NEW m \in Nat, NEW z \in [0..m -> Nat]
    PROVE  \E u \in Nat : \A x \in 0..m : z[x] <= u
<1> DEFINE Bd(k) == \E u \in Nat : \A x \in 0..k : z[x] <= u
           S == {k \in 0..m : ~Bd(k)}
<1>1. SUFFICES ASSUME S # {} PROVE FALSE
  <2>1. m \in 0..m
    BY SMTT(30)
  <2> QED
    BY <1>1, <2>1
<1>2. S \in SUBSET Nat
  BY SMTT(30)
<1>3. PICK k \in S : \A e \in S : k <= e
  <2> HIDE DEF S
  <2> QED
    BY <1>1, <1>2, Least
<1>4. CASE k = 0
  <2>1. \A x \in 0..0 : z[x] <= z[0]
    BY SMTT(30)
  <2>2. z[0] \in Nat
    BY SMTT(30)
  <2>3. Bd(0)
    BY <2>1, <2>2
  <2> QED
    BY <1>4, <2>3
<1>5. CASE k # 0
  <2>1. k - 1 \in 0..m /\ ~(k <= k - 1) /\ k \in 0..m
    BY <1>5, SMTT(30)
  <2>2. Bd(k - 1)
    BY <1>3, <2>1
  <2>3. PICK u \in Nat : \A x \in 0..(k - 1) : z[x] <= u
    BY <2>2
  <2>4. \A x \in 0..k : z[x] <= u + z[k]
    BY <2>1, <2>3, SMTT(30)
  <2>5. u + z[k] \in Nat
    BY <2>1, SMTT(30)
  <2>6. Bd(k)
    BY <2>4, <2>5
  <2> QED
    BY <2>6
<1> QED
  BY <1>4, <1>5

\* The loop of wqu_find ends, at the root of the block of the site it starts from:
\* the sizes grow along the links.
LEMMA FindsRoot ==
    ASSUME NEW B, NEW a, NEW z, NEW m, Forest(B, a, z, m),
           NEW b \in B, NEW p \in b, p \in 0..m
    PROVE  RootOf(b, a, m, wqu_find(a, p))
<1> DEFINE V == Visited(a, p)
<1>0. m \in Nat /\ a \in [0..m -> 0..m] /\ z \in [0..m -> Nat \ {0}] /\ DOMAIN a = 0..m
  <2>1. m \in Site /\ a \in [0..m -> 0..m] /\ z \in [0..m -> Nat \ {0}]
    BY DEF Forest, Arrays
  <2>2. m \in Nat
    BY <2>1, SMTT(30) DEF Site
  <2> QED
    BY <2>1, <2>2
<1>1. p \in V /\ V \subseteq 0..m
  BY <1>0 DEF Visited
<1>2. \A x \in V : a[x] \in V
  <2> TAKE x \in V
  <2>1. x \in 0..m /\ a[x] \in 0..m
    BY <1>0, <1>1
  <2>2. ASSUME NEW S \in SUBSET DOMAIN a, p \in S, Closed(a, S) PROVE a[x] \in S
    BY <2>2 DEF Visited, Closed
  <2> QED
    BY <1>0, <2>1, <2>2 DEF Visited
<1>3. V \subseteq b
  <2> DEFINE S == b \cap (0..m)
  <2>1. S \in SUBSET DOMAIN a /\ p \in S
    BY <1>0
  <2>2. \A x \in S : a[x] \in S
    BY <1>0 DEF Forest, Links
  <2>3. Closed(a, S)
    BY <2>2 DEF Closed
  <2>4. \A x \in V : x \in S
    BY <2>1, <2>3 DEF Visited
  <2> QED
    BY <2>4
<1>4. \E r \in V : a[r] = r
  <2> HIDE DEF V
  <2>1. z \in [0..m -> Nat]
    BY <1>0, SMTT(30)
  <2>2. PICK u \in Nat : \A x \in 0..m : z[x] <= u
    BY <1>0, <2>1, Bounded
  <2> DEFINE K == {u - z[x] : x \in V}
  <2>3. \A x \in V : z[x] \in Nat /\ z[x] <= u
    BY <1>1, <2>1, <2>2, SMTT(30)
  <2>4. K \in SUBSET Nat
    BY <2>3, SMTT(30)
  <2>5. K # {}
    BY <1>1
  <2>6. PICK k \in K : \A e \in K : k <= e
    <3> HIDE DEF K
    <3> QED
      BY <2>4, <2>5, Least
  <2>7. PICK x \in V : k = u - z[x]
    BY <2>6
  <2>8. a[x] \in V /\ x \in 0..m /\ a[x] \in 0..m
    BY <1>0, <1>1, <1>2
  <2>9. u - z[a[x]] \in K
    BY <2>8
  <2>10. u - z[x] <= u - z[a[x]]
    BY <2>6, <2>7, <2>9
  <2>11. z[x] \in Nat \ {0} /\ z[a[x]] \in Nat
    BY <1>0, <2>1, <2>8
  <2>12. ~(2 * z[x] <= z[a[x]])
    BY <2>10, <2>11, SMTT(30)
  <2>13. a[x] = x
    BY <2>8, <2>12 DEF Forest, Doubles
  <2> QED
    BY <2>13
<1>5. wqu_find(a, p) \in V /\ a[wqu_find(a, p)] = wqu_find(a, p)
  BY <1>4 DEF wqu_find
<1> QED
  BY <1>1, <1>3, <1>5 DEF RootOf

\* A block of a site in the arrays has all its sites there.
LEMMA BlockKnown ==
    ASSUME NEW B, NEW a, NEW z, NEW m, Forest(B, a, z, m),
           NEW b \in B, NEW p \in b, p \in 0..m
    PROVE  b \subseteq 0..m /\ IsFiniteSet(b)
<1>1. m \in Nat /\ m \in Int /\ 0 \in Int
  <2>1. m \in Site
    BY DEF Forest, Arrays
  <2> QED
    BY <2>1, SMTT(30) DEF Site
<1>2. b \subseteq 0..m
  <2> SUFFICES ASSUME NEW x \in b, x \notin 0..m PROVE FALSE
    OBVIOUS
  <2>1. x \in Site
    BY DEF Forest, Parts
  <2>2. x > m
    BY <1>1, <2>1, SMTT(30) DEF Site
  <2>3. {x} \in B
    BY <2>1, <2>2 DEF Forest, Fresh
  <2>4. b = {x}
    BY <2>3 DEF Forest, Parts
  <2> QED
    BY <2>4
<1>3. IsFiniteSet(0..m)
  BY <1>1, FS_Interval
<1> QED
  BY <1>2, <1>3, FS_Subset

\* wqu_grow: the sites it adds are alone in their blocks.
LEMMA Grows ==
    ASSUME UnionInv, NEW p \in Site, NEW q \in Site
    PROVE  LET g == wqu_grow(Larger(p, q) + 1)
           IN  /\ Forest(blocks, g.ids, g.sz, g.maxid)
               /\ p \in 0..g.maxid /\ q \in 0..g.maxid
<1> DEFINE n == Larger(p, q) + 1
           g == wqu_grow(n)
<1>1. n \in Nat \ {0} /\ n - 1 \in Site /\ p \in 0..(n - 1) /\ q \in 0..(n - 1)
  BY SMTT(30) DEF Larger, Site
<1> HIDE DEF n
<1>2. /\ maxid \in Site /\ ids \in [0..maxid -> 0..maxid]
      /\ sz \in [0..maxid -> Nat \ {0}] /\ DOMAIN ids = 0..maxid
  BY DEF UnionInv, Forest, Arrays
<1>3. maxid \in Nat /\ maxid \in Int /\ 0 \in Int
  BY <1>2, SMTT(30) DEF Site
<1>4. Cardinality(DOMAIN ids) = IF 0 > maxid THEN 0 ELSE maxid - 0 + 1
  BY <1>2, <1>3, FS_Interval
<1>5. Cardinality(DOMAIN ids) = maxid + 1
  BY <1>3, <1>4, SMTT(30)
<1>6. CASE ~(maxid + 1 < n)
  <2>1. g = [ids |-> ids, sz |-> sz, maxid |-> maxid]
    BY <1>5, <1>6 DEF wqu_grow
  <2>2. p \in 0..maxid /\ q \in 0..maxid
    BY <1>1, <1>3, <1>6, SMTT(30)
  <2>3. g.ids = ids /\ g.sz = sz /\ g.maxid = maxid
    <3> HIDE DEF g
    <3> QED
      BY <2>1, SMTT(30)
  <2> QED
    BY <2>2, <2>3 DEF UnionInv, n
<1>7. CASE maxid + 1 < n
  <2> DEFINE a == g.ids
             z == g.sz
             m == n - 1
  <2>1. g = [ids |-> Extended(ids, [s \in 0..(n - 1) |-> s]),
             sz |-> Extended(sz, [s \in 0..(n - 1) |-> 1]),
             maxid |-> n - 1]
    BY <1>5, <1>7 DEF wqu_grow
  <2>2. 0..maxid \subseteq 0..m /\ m \in Nat /\ maxid < m /\ m \in Site
    BY <1>1, <1>3, <1>7, SMTT(30)
  <2>3. (0..maxid) \cup (0..m) = 0..m
    BY <2>2
  <2>4. /\ a = [s \in 0..m |-> IF s \in 0..maxid THEN ids[s] ELSE s]
        /\ z = [s \in 0..m |-> IF s \in 0..maxid THEN sz[s] ELSE 1]
        /\ g.maxid = m
    <3>1. DOMAIN sz = 0..maxid
      BY <1>2
    <3>2. g.ids = Extended(ids, [s \in 0..m |-> s]) /\ g.sz = Extended(sz, [s \in 0..m |-> 1])
          /\ g.maxid = m
      <4> HIDE DEF g
      <4> QED
        BY <2>1, SMTT(30)
    <3>3. Extended(ids, [s \in 0..m |-> s]) = [s \in 0..m |-> IF s \in 0..maxid THEN ids[s] ELSE s]
      BY <1>2, <2>3, SMTT(30) DEF Extended
    <3>4. Extended(sz, [s \in 0..m |-> 1]) = [s \in 0..m |-> IF s \in 0..maxid THEN sz[s] ELSE 1]
      BY <3>1, <2>3, SMTT(30) DEF Extended
    <3> QED
      BY <3>2, <3>3, <3>4
  <2> HIDE DEF a, z, m, g
  <2>5. /\ \A x \in 0..maxid : a[x] = ids[x] /\ z[x] = sz[x]
        /\ \A x \in 0..m : x \notin 0..maxid => a[x] = x /\ z[x] = 1
    BY <2>2, <2>4
  <2>6. Arrays(a, z, m)
    <3>1. 1 \in Nat \ {0}
      BY SMTT(30)
    <3>2. a \in [0..m -> 0..m]
      BY <1>2, <2>2, <2>4
    <3>3. z \in [0..m -> Nat \ {0}]
      BY <1>2, <2>2, <2>4, <3>1
    <3> QED
      BY <2>2, <3>2, <3>3 DEF Arrays
  <2>7. Parts(blocks)
    BY DEF UnionInv, Forest
  <2>8. \A b \in blocks : \A x \in b : x \in 0..m /\ x \notin 0..maxid => b = {x}
    <3> TAKE b \in blocks
    <3> TAKE x \in b
    <3> HAVE x \in 0..m /\ x \notin 0..maxid
    <3>1. x \in Site
      BY <2>7 DEF Parts
    <3>2. x > maxid
      BY <1>3, <2>2, SMTT(30)
    <3>3. {x} \in blocks
      BY <3>1, <3>2 DEF UnionInv, Forest, Fresh
    <3> QED
      BY <3>3, <2>7 DEF Parts
  <2>9. Fresh(blocks, m)
    <3>1. \A x \in Site : x > m => x > maxid
      BY <1>3, <2>2, SMTT(30) DEF Site
    <3> QED
      BY <3>1 DEF UnionInv, Forest, Fresh
  <2>10. Links(blocks, a, m)
    <3> SUFFICES ASSUME NEW b \in blocks, NEW x \in b, x \in 0..m PROVE a[x] \in b
      BY DEF Links
    <3>1. CASE x \in 0..maxid
      BY <3>1, <2>5 DEF UnionInv, Forest, Links
    <3>2. CASE x \notin 0..maxid
      BY <3>2, <2>5
    <3> QED
      BY <3>1, <3>2
  <2>11. OneRoot(blocks, a, m)
    <3> SUFFICES ASSUME NEW b \in blocks, NEW x \in b, NEW y \in b, x \in 0..m, y \in 0..m,
                        a[x] = x, a[y] = y
                 PROVE  x = y
      BY DEF OneRoot
    <3>1. CASE x \in 0..maxid /\ y \in 0..maxid
      BY <3>1, <2>5 DEF UnionInv, Forest, OneRoot
    <3>2. CASE x \notin 0..maxid
      <4>1. b = {x}
        BY <3>2, <2>8
      <4> QED
        BY <4>1
    <3>3. CASE y \notin 0..maxid
      <4>1. b = {y}
        BY <3>3, <2>8
      <4> QED
        BY <4>1
    <3> QED
      BY <3>1, <3>2, <3>3
  <2>12. Sizes(blocks, a, z, m)
    <3> SUFFICES ASSUME NEW b \in blocks, NEW x \in b, x \in 0..m, a[x] = x
                 PROVE  z[x] = Cardinality(b)
      BY DEF Sizes
    <3>1. CASE x \in 0..maxid
      BY <3>1, <2>5 DEF UnionInv, Forest, Sizes
    <3>2. CASE x \notin 0..maxid
      <4>1. b = {x} /\ z[x] = 1
        BY <3>2, <2>5, <2>8
      <4>2. Cardinality({x}) = 1
        BY FS_Singleton
      <4> QED
        BY <4>1, <4>2
    <3> QED
      BY <3>1, <3>2
  <2>13. Doubles(a, z, m)
    <3> SUFFICES ASSUME NEW x \in 0..m, a[x] # x PROVE 2 * z[x] <= z[a[x]]
      BY DEF Doubles
    <3>1. x \in 0..maxid
      BY <2>5
    <3>2. ids[x] \in 0..maxid
      BY <1>2, <3>1
    <3>3. a[x] = ids[x] /\ z[x] = sz[x] /\ z[ids[x]] = sz[ids[x]]
      BY <2>5, <3>1, <3>2
    <3>4. 2 * sz[x] <= sz[ids[x]]
      BY <3>1, <3>3 DEF UnionInv, Forest, Doubles
    <3> QED
      BY <3>3, <3>4
  <2>14. Forest(blocks, a, z, m)
    BY <2>6, <2>7, <2>9, <2>10, <2>11, <2>12, <2>13 DEF Forest
  <2> QED
    BY <1>1, <2>4, <2>14 DEF n, a, z, m, g
<1> QED
  BY <1>6, <1>7

\* wqu_union: the root low goes under top, whose block was no smaller.
LEMMA LinksRoots ==
    ASSUME NEW B, NEW a, NEW z, NEW m, Forest(B, a, z, m),
           NEW b \in B, NEW c \in B, NEW top \in b, NEW low \in c,
           top \in 0..m, low \in 0..m, a[top] = top, a[low] = low, top # low,
           z[top] >= z[low]
    PROVE  Forest((B \ {b, c}) \cup {b \cup c}, [a EXCEPT ![low] = top],
                  [z EXCEPT ![top] = @ + z[low]], m)
<1> DEFINE C == (B \ {b, c}) \cup {b \cup c}
           f == [a EXCEPT ![low] = top]
           h == [z EXCEPT ![top] = @ + z[low]]
<1>1. b # c
  BY DEF Forest, OneRoot
<1>2. Parts(B) /\ Arrays(a, z, m)
  BY DEF Forest
<1>3. a \in [0..m -> 0..m] /\ z \in [0..m -> Nat \ {0}] /\ m \in Site
  BY <1>2 DEF Arrays
<1>4. b \subseteq 0..m /\ IsFiniteSet(b) /\ c \subseteq 0..m /\ IsFiniteSet(c)
  BY BlockKnown
<1>5. b \cap c = {}
  BY <1>1, <1>2 DEF Parts
<1>6. z[top] = Cardinality(b) /\ z[low] = Cardinality(c)
  BY DEF Forest, Sizes
<1>7. z[top] \in Nat \ {0} /\ z[low] \in Nat \ {0}
  BY <1>3
<1>8. Cardinality(b \cup c) = z[top] + z[low]
  <2>1. Cardinality(b \cup c) = Cardinality(b) + Cardinality(c) - Cardinality({})
    BY <1>4, <1>5, FS_Union
  <2>2. Cardinality({}) = 0
    BY FS_EmptySet
  <2> QED
    BY <1>6, <1>7, <2>1, <2>2, SMTT(30)
<1>9. /\ f \in [0..m -> 0..m] /\ f[low] = top
      /\ \A x \in 0..m : x # low => f[x] = a[x]
  BY <1>3
<1>10. /\ h \in [0..m -> Nat \ {0}] /\ h[top] = z[top] + z[low]
       /\ \A x \in 0..m : x # top => h[x] = z[x]
  BY <1>3, <1>7, SMTT(30)
<1> HIDE DEF f, h
<1>11. Arrays(f, h, m)
  BY <1>3, <1>9, <1>10 DEF Arrays
<1>12. \A d \in C : d = b \cup c \/ (d \in B /\ d # b /\ d # c)
  OBVIOUS
<1>13. b \cup c \in C /\ \A d \in B : d # b /\ d # c => d \in C
  OBVIOUS
<1> HIDE DEF C
<1>14. \A d \in B : d # b /\ d # c => \A x \in d : x \notin b /\ x \notin c
  BY <1>2 DEF Parts
<1>15. Parts(C)
  <2>1. \A d \in C : d \subseteq Site
    <3>1. \A d \in B : d \subseteq Site
      BY <1>2 DEF Parts
    <3>2. b \cup c \subseteq Site
      BY <3>1
    <3> QED
      BY <3>1, <3>2, <1>12
  <2>2. \A x \in Site : \E d \in C : x \in d
    <3> TAKE x \in Site
    <3>1. PICK d \in B : x \in d
      BY <1>2 DEF Parts
    <3>2. CASE d = b \/ d = c
      BY <3>1, <3>2, <1>13
    <3>3. CASE d # b /\ d # c
      BY <3>1, <3>3, <1>13
    <3> QED
      BY <3>2, <3>3
  <2>3. \A d, e \in C : \A x \in d : x \in e => d = e
    <3> SUFFICES ASSUME NEW d \in C, NEW e \in C, NEW x \in d, x \in e PROVE d = e
      OBVIOUS
    <3>1. CASE d \in B /\ d # b /\ d # c
      <4>1. x \notin b /\ x \notin c
        BY <3>1, <1>14
      <4>2. e \in B
        BY <4>1, <1>12
      <4> QED
        BY <3>1, <4>2, <1>2 DEF Parts
    <3>2. CASE e \in B /\ e # b /\ e # c
      <4>1. x \notin b /\ x \notin c
        BY <3>2, <1>14
      <4>2. d \in B
        BY <4>1, <1>12
      <4> QED
        BY <3>2, <4>2, <1>2 DEF Parts
    <3>3. CASE d = b \cup c /\ e = b \cup c
      BY <3>3
    <3> QED
      BY <3>1, <3>2, <3>3, <1>12
  <2> QED
    BY <2>1, <2>2, <2>3 DEF Parts
<1>16. Fresh(C, m)
  <2> SUFFICES ASSUME NEW x \in Site, x > m PROVE {x} \in C
    BY DEF Fresh
  <2>1. {x} \in B
    BY DEF Forest, Fresh
  <2>2. x \notin 0..m
    BY <1>3, SMTT(30) DEF Site
  <2>3. x \notin b /\ x \notin c
    BY <2>2, <1>4
  <2>4. {x} # b /\ {x} # c
    BY <2>3
  <2> QED
    BY <2>1, <2>4, <1>13
<1>17. Links(C, f, m)
  <2> SUFFICES ASSUME NEW d \in C, NEW x \in d, x \in 0..m PROVE f[x] \in d
    BY DEF Links
  <2>1. CASE d \in B /\ d # b /\ d # c
    <3>1. x # low
      BY <2>1, <1>14
    <3>2. a[x] \in d
      BY <2>1 DEF Forest, Links
    <3> QED
      BY <3>1, <3>2, <1>9
  <2>2. CASE d = b \cup c
    <3>1. (x \in b => a[x] \in b) /\ (x \in c => a[x] \in c)
      BY DEF Forest, Links
    <3>2. a[x] \in d /\ top \in d
      BY <3>1, <2>2
    <3> QED
      BY <3>2, <1>9
  <2> QED
    BY <2>1, <2>2, <1>12
\* The only root of the new block is top.
<1>18. \A x \in b \cup c : f[x] = x => x = top
  <2> SUFFICES ASSUME NEW x \in b \cup c, f[x] = x PROVE x = top
    OBVIOUS
  <2>1. x \in 0..m /\ x # low
    BY <1>4, <1>9
  <2>2. a[x] = x
    BY <2>1, <1>9
  <2>3. x \in c => x = low
    BY <2>1, <2>2 DEF Forest, OneRoot
  <2>4. x \in b => x = top
    BY <2>1, <2>2 DEF Forest, OneRoot
  <2> QED
    BY <2>1, <2>3, <2>4
<1>19. OneRoot(C, f, m)
  <2> SUFFICES ASSUME NEW d \in C, NEW x \in d, NEW y \in d, x \in 0..m, y \in 0..m,
                      f[x] = x, f[y] = y
               PROVE  x = y
    BY DEF OneRoot
  <2>1. CASE d \in B /\ d # b /\ d # c
    <3>1. x # low /\ y # low
      BY <2>1, <1>14
    <3>2. a[x] = x /\ a[y] = y
      BY <3>1, <1>9
    <3> QED
      BY <2>1, <3>2 DEF Forest, OneRoot
  <2>2. CASE d = b \cup c
    BY <2>2, <1>18
  <2> QED
    BY <2>1, <2>2, <1>12
<1>20. Sizes(C, f, h, m)
  <2> SUFFICES ASSUME NEW d \in C, NEW x \in d, x \in 0..m, f[x] = x
               PROVE  h[x] = Cardinality(d)
    BY DEF Sizes
  <2>1. CASE d \in B /\ d # b /\ d # c
    <3>1. x # low /\ x # top
      BY <2>1, <1>14
    <3>2. a[x] = x /\ h[x] = z[x]
      BY <3>1, <1>9, <1>10
    <3> QED
      BY <2>1, <3>2 DEF Forest, Sizes
  <2>2. CASE d = b \cup c
    <3>1. x = top
      BY <2>2, <1>18
    <3> QED
      BY <2>2, <3>1, <1>8, <1>10
  <2> QED
    BY <2>1, <2>2, <1>12
<1>21. Doubles(f, h, m)
  <2> SUFFICES ASSUME NEW x \in 0..m, f[x] # x PROVE 2 * h[x] <= h[f[x]]
    BY DEF Doubles
  <2>1. x # top
    BY <1>9
  <2>2. h[x] = z[x]
    BY <2>1, <1>10
  <2>3. CASE x = low
    BY <2>2, <2>3, <1>7, <1>9, <1>10, SMTT(30)
  <2>4. CASE x # low
    <3>1. f[x] = a[x] /\ a[x] \in 0..m
      BY <2>4, <1>3, <1>9
    <3>2. 2 * z[x] <= z[a[x]]
      BY <3>1 DEF Forest, Doubles
    <3>3. h[a[x]] = z[a[x]] \/ (a[x] = top /\ h[a[x]] = z[top] + z[low])
      BY <3>1, <1>10
    <3>4. z[x] \in Nat /\ z[a[x]] \in Nat
      BY <1>3, <3>1, SMTT(30)
    <3>5. z[a[x]] <= h[a[x]]
      BY <3>3, <3>4, <1>7, SMTT(30)
    <3>6. h[a[x]] \in Nat
      BY <3>1, <1>10, SMTT(30)
    <3>7. 2 * z[x] <= h[a[x]]
      <4> HIDE DEF f, h
      <4> QED
        BY <3>2, <3>4, <3>5, <3>6, SMTT(30)
    <3> QED
      BY <2>2, <3>1, <3>7
  <2> QED
    BY <2>3, <2>4
<1>22. Forest(C, f, h, m)
  BY <1>11, <1>15, <1>16, <1>17, <1>19, <1>20, <1>21 DEF Forest
<1> QED
  BY <1>22 DEF C, f, h

-----------------------------------------------------------------------------
(* The steps. *)

\* Block names the set of the partition that the site is in.
LEMMA BlockIs ==
    ASSUME Parts(blocks), NEW x \in Site
    PROVE  /\ Block(x) \in blocks /\ x \in Block(x)
           /\ \A b \in blocks : x \in b => b = Block(x)
<1>1. \E b \in blocks : x \in b
  BY DEF Parts
<1>2. Block(x) \in blocks /\ x \in Block(x)
  BY <1>1 DEF Block
<1> QED
  BY <1>2 DEF Parts

\* wqu_init: every site is alone, and site 0 has a place.
LEMMA UnionStarts == UnionInit => UnionInv
<1> SUFFICES ASSUME UnionInit PROVE UnionInv
  OBVIOUS
<1>1. /\ ids = [s \in {0} |-> 0] /\ sz = [s \in {0} |-> 1]
      /\ maxid = 0 /\ blocks = {{s} : s \in Site}
  BY DEF UnionInit
<1>2. 0 \in Site /\ 0..0 = {0} /\ 1 \in Nat \ {0}
  BY SMTT(30) DEF Site
<1>3. Parts(blocks)
  <2>1. \A b \in blocks : \E y \in Site : b = {y}
    BY <1>1
  <2>2. \A y \in Site : {y} \in blocks /\ y \in {y}
    BY <1>1
  <2>3. ASSUME NEW b \in blocks PROVE b \subseteq Site
    <3>1. PICK y \in Site : b = {y}
      BY <2>1
    <3> QED
      BY <3>1
  <2>4. \A b, c \in blocks : \A x \in b : x \in c => b = c
    <3> SUFFICES ASSUME NEW b \in blocks, NEW c \in blocks, NEW x \in b, x \in c PROVE b = c
      OBVIOUS
    <3>1. PICK y \in Site : b = {y}
      BY <2>1
    <3>2. PICK w \in Site : c = {w}
      BY <2>1
    <3>3. x = y /\ x = w
      BY <3>1, <3>2
    <3> QED
      BY <3>1, <3>2, <3>3
  <2>5. \A x \in Site : \E b \in blocks : x \in b
    BY <2>2
  <2> QED
    BY <2>3, <2>4, <2>5 DEF Parts
<1>4. Fresh(blocks, maxid)
  BY <1>1 DEF Fresh
<1>5. Arrays(ids, sz, maxid)
  BY <1>1, <1>2 DEF Arrays
<1>6. \A x \in 0..maxid : x = 0 /\ ids[x] = x /\ sz[x] = 1
  BY <1>1, <1>2
<1>7. Links(blocks, ids, maxid)
  BY <1>6 DEF Links
<1>8. OneRoot(blocks, ids, maxid)
  BY <1>6 DEF OneRoot
<1>9. Sizes(blocks, ids, sz, maxid)
  <2>1. \A b \in blocks : Cardinality(b) = 1
    BY <1>1, FS_Singleton
  <2> QED
    BY <1>6, <2>1 DEF Sizes
<1>10. Doubles(ids, sz, maxid)
  BY <1>6 DEF Doubles
<1> QED
  BY <1>3, <1>4, <1>5, <1>7, <1>8, <1>9, <1>10 DEF UnionInv, Forest

\* wqu_union, after it has grown the arrays, changes nothing for connected sites and
\* otherwise links the roots.
LEMMA UnionKeeps ==
    ASSUME UnionInv, NEW p \in Site, NEW q \in Site, wqu_union(p, q)
    PROVE  UnionInv'
<1> DEFINE g == wqu_grow(Larger(p, q) + 1)
           a == g.ids
           z == g.sz
           m == g.maxid
           r == wqu_find(a, p)
           s == wqu_find(a, q)
           b == Block(p)
           c == Block(q)
<1>1. Forest(blocks, a, z, m) /\ p \in 0..m /\ q \in 0..m
  BY Grows
<1>2. /\ maxid' = m
      /\ ids' = IF r = s THEN a
                ELSE [a EXCEPT ![IF UnderFirst(z, r, s) THEN s ELSE r]
                                 = IF UnderFirst(z, r, s) THEN r ELSE s]
      /\ sz' = IF r = s THEN z
               ELSE [z EXCEPT ![IF UnderFirst(z, r, s) THEN r ELSE s]
                                = @ + z[IF UnderFirst(z, r, s) THEN s ELSE r]]
      /\ blocks' = (blocks \ {b, c}) \cup {b \cup c}
  BY DEF wqu_union
<1> HIDE DEF g, a, z, m
<1>3. Parts(blocks)
  BY DEF UnionInv, Forest
<1>4. b \in blocks /\ p \in b /\ c \in blocks /\ q \in c
  BY <1>3, BlockIs
<1> HIDE DEF b, c
<1>5. r \in 0..m /\ r \in b /\ a[r] = r /\ s \in 0..m /\ s \in c /\ a[s] = s
  <2>1. RootOf(b, a, m, wqu_find(a, p))
    BY <1>1, <1>4, FindsRoot
  <2>2. RootOf(c, a, m, wqu_find(a, q))
    BY <1>1, <1>4, FindsRoot
  <2> QED
    BY <2>1, <2>2 DEF RootOf
<1> HIDE DEF r, s
<1>6. z[r] \in Nat /\ z[s] \in Nat
  <2>1. z \in [0..m -> Nat \ {0}]
    BY <1>1 DEF Forest, Arrays
  <2> QED
    BY <1>5, <2>1
<1>7. CASE r = s
  <2>1. b = c
    BY <1>3, <1>4, <1>5, <1>7 DEF Parts
  <2>2. blocks' = blocks
    BY <1>2, <1>4, <2>1
  <2>3. ids' = a /\ sz' = z /\ maxid' = m
    BY <1>2, <1>7
  <2> QED
    BY <1>1, <2>2, <2>3 DEF UnionInv
<1>8. CASE r # s /\ z[r] >= z[s]
  <2>1. UnderFirst(z, r, s)
    BY <1>8 DEF UnderFirst
  <2>2. ids' = [a EXCEPT ![s] = r] /\ sz' = [z EXCEPT ![r] = @ + z[s]]
    BY <1>2, <1>8, <2>1
  <2>3. Forest((blocks \ {b, c}) \cup {b \cup c}, [a EXCEPT ![s] = r],
               [z EXCEPT ![r] = @ + z[s]], m)
    BY <1>1, <1>4, <1>5, <1>8, LinksRoots
  <2> QED
    BY <1>2, <2>2, <2>3 DEF UnionInv
<1>9. CASE r # s /\ ~(z[r] >= z[s])
  <2>1. ~UnderFirst(z, r, s)
    BY <1>9 DEF UnderFirst
  <2>2. ids' = [a EXCEPT ![r] = s] /\ sz' = [z EXCEPT ![s] = @ + z[r]]
    BY <1>2, <1>9, <2>1
  <2>3. z[s] >= z[r]
    BY <1>6, <1>9, SMTT(30)
  <2>4. Forest((blocks \ {c, b}) \cup {c \cup b}, [a EXCEPT ![r] = s],
               [z EXCEPT ![s] = @ + z[r]], m)
    BY <1>1, <1>4, <1>5, <1>9, <2>3, LinksRoots
  <2>5. (blocks \ {c, b}) \cup {c \cup b} = (blocks \ {b, c}) \cup {b \cup c}
    <3>1. c \cup b = b \cup c /\ {c, b} = {b, c}
      OBVIOUS
    <3> QED
      BY <3>1
  <2> QED
    BY <1>2, <2>2, <2>4, <2>5 DEF UnionInv
<1> QED
  BY <1>7, <1>8, <1>9

\* The forest is kept by both calls.
LEMMA UnionInductive == UnionInv /\ [UnionNext]_unionVars => UnionInv'
<1> SUFFICES ASSUME UnionInv, [UnionNext]_unionVars PROVE UnionInv'
  OBVIOUS
<1>1. ASSUME NEW p \in Site, NEW q \in Site, wqu_union(p, q) PROVE UnionInv'
  BY <1>1, UnionKeeps
<1>2. ASSUME NEW p \in Site, NEW q \in Site, wqu_is_connected(p, q) PROVE UnionInv'
  <2> DEFINE g == wqu_grow(Larger(p, q) + 1)
  <2>1. ids' = g.ids /\ sz' = g.sz /\ maxid' = g.maxid /\ blocks' = blocks
    BY <1>2 DEF wqu_is_connected
  <2>2. Forest(blocks, g.ids, g.sz, g.maxid)
    BY Grows
  <2> HIDE DEF g
  <2> QED
    BY <2>1, <2>2 DEF UnionInv
<1>3. CASE UNCHANGED unionVars
  BY <1>3 DEF unionVars, UnionInv
<1> QED
  BY <1>1, <1>2, <1>3 DEF UnionNext

\* The forest gives the partition, and its trees are the blocks.
LEMMA ForestUnions == UnionInv => Unions
<1> SUFFICES ASSUME UnionInv PROVE Unions
  OBVIOUS
<1>1. /\ Forest(blocks, ids, sz, maxid) /\ Parts(blocks)
      /\ DOMAIN ids = 0..maxid /\ DOMAIN sz = 0..maxid
  BY DEF UnionInv, Forest, Arrays
<1>2. 0..maxid \subseteq Site
  <2>1. maxid \in Site
    BY DEF UnionInv, Forest, Arrays
  <2> QED
    BY <2>1, SMTT(30) DEF Site
<1>3. \A x \in 0..maxid : /\ wqu_find(ids, x) \in 0..maxid /\ wqu_find(ids, x) \in Block(x)
                          /\ ids[wqu_find(ids, x)] = wqu_find(ids, x)
  <2> TAKE x \in 0..maxid
  <2>1. Block(x) \in blocks /\ x \in Block(x)
    BY <1>1, <1>2, BlockIs
  <2>2. RootOf(Block(x), ids, maxid, wqu_find(ids, x))
    BY <1>1, <2>1, FindsRoot
  <2> QED
    BY <2>2 DEF RootOf
<1>4. \A x \in 0..maxid : Block(x) \in blocks /\ x \in Block(x)
                          /\ \A b \in blocks : x \in b => b = Block(x)
  BY <1>1, <1>2, BlockIs
<1>5. \A x, y \in 0..maxid : wqu_find(ids, x) = wqu_find(ids, y) <=> y \in Block(x)
  <2> TAKE x, y \in 0..maxid
  <2>1. ASSUME y \in Block(x) PROVE wqu_find(ids, x) = wqu_find(ids, y)
    <3>1. Block(x) = Block(y)
      BY <2>1, <1>4
    <3>2. wqu_find(ids, y) \in Block(x)
      BY <3>1, <1>3
    <3>3. OneRoot(blocks, ids, maxid)
      BY <1>1 DEF Forest
    <3>4. /\ wqu_find(ids, x) \in 0..maxid /\ wqu_find(ids, x) \in Block(x)
          /\ ids[wqu_find(ids, x)] = wqu_find(ids, x)
          /\ wqu_find(ids, y) \in 0..maxid
          /\ ids[wqu_find(ids, y)] = wqu_find(ids, y)
      BY <1>3
    <3>5. Block(x) \in blocks
      BY <1>4
    <3> QED
      BY <3>2, <3>3, <3>4, <3>5 DEF OneRoot
  <2>2. ASSUME wqu_find(ids, x) = wqu_find(ids, y) PROVE y \in Block(x)
    <3>1. wqu_find(ids, x) \in Block(x) /\ wqu_find(ids, x) \in Block(y)
      BY <2>2, <1>3
    <3>2. Block(x) \in blocks /\ Block(y) \in blocks
      BY <1>4
    <3>3. Block(x) = Block(y)
      BY <3>1, <3>2, <1>1 DEF Parts
    <3> QED
      BY <3>3, <1>4
  <2> QED
    BY <2>1, <2>2
<1>6. Partition
  BY <1>1, <1>5 DEF Partition
<1>7. ASSUME NEW x \in 0..maxid, ids[x] = x PROVE sz[x] = Cardinality(Tree(x))
  <2>1. Block(x) \subseteq 0..maxid
    BY <1>1, <1>4, BlockKnown
  <2>2. wqu_find(ids, x) = x
    BY <1>1, <1>3, <1>4, <1>7 DEF Forest, OneRoot
  <2>3. \A y \in 0..maxid : wqu_find(ids, y) = x <=> y \in Block(x)
    BY <1>5, <2>2
  <2>4. Tree(x) = Block(x)
    BY <1>1, <2>1, <2>3 DEF Tree
  <2>5. sz[x] = Cardinality(Block(x))
    BY <1>1, <1>4, <1>7 DEF Forest, Sizes
  <2> QED
    BY <2>4, <2>5
<1>8. Balanced
  BY <1>1, <1>7 DEF Balanced, Forest, Doubles
<1> QED
  BY <1>6, <1>8 DEF Unions

\* For any number of sites and any sequence of wqu_union and wqu_is_connected, the
\* roots that wqu_find gives are equal exactly for the sites that the unions connect,
\* the size of a root is that of its tree, and a link at least doubles the size.
THEOREM Connected == UnionSpec => []Unions
<1>1. UnionSpec => []UnionInv
  BY UnionStarts, UnionInductive, PTL DEF UnionSpec
<1> QED
  BY <1>1, ForestUnions, PTL

-----------------------------------------------------------------------------
(***************************************************************************)
(* The graph, for any number of vertices and edges and for bags that start *)
(* with any index.  Before an edge is added a bag that started inside its  *)
(* array has room for two more neighbours, as an edge from a vertex to     *)
(* itself needs.                                                           *)
(***************************************************************************)

USE GraphAssumption

Bag == [v : Seq(Vertices), first : Nat, I : Nat]

\* A bag that started inside its array has not left it.
Fits(gb) == gb.first <= FirstSize => BagIndex(gb) <= gb.I

\* What the bags hold is within their size and is what the edges say.
Holds(b) ==
    \A v \in DOMAIN b :
        /\ Fits(b[v])
        /\ \A w \in Vertices : Count(b[v].v, w) = Multiplicity(v, w)

\* The vertices are added in order, all of them before the first edge.
GraphInv ==
    /\ direct \in BOOLEAN
    /\ \E m \in 0..NVertex : bag \in [0..m - 1 -> Bag]
    /\ edges \in Seq(Vertices \X Vertices)
    /\ ~Complete => edges = <<>>
    /\ Holds(bag)

Once(x, y) == IF x = y THEN 1 ELSE 0

\* How often an element is in a list that grows at its end.
LEMMA CountGrows ==
    ASSUME NEW S, NEW s \in Seq(S), NEW x \in S, NEW y
    PROVE  /\ Count(s, y) \in Nat
           /\ Count(Append(s, x), y) = Count(s, y) + Once(x, y)
<1> DEFINE P == {i \in DOMAIN s : s[i] = y}
           Q == {i \in DOMAIN Append(s, x) : Append(s, x)[i] = y}
           k == Len(s) + 1
<1>1. /\ Len(s) \in Nat /\ k \in Nat /\ DOMAIN s = 1..Len(s)
      /\ DOMAIN Append(s, x) = 1..k
      /\ \A i \in 1..Len(s) : Append(s, x)[i] = s[i]
      /\ Append(s, x)[k] = x
  BY SMTT(30)
<1>2. IsFiniteSet(P)
  <2>1. 1 \in Int /\ Len(s) \in Int
    BY <1>1, SMTT(30)
  <2>2. IsFiniteSet(1..Len(s))
    BY <2>1, FS_Interval
  <2> QED
    BY <1>1, <2>2, FS_Subset
<1>3. k \notin P
  BY <1>1, SMTT(30)
<1>4. Cardinality(P) \in Nat
  BY <1>2, FS_CardinalityType
<1>5. CASE x = y
  <2>1. Q = P \cup {k}
    BY <1>1, <1>5, SMTT(30)
  <2>2. Cardinality(P \cup {k}) = Cardinality(P) + 1
    BY <1>2, <1>3, FS_AddElement
  <2> QED
    BY <1>4, <1>5, <2>1, <2>2 DEF Count, Once
<1>6. CASE x # y
  <2>1. Q = P
    BY <1>1, <1>6, SMTT(30)
  <2>2. Cardinality(P) = Cardinality(P) + 0
    BY <1>4, SMTT(30)
  <2> QED
    BY <1>4, <1>6, <2>1, <2>2 DEF Count, Once
<1> QED
  BY <1>5, <1>6

\* Nothing is in the empty list.
LEMMA CountNone ==
    ASSUME NEW y
    PROVE  Count(<<>>, y) = 0
<1>1. {i \in DOMAIN <<>> : <<>>[i] = y} = {}
  BY SMTT(30)
<1> QED
  BY <1>1, FS_EmptySet DEF Count

\* A logarithm and a size are numbers.
LEMMA SizeNumbers ==
    ASSUME NEW n \in Nat
    PROVE  /\ Log2(n) \in Nat /\ AtLeastMin(Log2(n)) \in Nat
           /\ BagMin <= AtLeastMin(Log2(n)) /\ 2 <= BagMin
<1>1. 1 \in Int /\ n \in Int
  BY SMTT(30)
<1>2. IsFiniteSet(1..n)
  BY <1>1, FS_Interval
<1>3. IsFiniteSet({e \in 1..n : 2^e <= n})
  BY <1>2, FS_Subset
<1>4. Log2(n) \in Nat
  BY <1>3, FS_CardinalityType DEF Log2
<1> QED
  BY <1>4, SMTT(30) DEF AtLeastMin

\* graph_bag_realloc makes room for two neighbours and keeps those there are.
LEMMA MakesRoom ==
    ASSUME NEW gb \in Bag, Fits(gb)
    PROVE  /\ graph_bag_realloc(gb) \in Bag
           /\ graph_bag_realloc(gb).v = gb.v
           /\ graph_bag_realloc(gb).first = gb.first
           /\ gb.I <= graph_bag_realloc(gb).I
           /\ gb.first <= FirstSize => BagIndex(gb) + 2 <= graph_bag_realloc(gb).I
<1> DEFINE more == AtLeastMin(Log2(gb.I))
<1>1. gb.I \in Nat /\ gb.v \in Seq(Vertices) /\ gb.first \in Nat
  BY SMTT(30) DEF Bag
<1>2. more \in Nat /\ 2 <= more
  <2>1. more \in Nat /\ BagMin <= more /\ 2 <= BagMin
    BY <1>1, SizeNumbers
  <2> QED
    BY <2>1, SMTT(30)
<1>3. graph_bag_realloc(gb) = IF BagIndex(gb) < gb.I - 1 THEN gb ELSE [gb EXCEPT !.I = @ + more]
  BY DEF graph_bag_realloc, Enlarged
<1>4. BagIndex(gb) \in Nat
  BY <1>1, SMTT(30) DEF BagIndex
<1>5. gb.first <= FirstSize => BagIndex(gb) <= gb.I
  BY DEF Fits
<1> HIDE DEF more
<1>6. CASE BagIndex(gb) < gb.I - 1
  BY <1>1, <1>3, <1>4, <1>6, SMTT(30)
<1>7. CASE ~(BagIndex(gb) < gb.I - 1)
  <2>1. /\ [gb EXCEPT !.I = @ + more] \in Bag
        /\ [gb EXCEPT !.I = @ + more].v = gb.v
        /\ [gb EXCEPT !.I = @ + more].first = gb.first
        /\ [gb EXCEPT !.I = @ + more].I = gb.I + more
    BY <1>1, <1>2, SMTT(30) DEF Bag
  <2>2. gb.I <= gb.I + more
    BY <1>1, <1>2, SMTT(30)
  <2>3. BagIndex(gb) <= gb.I => BagIndex(gb) + 2 <= gb.I + more
    BY <1>1, <1>2, <1>4, SMTT(30)
  <2> QED
    BY <1>3, <1>5, <1>7, <2>1, <2>2, <2>3
<1> QED
  BY <1>6, <1>7

\* c is b with x written to the bag of v.
Wrote(b, c, v, x) ==
    /\ c \in [Vertices -> Bag]
    /\ c[v].v = Append(b[v].v, x)
    /\ \A u \in Vertices : c[u].I = b[u].I /\ c[u].first = b[u].first
    /\ \A u \in Vertices \ {v} : c[u].v = b[u].v

\* Writing to one bag.
LEMMA Writes ==
    ASSUME NEW b \in [Vertices -> Bag], NEW v \in Vertices, NEW x \in Vertices
    PROVE  Wrote(b, PutIn(b, v, x), v, x)
<1> DEFINE r == [b[v] EXCEPT !.v = Append(b[v].v, x)]
<1>1. b[v].v \in Seq(Vertices)
  BY SMTT(30) DEF Bag
<1>2. Append(b[v].v, x) \in Seq(Vertices)
  BY <1>1, SMTT(30)
<1>3. r \in Bag /\ r.v = Append(b[v].v, x) /\ r.I = b[v].I /\ r.first = b[v].first
  <2>1. ASSUME NEW S, NEW e \in [v : S, first : Nat, I : Nat], NEW a \in S
        PROVE  /\ [e EXCEPT !.v = a] \in [v : S, first : Nat, I : Nat]
               /\ [e EXCEPT !.v = a].v = a /\ [e EXCEPT !.v = a].I = e.I
               /\ [e EXCEPT !.v = a].first = e.first
    BY SMTT(30)
  <2>2. b[v] \in [v : Seq(Vertices), first : Nat, I : Nat]
    BY DEF Bag
  <2> QED
    BY <1>2, <2>1, <2>2 DEF Bag
<1>4. PutIn(b, v, x) = [b EXCEPT ![v] = r]
  BY DEF PutIn
<1> HIDE DEF r
<1>5. [b EXCEPT ![v] = r] \in [Vertices -> Bag]
  BY <1>3, SMTT(30)
<1> QED
  BY <1>3, <1>4, <1>5 DEF Wrote

\* c is b with more room in the bag of v.
Widened(b, c, v) ==
    /\ c \in [Vertices -> Bag]
    /\ \A u \in Vertices :
          c[u].v = b[u].v /\ c[u].first = b[u].first /\ b[u].I <= c[u].I
    /\ b[v].first <= FirstSize => BagIndex(b[v]) + 2 <= c[v].I

\* Making room in one bag.
LEMMA RoomAt ==
    ASSUME NEW b \in [Vertices -> Bag], NEW v \in Vertices, Fits(b[v])
    PROVE  Widened(b, [b EXCEPT ![v] = graph_bag_realloc(@)], v)
<1> DEFINE r == graph_bag_realloc(b[v])
<1>1. b[v] \in Bag
  OBVIOUS
<1>2. /\ r \in Bag /\ r.v = b[v].v /\ r.first = b[v].first /\ b[v].I <= r.I
      /\ b[v].first <= FirstSize => BagIndex(b[v]) + 2 <= r.I
  BY <1>1, MakesRoom
<1>3. \A u \in Vertices : b[u].I <= b[u].I
  <2>1. \A u \in Vertices : b[u].I \in Nat
    BY SMTT(30) DEF Bag
  <2> QED
    BY <2>1, SMTT(30)
<1> HIDE DEF r
<1>4. [b EXCEPT ![v] = r] \in [Vertices -> Bag]
  BY <1>2, SMTT(30)
<1>5. [b EXCEPT ![v] = r][v] = r /\ \A u \in Vertices \ {v} : [b EXCEPT ![v] = r][u] = b[u]
  OBVIOUS
<1> QED
  BY <1>2, <1>3, <1>4, <1>5 DEF r, Widened

\* c is b with w a neighbour of v, and v one of w.
OneWay(b, c, v, w) ==
    /\ c \in [Vertices -> Bag]
    /\ \A u \in Vertices : Fits(c[u])
    /\ c[v].v = Append(b[v].v, w)
    /\ \A u \in Vertices \ {v} : c[u].v = b[u].v
BothWays(b, c, v, w) ==
    /\ c \in [Vertices -> Bag]
    /\ \A u \in Vertices : Fits(c[u])
    /\ v # w => c[v].v = Append(b[v].v, w) /\ c[w].v = Append(b[w].v, v)
    /\ v = w => c[v].v = Append(Append(b[v].v, w), v)
    /\ \A u \in Vertices \ {v, w} : c[u].v = b[u].v

\* A bag that takes over j more neighbours than it had, where it had room for them, fits.
LEMMA StillFits ==
    ASSUME NEW b \in Bag, NEW c \in Bag, NEW j \in 0..2,
           c.first = b.first, Len(c.v) = Len(b.v) + j,
           b.first <= FirstSize => BagIndex(b) + j <= c.I
    PROVE  Fits(c)
<1>1. b.first \in Nat /\ Len(b.v) \in Nat
  BY SMTT(30) DEF Bag
<1>2. BagIndex(c) = BagIndex(b) + j
  BY <1>1, SMTT(30) DEF BagIndex
<1> QED
  BY <1>2 DEF Fits

\* An edge one way.
LEMMA EdgeOneWay ==
    ASSUME NEW b \in [Vertices -> Bag], NEW v \in Vertices, NEW w \in Vertices,
           \A u \in Vertices : Fits(b[u])
    PROVE  OneWay(b, graph_add_edge(b, v, w, TRUE), v, w)
<1> DEFINE one == [b EXCEPT ![v] = graph_bag_realloc(@)]
           c == PutIn(one, v, w)
<1>1. Widened(b, one, v)
  BY RoomAt
<1>2. graph_add_edge(b, v, w, TRUE) = c
  <2>1. DOMAIN b = Vertices
    OBVIOUS
  <2> QED
    BY <2>1 DEF graph_add_edge
<1> HIDE DEF one
<1>3. Wrote(one, c, v, w)
  BY <1>1, Writes DEF Widened
<1> HIDE DEF c
<1>4. \A u \in Vertices : /\ b[u] \in Bag /\ c[u] \in Bag /\ c[u].first = b[u].first
                          /\ b[u].I <= c[u].I
  BY <1>1, <1>3 DEF Widened, Wrote
<1>5. c[v].v = Append(b[v].v, w) /\ \A u \in Vertices \ {v} : c[u].v = b[u].v
  BY <1>1, <1>3 DEF Widened, Wrote
<1>6. ASSUME NEW u \in Vertices PROVE Fits(c[u])
  <2>1. b[u].first \in Nat /\ Len(b[u].v) \in Nat /\ b[u].I \in Nat /\ c[u].I \in Nat
    BY <1>4, SMTT(30) DEF Bag
  <2>2. BagIndex(b[u]) \in Nat
    BY <2>1, SMTT(30) DEF BagIndex
  <2>3. CASE u = v
    <3>1. Len(c[u].v) = Len(b[u].v) + 1
      <4>1. b[v].v \in Seq(Vertices)
        BY SMTT(30) DEF Bag
      <4>2. Len(Append(b[v].v, w)) = Len(b[v].v) + 1
        BY <4>1, SMTT(30)
      <4> QED
        BY <1>5, <2>3, <4>2
    <3>2. b[u].first <= FirstSize => BagIndex(b[u]) + 2 <= c[u].I
      BY <1>1, <1>3, <2>3 DEF Widened, Wrote
    <3>3. b[u].first <= FirstSize => BagIndex(b[u]) + 1 <= c[u].I
      BY <2>1, <2>2, <3>2, SMTT(30)
    <3>4. 1 \in 0..2
      BY SMTT(30)
    <3> QED
      BY <1>4, <3>1, <3>3, <3>4, StillFits
  <2>4. CASE u # v
    <3>1. Len(c[u].v) = Len(b[u].v) + 0 /\ 0 \in 0..2
      <4>1. Len(b[u].v) = Len(b[u].v) + 0 /\ 0 \in 0..2
        BY <2>1, SMTT(30)
      <4> QED
        BY <1>5, <2>4, <4>1
    <3>2. b[u].first <= FirstSize => BagIndex(b[u]) <= b[u].I
      BY DEF Fits
    <3>3. b[u].first <= FirstSize => BagIndex(b[u]) + 0 <= c[u].I
      BY <1>4, <2>1, <2>2, <3>2, SMTT(30)
    <3> QED
      BY <1>4, <3>1, <3>3, StillFits
  <2> QED
    BY <2>3, <2>4
<1>7. c \in [Vertices -> Bag]
  BY <1>3 DEF Wrote
<1> QED
  BY <1>2, <1>5, <1>6, <1>7 DEF OneWay

\* An edge both ways; with v = w the bag gets two neighbours.
LEMMA EdgeBothWays ==
    ASSUME NEW b \in [Vertices -> Bag], NEW v \in Vertices, NEW w \in Vertices,
           \A u \in Vertices : Fits(b[u])
    PROVE  BothWays(b, graph_add_edge(b, v, w, FALSE), v, w)
<1> DEFINE one == [b EXCEPT ![v] = graph_bag_realloc(@)]
           both == [one EXCEPT ![w] = graph_bag_realloc(@)]
           d == PutIn(both, v, w)
           c == PutIn(d, w, v)
<1>1. Widened(b, one, v)
  BY RoomAt
<1>2. graph_add_edge(b, v, w, FALSE) = c
  <2>1. DOMAIN b = Vertices
    OBVIOUS
  <2> QED
    BY <2>1 DEF graph_add_edge
<1> HIDE DEF one
<1>3. /\ one \in [Vertices -> Bag]
      /\ \A u \in Vertices :
            one[u].v = b[u].v /\ one[u].first = b[u].first /\ b[u].I <= one[u].I
      /\ b[v].first <= FirstSize => BagIndex(b[v]) + 2 <= one[v].I
  BY <1>1 DEF Widened
<1>4. \A u \in Vertices : /\ b[u].first \in Nat /\ Len(b[u].v) \in Nat /\ b[u].I \in Nat
                          /\ one[u].I \in Nat /\ b[u].v \in Seq(Vertices)
  BY <1>3, SMTT(30) DEF Bag
<1>5. \A u \in Vertices : BagIndex(b[u]) \in Nat /\ BagIndex(one[u]) = BagIndex(b[u])
  <2>1. \A u \in Vertices : BagIndex(b[u]) \in Nat
    BY <1>4, SMTT(30) DEF BagIndex
  <2>2. \A u \in Vertices : BagIndex(one[u]) = BagIndex(b[u])
    BY <1>3 DEF BagIndex
  <2> QED
    BY <2>1, <2>2
<1>6. \A u \in Vertices : b[u].first <= FirstSize => BagIndex(b[u]) <= one[u].I
  <2> TAKE u \in Vertices
  <2>1. b[u].first <= FirstSize => BagIndex(b[u]) <= b[u].I
    BY DEF Fits
  <2>2. b[u].I <= one[u].I /\ BagIndex(b[u]) \in Nat /\ b[u].I \in Nat /\ one[u].I \in Nat
    BY <1>3, <1>4, <1>5
  <2> QED
    BY <2>1, <2>2, SMTT(30)
<1>7. Fits(one[w])
  BY <1>3, <1>5, <1>6 DEF Fits
<1>8. Widened(one, both, w)
  BY <1>3, <1>7, RoomAt
<1> HIDE DEF both
<1>9. /\ both \in [Vertices -> Bag]
      /\ \A u \in Vertices :
            both[u].v = b[u].v /\ both[u].first = b[u].first /\ one[u].I <= both[u].I
      /\ b[w].first <= FirstSize => BagIndex(b[w]) + 2 <= both[w].I
  BY <1>3, <1>5, <1>8 DEF Widened
<1>10. Wrote(both, d, v, w)
  BY <1>9, Writes
<1> HIDE DEF d
<1>11. Wrote(d, c, w, v)
  <2>1. d \in [Vertices -> Bag]
    BY <1>10 DEF Wrote
  <2> QED
    BY <2>1, Writes
<1> HIDE DEF c
<1>12. /\ c \in [Vertices -> Bag]
       /\ \A u \in Vertices : c[u].first = b[u].first /\ c[u].I = both[u].I
  BY <1>9, <1>10, <1>11 DEF Wrote
<1>13. /\ v # w => c[v].v = Append(b[v].v, w) /\ c[w].v = Append(b[w].v, v)
       /\ v = w => c[v].v = Append(Append(b[v].v, w), v)
       /\ \A u \in Vertices \ {v, w} : c[u].v = b[u].v
  BY <1>9, <1>10, <1>11 DEF Wrote
<1>14. /\ \A u \in Vertices, x \in Vertices : Len(Append(b[u].v, x)) = Len(b[u].v) + 1
       /\ Len(Append(Append(b[v].v, w), v)) = Len(b[v].v) + 2
  BY <1>4, SMTT(30)
<1>15. \A u \in Vertices : both[u].I \in Nat
  BY <1>9, SMTT(30) DEF Bag
<1>16. \A u \in Vertices : b[u].first <= FirstSize => BagIndex(b[u]) + 0 <= both[u].I
  <2> TAKE u \in Vertices
  <2>1. /\ one[u].I <= both[u].I /\ BagIndex(b[u]) \in Nat /\ one[u].I \in Nat
        /\ both[u].I \in Nat
    BY <1>4, <1>5, <1>9, <1>15
  <2>2. b[u].first <= FirstSize => BagIndex(b[u]) <= one[u].I
    BY <1>6
  <2> QED
    BY <2>1, <2>2, SMTT(30)
<1>17. \A u \in {v, w} : b[u].first <= FirstSize => /\ BagIndex(b[u]) + 2 <= both[u].I
                                                    /\ BagIndex(b[u]) + 1 <= both[u].I
  <2>1. one[v].I <= both[v].I /\ one[v].I \in Nat
    BY <1>4, <1>9
  <2>2. /\ BagIndex(b[v]) \in Nat /\ BagIndex(b[w]) \in Nat
        /\ both[v].I \in Nat /\ both[w].I \in Nat
    BY <1>5, <1>15
  <2>3. b[v].first <= FirstSize => BagIndex(b[v]) + 2 <= both[v].I
    BY <1>3, <2>1, <2>2, SMTT(30)
  <2>4. /\ BagIndex(b[v]) + 2 <= both[v].I => BagIndex(b[v]) + 1 <= both[v].I
        /\ BagIndex(b[w]) + 2 <= both[w].I => BagIndex(b[w]) + 1 <= both[w].I
    BY <2>2, SMTT(30)
  <2> QED
    BY <1>9, <2>3, <2>4
<1>18. ASSUME NEW u \in Vertices PROVE Fits(c[u])
  <2>1. b[u] \in Bag /\ c[u] \in Bag /\ c[u].first = b[u].first /\ c[u].I = both[u].I
    BY <1>12
  <2>2. 0 \in 0..2 /\ 1 \in 0..2 /\ 2 \in 0..2
    BY SMTT(30)
  <2>3. CASE u \notin {v, w}
    <3>1. Len(c[u].v) = Len(b[u].v) + 0
      <4>1. Len(b[u].v) = Len(b[u].v) + 0
        BY <1>4, SMTT(30)
      <4> QED
        BY <1>13, <2>3, <4>1
    <3>2. b[u].first <= FirstSize => BagIndex(b[u]) + 0 <= c[u].I
      BY <1>16, <2>1
    <3> QED
      BY <2>1, <2>2, <3>1, <3>2, StillFits
  <2>4. CASE u \in {v, w} /\ v # w
    <3>1. Len(c[u].v) = Len(b[u].v) + 1
      BY <1>13, <1>14, <2>4
    <3>2. b[u].first <= FirstSize => BagIndex(b[u]) + 1 <= c[u].I
      BY <1>17, <2>1, <2>4
    <3> QED
      BY <2>1, <2>2, <3>1, <3>2, StillFits
  <2>5. CASE u \in {v, w} /\ v = w
    <3>1. Len(c[u].v) = Len(b[u].v) + 2
      BY <1>13, <1>14, <2>5
    <3>2. b[u].first <= FirstSize => BagIndex(b[u]) + 2 <= c[u].I
      BY <1>17, <2>1, <2>5
    <3> QED
      BY <2>1, <2>2, <3>1, <3>2, StillFits
  <2> QED
    BY <2>3, <2>4, <2>5
<1> QED
  BY <1>2, <1>12, <1>13, <1>18 DEF BothWays

\* An empty graph.
LEMMA GraphStarts == GraphInit => GraphInv
<1> SUFFICES ASSUME GraphInit PROVE GraphInv
  OBVIOUS
<1>1. direct \in BOOLEAN /\ bag = <<>> /\ edges = <<>>
  BY DEF GraphInit
<1>2. <<>> \in [0..0 - 1 -> Bag] /\ DOMAIN <<>> = {} /\ 0 \in 0..NVertex
  BY SMTT(30)
<1>3. <<>> \in Seq(Vertices \X Vertices)
  BY SMTT(30)
<1>4. Holds(bag)
  BY <1>1, <1>2 DEF Holds
<1> QED
  BY <1>1, <1>2, <1>3, <1>4 DEF GraphInv

\* A step that changes nothing, as an edge to an unknown vertex does.
LEMMA GraphKept ==
    ASSUME GraphInv, bag' = bag, direct' = direct, edges' = edges
    PROVE  GraphInv'
<1>1. Bag' = Bag /\ Vertices' = Vertices
  BY DEF Bag, Vertices
<1>2. \A v, w : Multiplicity(v, w)' = Multiplicity(v, w)
  BY DEF Multiplicity
<1>3. Holds(bag)'
  BY <1>2 DEF GraphInv, Holds, Fits, FirstSize, AtLeastMin, Log2, BagIndex, Vertices, Count
<1>4. Complete' = Complete
  BY DEF Complete, Vertices
<1> QED
  BY <1>1, <1>3, <1>4 DEF GraphInv

\* graph_add_vertex adds a bag that holds nothing yet.
LEMMA VertexAdded == GraphInv /\ add_vertex => GraphInv'
<1> SUFFICES ASSUME GraphInv, add_vertex PROVE GraphInv'
  OBVIOUS
<1>1. /\ direct \in BOOLEAN /\ ~Complete /\ edges = <<>>
      /\ direct' = direct /\ edges' = edges
  BY DEF GraphInv, add_vertex
<1>0. PICK i \in FirstIndex : bag' = graph_add_vertex(bag, Cardinality(DOMAIN bag), i)
  BY DEF add_vertex
<1>2. PICK m \in 0..NVertex : bag \in [0..m - 1 -> Bag]
  BY DEF GraphInv
<1>3. DOMAIN bag = 0..m - 1
  BY <1>2
<1>4. m \in Nat /\ m < NVertex
  BY <1>1, <1>3, SMTT(30) DEF Complete, Vertices
<1>5. Cardinality(DOMAIN bag) = m
  <2>1. 0 \in Int /\ m - 1 \in Int
    BY <1>4, SMTT(30)
  <2>2. Cardinality(0..m - 1) = IF 0 > m - 1 THEN 0 ELSE m - 1 - 0 + 1
    BY <2>1, FS_Interval
  <2>3. (IF 0 > m - 1 THEN 0 ELSE m - 1 - 0 + 1) = m
    BY <1>4, SMTT(30)
  <2> QED
    BY <1>3, <2>2, <2>3
<1>6. (0..m - 1) \cup {m} = 0..(m + 1) - 1 /\ m + 1 \in 0..NVertex /\ m \notin 0..m - 1
  BY <1>4, SMTT(30)
<1>7. bag' = [u \in 0..(m + 1) - 1 |-> IF u = m THEN graph_bag_new(i) ELSE bag[u]]
  BY <1>0, <1>3, <1>5, <1>6 DEF graph_add_vertex
<1>8. graph_bag_new(i) \in Bag /\ graph_bag_new(i).v = <<>> /\ Fits(graph_bag_new(i))
  <2>1. i \in Nat /\ FirstSize \in Nat
    BY SizeNumbers DEF FirstSize
  <2>2. <<>> \in Seq(Vertices) /\ Len(<<>>) = 0 /\ i + 0 = i
    BY <2>1, SMTT(30)
  <2>3. /\ graph_bag_new(i).v = <<>> /\ graph_bag_new(i).first = i
        /\ graph_bag_new(i).I = FirstSize /\ graph_bag_new(i) \in Bag
    BY <2>1, <2>2 DEF graph_bag_new, Bag
  <2>4. BagIndex(graph_bag_new(i)) = i
    BY <2>2, <2>3 DEF BagIndex
  <2> QED
    BY <2>3, <2>4 DEF Fits
<1>9. bag' \in [0..(m + 1) - 1 -> Bag]
  BY <1>2, <1>6, <1>7, <1>8
<1>10. Holds(bag)'
  <2>1. \A v, w : Multiplicity(v, w)' = Multiplicity(v, w)
    BY <1>1 DEF Multiplicity
  <2>2. \A v, w : Multiplicity(v, w) = 0
    <3>1. \A y : Count(edges, y) = 0
      BY <1>1, CountNone
    <3>2. 0 + 0 = 0
      BY SMTT(30)
    <3> QED
      BY <3>1, <3>2 DEF Multiplicity
  <2>3. \A w : Count(<<>>, w) = 0
    BY CountNone
  <2>5. DOMAIN bag' = (0..m - 1) \cup {m}
    BY <1>6, <1>7
  <2>6. \A u \in 0..m - 1 : bag'[u] = bag[u]
    BY <1>6, <1>7
  <2>7. bag'[m] = graph_bag_new(i)
    BY <1>6, <1>7
  <2>8. \A u \in DOMAIN bag : /\ Fits(bag[u])
                              /\ \A w \in Vertices : Count(bag[u].v, w) = Multiplicity(u, w)
    BY DEF GraphInv, Holds
  <2>9. \A u \in DOMAIN bag' : Fits(bag'[u])
    BY <1>3, <1>8, <2>5, <2>6, <2>7, <2>8
  <2>10. \A u \in DOMAIN bag' : \A w \in Vertices : Count(bag'[u].v, w) = Multiplicity(u, w)
    BY <1>3, <1>8, <2>2, <2>3, <2>5, <2>6, <2>7, <2>8
  <2> QED
    BY <2>1, <2>9, <2>10 DEF Holds, Fits, FirstSize, AtLeastMin, Log2, BagIndex, Vertices, Count
<1> QED
  BY <1>1, <1>6, <1>9, <1>10 DEF GraphInv, Bag, Vertices

\* How often b is a neighbour of a once an edge more is given.
LEMMA EdgeCounted ==
    ASSUME edges \in Seq(Vertices \X Vertices), direct' = direct,
           NEW v \in Vertices, NEW w \in Vertices, edges' = Append(edges, <<v, w>>),
           NEW a \in Vertices, NEW b \in Vertices
    PROVE  /\ Multiplicity(a, b) \in Nat
           /\ direct => Multiplicity(a, b)' = Multiplicity(a, b) + Once(<<v, w>>, <<a, b>>)
           /\ ~direct => Multiplicity(a, b)' =
                 Multiplicity(a, b) + Once(<<v, w>>, <<a, b>>) + Once(<<v, w>>, <<b, a>>)
<1>1. <<v, w>> \in Vertices \X Vertices
  OBVIOUS
<1>2. \A y : /\ Count(edges, y) \in Nat
             /\ Count(Append(edges, <<v, w>>), y) = Count(edges, y) + Once(<<v, w>>, y)
  BY <1>1, CountGrows
<1>3. \A y : Count(Append(edges, <<v, w>>), y) = Count(edges', y)
  OBVIOUS
<1>4. \A x, y : Once(x, y) \in Nat
  BY SMTT(30) DEF Once
<1>5. /\ Count(edges, <<a, b>>)' = Count(edges, <<a, b>>) + Once(<<v, w>>, <<a, b>>)
      /\ Count(edges, <<b, a>>)' = Count(edges, <<b, a>>) + Once(<<v, w>>, <<b, a>>)
  BY <1>2, <1>3 DEF Count
<1>6. Multiplicity(a, b) = Count(edges, <<a, b>>) + IF direct THEN 0 ELSE Count(edges, <<b, a>>)
  BY DEF Multiplicity
<1>7. Multiplicity(a, b)' = Count(edges, <<a, b>>)' + IF direct THEN 0 ELSE Count(edges, <<b, a>>)'
  BY DEF Multiplicity
<1>8. /\ Count(edges, <<a, b>>) \in Nat /\ Count(edges, <<b, a>>) \in Nat
      /\ Once(<<v, w>>, <<a, b>>) \in Nat /\ Once(<<v, w>>, <<b, a>>) \in Nat
  BY <1>2, <1>4
<1> QED
  BY <1>5, <1>6, <1>7, <1>8, SMTT(30)

\* graph_add_edge: both bags get what the edge adds to the neighbours.
LEMMA EdgeAdded == GraphInv /\ add_edge => GraphInv'
<1> SUFFICES ASSUME GraphInv, add_edge PROVE GraphInv'
  OBVIOUS
<1>1. /\ direct \in BOOLEAN /\ Complete /\ direct' = direct
      /\ edges \in Seq(Vertices \X Vertices)
      /\ DOMAIN bag = Vertices
  BY DEF GraphInv, add_edge, Complete
<1>2. bag \in [Vertices -> Bag]
  <2>1. PICK m \in 0..NVertex : bag \in [0..m - 1 -> Bag]
    BY DEF GraphInv
  <2>2. DOMAIN bag = 0..m - 1
    BY <2>1
  <2> QED
    BY <1>1, <2>1, <2>2
<1>3. \A u \in Vertices : /\ Fits(bag[u])
                          /\ \A x \in Vertices : Count(bag[u].v, x) = Multiplicity(u, x)
  BY <1>1 DEF GraphInv, Holds
<1>4. NVertex \in 0..NVertex /\ 0..NVertex - 1 = Vertices
  BY SMTT(30) DEF Vertices
<1>5. PICK v \in 0..NVertex, w \in 0..NVertex :
        /\ bag' = graph_add_edge(bag, v, w, direct)
        /\ edges' = IF {v, w} \subseteq Vertices THEN Append(edges, <<v, w>>) ELSE edges
  BY DEF add_edge
<1>6. CASE ~({v, w} \subseteq Vertices)
  <2>1. bag' = bag /\ edges' = edges
    BY <1>1, <1>5, <1>6 DEF graph_add_edge
  <2> QED
    BY <1>1, <2>1, GraphKept
<1>7. CASE {v, w} \subseteq Vertices
  <2>1. v \in Vertices /\ w \in Vertices /\ edges' = Append(edges, <<v, w>>)
    BY <1>5, <1>7
  <2>2. edges' \in Seq(Vertices \X Vertices)
    <3>1. <<v, w>> \in Vertices \X Vertices
      BY <2>1
    <3> QED
      BY <1>1, <2>1, <3>1, SMTT(30)
  <2>3. \A a, b \in Vertices :
           /\ Multiplicity(a, b) \in Nat
           /\ direct => Multiplicity(a, b)' = Multiplicity(a, b) + Once(<<v, w>>, <<a, b>>)
           /\ ~direct => Multiplicity(a, b)' =
                 Multiplicity(a, b) + Once(<<v, w>>, <<a, b>>) + Once(<<v, w>>, <<b, a>>)
    <3>1. edges \in Seq(Vertices \X Vertices) /\ direct' = direct
      BY <1>1
    <3> QED
      BY <2>1, <3>1, EdgeCounted
  <2>4. \A u \in Vertices : bag[u].v \in Seq(Vertices)
    BY <1>2, SMTT(30) DEF Bag
  <2>5. \A u, x, y \in Vertices : Count(Append(bag[u].v, x), y) = Multiplicity(u, y) + Once(x, y)
    <3> TAKE u, x, y \in Vertices
    <3>1. bag[u].v \in Seq(Vertices) /\ Count(bag[u].v, y) = Multiplicity(u, y)
      BY <1>3, <2>4
    <3>2. Count(Append(bag[u].v, x), y) = Count(bag[u].v, y) + Once(x, y)
      BY <3>1, CountGrows
    <3> QED
      BY <3>1, <3>2
  <2>6. /\ bag' \in [Vertices -> Bag]
        /\ \A u \in Vertices : Fits(bag'[u])
        /\ \A u, y \in Vertices : Count(bag'[u].v, y) = Multiplicity(u, y)'
    <3>1. CASE direct
      <4>1. /\ bag' \in [Vertices -> Bag]
            /\ \A u \in Vertices : Fits(bag'[u])
            /\ bag'[v].v = Append(bag[v].v, w)
            /\ \A u \in Vertices \ {v} : bag'[u].v = bag[u].v
        <5>1. bag' = graph_add_edge(bag, v, w, TRUE)
          BY <1>5, <3>1
        <5>2. OneWay(bag, bag', v, w)
          BY <1>2, <1>3, <2>1, <5>1, EdgeOneWay
        <5> QED
          BY <5>2 DEF OneWay
      <4> SUFFICES ASSUME NEW u \in Vertices, NEW y \in Vertices
                   PROVE  Count(bag'[u].v, y) = Multiplicity(u, y)'
        BY <4>1
      <4>2. /\ Multiplicity(u, y) \in Nat
            /\ Multiplicity(u, y)' = Multiplicity(u, y) + Once(<<v, w>>, <<u, y>>)
        BY <2>3, <3>1
      <4>3. CASE u = v
        <5>1. Count(bag'[u].v, y) = Multiplicity(u, y) + Once(w, y)
          <6>1. Count(Append(bag[v].v, w), y) = Multiplicity(v, y) + Once(w, y)
            BY <2>1, <2>5
          <6> QED
            BY <4>1, <4>3, <6>1
        <5>2. Once(<<v, w>>, <<u, y>>) = Once(w, y)
          BY <4>3, SMTT(30) DEF Once
        <5> QED
          BY <4>2, <5>1, <5>2
      <4>4. CASE u # v
        <5>1. Once(<<v, w>>, <<u, y>>) = 0
          BY <4>4, SMTT(30) DEF Once
        <5>2. Multiplicity(u, y) = Multiplicity(u, y) + 0
          BY <4>2, SMTT(30)
        <5>3. Count(bag'[u].v, y) = Multiplicity(u, y)
          BY <1>3, <4>1, <4>4
        <5> QED
          BY <4>2, <5>1, <5>2, <5>3
      <4> QED
        BY <4>3, <4>4
    <3>2. CASE ~direct
      <4>1. /\ bag' \in [Vertices -> Bag]
            /\ \A u \in Vertices : Fits(bag'[u])
            /\ v # w => bag'[v].v = Append(bag[v].v, w) /\ bag'[w].v = Append(bag[w].v, v)
            /\ v = w => bag'[v].v = Append(Append(bag[v].v, w), v)
            /\ \A u \in Vertices \ {v, w} : bag'[u].v = bag[u].v
        <5>1. bag' = graph_add_edge(bag, v, w, FALSE)
          BY <1>1, <1>5, <3>2
        <5>2. BothWays(bag, bag', v, w)
          BY <1>2, <1>3, <2>1, <5>1, EdgeBothWays
        <5> QED
          BY <5>2 DEF BothWays
      <4> SUFFICES ASSUME NEW u \in Vertices, NEW y \in Vertices
                   PROVE  Count(bag'[u].v, y) = Multiplicity(u, y)'
        BY <4>1
      <4>2. /\ Multiplicity(u, y) \in Nat
            /\ Multiplicity(u, y)' =
                  Multiplicity(u, y) + Once(<<v, w>>, <<u, y>>) + Once(<<v, w>>, <<y, u>>)
        BY <2>3, <3>2
      <4>3. CASE u = v /\ v # w
        <5>1. Count(bag'[u].v, y) = Multiplicity(u, y) + Once(w, y)
          <6>1. Count(Append(bag[v].v, w), y) = Multiplicity(v, y) + Once(w, y)
            BY <2>1, <2>5
          <6> QED
            BY <4>1, <4>3, <6>1
        <5> QED
          BY <4>2, <4>3, <5>1, SMTT(30) DEF Once
      <4>4. CASE u = w /\ v # w
        <5>1. Count(bag'[u].v, y) = Multiplicity(u, y) + Once(v, y)
          <6>1. Count(Append(bag[w].v, v), y) = Multiplicity(w, y) + Once(v, y)
            BY <2>1, <2>5
          <6> QED
            BY <4>1, <4>4, <6>1
        <5> QED
          BY <4>2, <4>4, <5>1, SMTT(30) DEF Once
      <4>5. CASE u = v /\ v = w
        <5>1. Append(bag[v].v, w) \in Seq(Vertices)
          BY <2>1, <2>4, SMTT(30)
        <5>2. Count(Append(Append(bag[v].v, w), v), y) = Count(Append(bag[v].v, w), y) + Once(v, y)
          BY <2>1, <5>1, CountGrows
        <5>3. Count(bag'[u].v, y) = Multiplicity(u, y) + Once(w, y) + Once(v, y)
          BY <2>1, <2>5, <4>1, <4>5, <5>2
        <5> QED
          BY <4>2, <4>5, <5>3, SMTT(30) DEF Once
      <4>6. CASE u # v /\ u # w
        <5>1. Count(bag'[u].v, y) = Multiplicity(u, y)
          BY <1>3, <4>1, <4>6
        <5> QED
          BY <4>2, <4>6, <5>1, SMTT(30) DEF Once
      <4> QED
        BY <4>3, <4>4, <4>5, <4>6
    <3> QED
      BY <3>1, <3>2
  <2>7. Holds(bag)' /\ Complete'
    BY <2>6 DEF Holds, Fits, FirstSize, AtLeastMin, Log2, BagIndex, Vertices, Complete, Count
  <2> QED
    BY <1>1, <1>4, <2>2, <2>6, <2>7 DEF GraphInv, Bag, Vertices
<1> QED
  BY <1>6, <1>7

\* Once all vertices are added, and if no bag took over an index outside its array from
\* the memory it was made of, every vertex has the neighbours the edges of the file give
\* it, as often as they do, from that index on, and no bag is written beyond its size,
\* also when an edge joins a vertex to itself.
THEOREM EdgesKept == GraphSpec => []Represents
<1>1. GraphInv /\ [GraphNext]_graphVars => GraphInv'
  <2> SUFFICES ASSUME GraphInv, [GraphNext]_graphVars PROVE GraphInv'
    OBVIOUS
  <2>1. CASE add_vertex
    BY <2>1, VertexAdded
  <2>2. CASE add_edge
    BY <2>2, EdgeAdded
  <2>3. CASE UNCHANGED graphVars
    <3>1. bag' = bag /\ direct' = direct /\ edges' = edges
      BY <2>3 DEF graphVars
    <3> QED
      BY <3>1, GraphKept
  <2> QED
    BY <2>1, <2>2, <2>3 DEF GraphNext
<1>2. GraphInv => Represents
  BY DEF GraphInv, Holds, Fits, Represents, StartsInside, Complete
<1> QED
  BY GraphStarts, <1>1, <1>2, PTL DEF GraphSpec
=============================================================================
