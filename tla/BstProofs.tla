------------------------------ MODULE BstProofs -----------------------------
(***************************************************************************)
(* The binary search tree, for any number of nodes.                        *)
(***************************************************************************)
EXTENDS Bst, TreeProofs

USE NodesAssumption
USE ZenonT(30)

-----------------------------------------------------------------------------
(* A leaf. *)

\* A new leaf n hangs below the node y at which the search for its position ends.
LEMMA Leaf ==
    ASSUME NEW K, NEW rt, NEW l, NEW r, NEW pa, Tree(K, rt, l, r, pa), rt # 0,
           NEW pos, NEW A, NEW B, Spanned(K, rt, l, r, pos, A, B),
           NEW n \in Node \ K, A < pos[n], pos[n] < B, \A x \in K : pos[x] # pos[n],
           NEW nx, Seeks(K, l, r, pos, n, nx), NEW y, y = Last(nx, rt)
    PROVE  /\ y \in K
           /\ pos[n] < pos[y] =>
                 /\ l[y] = 0
                 /\ Tree(K \cup {n}, rt, Put(l, y, n), r, Put(pa, n, y))
                 /\ Spanned(K \cup {n}, rt, Put(l, y, n), r, pos, A, B)
           /\ ~(pos[n] < pos[y]) =>
                 /\ r[y] = 0
                 /\ Tree(K \cup {n}, rt, l, Put(r, y, n), Put(pa, n, y))
                 /\ Spanned(K \cup {n}, rt, l, Put(r, y, n), pos, A, B)
<1>1. PICK lo, hi : Spans(K, rt, l, r, pos, lo, hi, A, B)
  BY DEF Spanned
<1>2. /\ y \in K /\ nx[y] = 0 /\ Above(pos, lo, hi, n, y)
      /\ \A x \in K : Above(pos, lo, hi, n, x) /\ nx[x] = 0 => x = y
  <2>1. EndsAt(K, pos, lo, hi, n, nx, Last(nx, rt))
    BY <1>1, SearchEnds
  <2> QED
    BY <2>1 DEF EndsAt
<1>3. K \subseteq Node /\ n \in Node /\ n \notin K
  BY DEF Tree
<1>4. \A x \in K : nx[x] = IF pos[n] < pos[x] THEN l[x] ELSE r[x]
  BY <1>3 DEF Seeks
<1>5. /\ \A x \in K : lo[x] \in Int /\ hi[x] \in Int /\ pos[x] \in Int /\ lo[x] < pos[x] /\ pos[x] < hi[x]
      /\ pos[n] \in Int /\ A \in Int /\ B \in Int
      /\ lo \in [Node -> Int] /\ hi \in [Node -> Int] /\ pos \in [Node -> Int]
  BY <1>1, <1>3 DEF Spans
<1>6. /\ lo[y] < pos[n] /\ pos[n] < hi[y]
      /\ \A x \in K : l[x] = 0 /\ lo[x] < pos[n] /\ pos[n] < pos[x] => x = y
      /\ \A x \in K : r[x] = 0 /\ pos[x] < pos[n] /\ pos[n] < hi[x] => x = y
  <2>1. \A x \in K : l[x] = 0 /\ lo[x] < pos[n] /\ pos[n] < pos[x] => x = y
    <3> SUFFICES ASSUME NEW x \in K, l[x] = 0, lo[x] < pos[n], pos[n] < pos[x] PROVE x = y
      OBVIOUS
    <3>1. pos[n] < hi[x]
      BY <1>5, SMTT(30)
    <3> QED
      BY <1>2, <1>4, <3>1 DEF Above
  <2>2. \A x \in K : r[x] = 0 /\ pos[x] < pos[n] /\ pos[n] < hi[x] => x = y
    <3> SUFFICES ASSUME NEW x \in K, r[x] = 0, pos[x] < pos[n], pos[n] < hi[x] PROVE x = y
      OBVIOUS
    <3>1. lo[x] < pos[n] /\ ~(pos[n] < pos[x])
      BY <1>5, SMTT(30)
    <3> QED
      BY <1>2, <1>4, <3>1 DEF Above
  <2> QED
    BY <1>2, <2>1, <2>2 DEF Above
<1>7. CASE ~(pos[n] < pos[y])
  <2>1. r[y] = 0
    BY <1>2, <1>4, <1>7
  <2>2. Tree(K \cup {n}, rt, l, Put(r, y, n), Put(pa, n, y))
    BY <1>2, <2>1, LeafTree
  <2>3. pos[y] < pos[n]
    BY <1>2, <1>5, <1>7, SMTT(30)
  <2>4. \A x \in K : l[x] = 0 => ~(lo[x] < pos[n] /\ pos[n] < pos[x])
    BY <1>6, <1>7
  <2>5. \A x \in K \ {y} : r[x] = 0 => ~(pos[x] < pos[n] /\ pos[n] < hi[x])
    BY <1>6
  <2>6. Spanned(K \cup {n}, rt, l, Put(r, y, n), pos, A, B)
    BY <1>1, <1>2, <1>6, <2>1, <2>3, <2>4, <2>5, LeafSpans
  <2> QED
    BY <1>2, <1>7, <2>1, <2>2, <2>6
<1>8. CASE pos[n] < pos[y]
  <2>1. l[y] = 0
    BY <1>2, <1>4, <1>8
  <2>2. Tree(K, rt, r, l, pa)
    BY TreeTurned
  <2>3. Tree(K \cup {n}, rt, r, Put(l, y, n), Put(pa, n, y))
    BY <1>2, <2>1, <2>2, LeafTree
  <2> DEFINE np == Negative(pos)
             nl == Negative(lo)
             nh == Negative(hi)
  <2>4. Spans(K, rt, r, l, np, nh, nl, 0 - B, 0 - A)
    BY <1>1, SpansNegated
  <2>5. /\ \A x \in K : np[x] = 0 - pos[x] /\ nl[x] = 0 - lo[x] /\ nh[x] = 0 - hi[x]
        /\ np[n] = 0 - pos[n]
    BY <1>3 DEF Negative
  <2> HIDE DEF np, nl, nh
  <2>6. \A x \in K : r[x] = 0 => ~(nh[x] < np[n] /\ np[n] < np[x])
    <3> SUFFICES ASSUME NEW x \in K, r[x] = 0, nh[x] < np[n], np[n] < np[x] PROVE FALSE
      OBVIOUS
    <3>1. pos[x] < pos[n] /\ pos[n] < hi[x]
      BY <1>5, <2>5, SMTT(30)
    <3>2. x = y
      BY <1>6, <3>1
    <3> QED
      BY <1>5, <1>8, <3>1, <3>2, SMTT(30)
  <2>7. \A x \in K \ {y} : l[x] = 0 => ~(np[x] < np[n] /\ np[n] < nl[x])
    <3> SUFFICES ASSUME NEW x \in K \ {y}, l[x] = 0, np[x] < np[n], np[n] < nl[x] PROVE FALSE
      OBVIOUS
    <3>1. pos[n] < pos[x] /\ lo[x] < pos[n]
      BY <1>5, <2>5, SMTT(30)
    <3> QED
      BY <1>6, <3>1
  <2>8. np[y] < np[n] /\ np[n] < nl[y]
    BY <1>2, <1>5, <1>6, <1>8, <2>5, SMTT(30)
  <2>9. Spanned(K \cup {n}, rt, r, Put(l, y, n), np, 0 - B, 0 - A)
    BY <1>2, <2>1, <2>2, <2>4, <2>6, <2>7, <2>8, LeafSpans
  <2>10. Tree(K \cup {n}, rt, Put(l, y, n), r, Put(pa, n, y))
    BY <2>3, TreeTurned
  <2>11. Spanned(K \cup {n}, rt, Put(l, y, n), r, pos, A, B)
    BY <1>5, <2>9, <2>10, TurnedBack DEF np
  <2> QED
    BY <1>2, <1>8, <2>1, <2>10, <2>11
<1> QED
  BY <1>7, <1>8

-----------------------------------------------------------------------------
(* The binary search tree. *)

\* Positions are different and in the order of keys.
InKeyOrder(K, pos, ky) ==
    /\ \A x, y \in K : pos[x] = pos[y] => x = y
    /\ \A x, y \in K : pos[x] < pos[y] => ky[x] <= ky[y]

\* A tree with its nodes in the order of keys.
Sound(K, rt, l, r, pa, ky) ==
    /\ Tree(K, rt, l, r, pa) /\ \A x \in Node \ K : pa[x] = 0
    /\ \E pos, A, B : Spanned(K, rt, l, r, pos, A, B) /\ InKeyOrder(K, pos, ky)

Twofold(f) == [x \in Node |-> f[x] + f[x]]

\* Between any two positions there is room for one more.
LEMMA Doubled ==
    ASSUME NEW K, NEW rt, NEW l, NEW r, NEW pa, Tree(K, rt, l, r, pa),
           NEW pos, NEW A, NEW B, Spanned(K, rt, l, r, pos, A, B),
           NEW pos2 \in [Node -> Int], \A x \in K : pos2[x] = pos[x] + pos[x]
    PROVE  Spanned(K, rt, l, r, pos2, A + A, B + B)
<1>1. PICK lo, hi : Spans(K, rt, l, r, pos, lo, hi, A, B)
  BY DEF Spanned
<1> DEFINE lo2 == Twofold(lo)
           hi2 == Twofold(hi)
<1>2. /\ A \in Int /\ B \in Int /\ lo2 \in [Node -> Int] /\ hi2 \in [Node -> Int]
      /\ \A x \in Node : /\ lo2[x] = lo[x] + lo[x] /\ hi2[x] = hi[x] + hi[x]
                         /\ lo[x] \in Int /\ hi[x] \in Int /\ pos[x] \in Int
  BY <1>1, SMTT(30) DEF Spans, Twofold
<1> HIDE DEF lo2, hi2
<1>3. /\ K \subseteq Node /\ rt \in K \cup {0}
      /\ \A x \in K : l[x] \in K \cup {0} /\ r[x] \in K \cup {0}
  BY DEF Tree
<1>4. /\ \A x \in K : A <= lo[x] /\ lo[x] < pos[x] /\ pos[x] < hi[x] /\ hi[x] <= B
      /\ \A x \in K : l[x] # 0 => lo[l[x]] = lo[x] /\ hi[l[x]] = pos[x]
      /\ \A x \in K : r[x] # 0 => lo[r[x]] = pos[x] /\ hi[r[x]] = hi[x]
      /\ \A x, k \in K : l[x] = 0 => ~(lo[x] < pos[k] /\ pos[k] < pos[x])
      /\ \A x, k \in K : r[x] = 0 => ~(pos[x] < pos[k] /\ pos[k] < hi[x])
      /\ rt # 0 => lo[rt] = A /\ hi[rt] = B
  BY <1>1 DEF Spans
<1>5. \A x \in K : A + A <= lo2[x] /\ lo2[x] < pos2[x] /\ pos2[x] < hi2[x] /\ hi2[x] <= B + B
  BY <1>2, <1>3, <1>4, SMTT(30)
<1>6. /\ \A x \in K : l[x] # 0 => lo2[l[x]] = lo2[x] /\ hi2[l[x]] = pos2[x]
      /\ \A x \in K : r[x] # 0 => lo2[r[x]] = pos2[x] /\ hi2[r[x]] = hi2[x]
      /\ rt # 0 => lo2[rt] = A + A /\ hi2[rt] = B + B
  BY <1>2, <1>3, <1>4, SMTT(30)
<1>7. \A x, k \in K : l[x] = 0 => ~(lo2[x] < pos2[k] /\ pos2[k] < pos2[x])
  BY <1>2, <1>3, <1>4, SMTT(30)
<1>8. \A x, k \in K : r[x] = 0 => ~(pos2[x] < pos2[k] /\ pos2[k] < hi2[x])
  BY <1>2, <1>3, <1>4, SMTT(30)
<1>9. A + A \in Int /\ B + B \in Int
  BY <1>2, SMTT(30)
<1>10. Spans(K, rt, l, r, pos2, lo2, hi2, A + A, B + B)
  BY <1>2, <1>5, <1>6, <1>7, <1>8, <1>9 DEF Spans
<1> QED
  BY <1>10 DEF Spanned

\* m is the position for a node with key k: behind all nodes with keys up to k.
Fits(K, pos, A, B, ky, k, m) ==
    /\ m \in Int /\ A + A < m /\ m < B + B
    /\ \A x \in K : pos[x] + pos[x] # m /\ (m < pos[x] + pos[x] <=> k < ky[x])

\* There is such a position.
LEMMA RoomFor ==
    ASSUME NEW K \in SUBSET Node, NEW pos \in [Node -> Int], NEW A \in Int, NEW B \in Int, A < B,
           \A x \in K : A < pos[x] /\ pos[x] < B,
           NEW ky \in [Node -> Int], InKeyOrder(K, pos, ky), NEW k \in Int
    PROVE  \E m : Fits(K, pos, A, B, ky, k, m)
<1> DEFINE S == {d \in Nat : d = B - A \/ \E x \in K : ky[x] <= k /\ d = B - pos[x]}
<1>1. B - A \in S /\ \A x \in K : ky[x] <= k => B - pos[x] \in S
  <2>1. B - A \in Nat /\ \A x \in K : B - pos[x] \in Nat
    BY SMTT(30)
  <2> QED
    BY <2>1
<1>2. PICK d \in S : \A e \in S : d <= e
  <2>1. S \in SUBSET Nat /\ S # {}
    BY <1>1
  <2> HIDE DEF S
  <2> QED
    BY <2>1, Least
<1>3. d \in Nat /\ (d = B - A \/ \E x \in K : ky[x] <= k /\ d = B - pos[x])
  BY <1>2
<1>4. d <= B - A /\ \A x \in K : ky[x] <= k => d <= B - pos[x]
  BY <1>1, <1>2
<1> HIDE DEF S
<1> DEFINE m == (B - d) + (B - d) + 1
<1>5. \A x \in K : pos[x] \in Int /\ ky[x] \in Int
  OBVIOUS
<1>6. m \in Int /\ A + A < m /\ m < B + B
  BY <1>3, <1>4, <1>5, SMTT(30)
<1>7. \A x \in K : pos[x] + pos[x] # m
  BY <1>3, <1>5, SMTT(30)
<1>8. \A x \in K : ky[x] <= k => ~(m < pos[x] + pos[x])
  BY <1>3, <1>4, <1>5, SMTT(30)
<1>9. \A x \in K : ~(ky[x] <= k) => m < pos[x] + pos[x]
  <2> SUFFICES ASSUME NEW x \in K, ~(ky[x] <= k) PROVE m < pos[x] + pos[x]
    OBVIOUS
  <2>1. CASE d = B - A
    BY <1>5, <2>1, SMTT(30)
  <2>2. CASE \E z \in K : ky[z] <= k /\ d = B - pos[z]
    <3>1. PICK z \in K : ky[z] <= k /\ d = B - pos[z]
      BY <2>2
    <3>2. ~(ky[x] <= ky[z]) /\ x # z
      BY <1>5, <3>1, SMTT(30)
    <3>3. ~(pos[x] < pos[z]) /\ pos[x] # pos[z]
      BY <3>2 DEF InKeyOrder
    <3> QED
      BY <1>5, <3>1, <3>3, SMTT(30)
  <2> QED
    BY <1>3, <2>1, <2>2
<1>10. \A x \in K : m < pos[x] + pos[x] <=> k < ky[x]
  BY <1>5, <1>8, <1>9, SMTT(30)
<1> QED
  BY <1>6, <1>7, <1>10 DEF Fits

\* The tree with a leaf n below y, on the side that key k belongs on.
HangsBelow(K, rt, l, r, pa, ky, n, k, y) ==
    /\ y \in K
    /\ k < ky[y] => Sound(K \cup {n}, rt, Put(l, y, n), r, Put(pa, n, y), Put(ky, n, k))
    /\ ~(k < ky[y]) => Sound(K \cup {n}, rt, l, Put(r, y, n), Put(pa, n, y), Put(ky, n, k))

\* bstree_insert of a node n with key k below y, at which its loop ends.
LEMMA SoundLeaf ==
    ASSUME NEW K, NEW rt, NEW l, NEW r, NEW pa, NEW ky \in [Node -> Int],
           Sound(K, rt, l, r, pa, ky), rt # 0,
           NEW n \in Node \ K, NEW k \in Int, NEW nx \in [Node -> Pointer],
           \A x \in Node : nx[x] \in {0, l[x], r[x]},
           \A x \in K : nx[x] = IF k < ky[x] THEN l[x] ELSE r[x],
           NEW y, y = Last(nx, rt)
    PROVE  HangsBelow(K, rt, l, r, pa, ky, n, k, y)
<1>1. Tree(K, rt, l, r, pa)
  BY DEF Sound
<1>2. PICK pos, A, B : Spanned(K, rt, l, r, pos, A, B) /\ InKeyOrder(K, pos, ky)
  BY DEF Sound
<1>3. K \in SUBSET Node /\ n \in Node /\ n \notin K /\ rt \in K
  BY <1>1 DEF Tree
<1>4. /\ pos \in [Node -> Int] /\ A \in Int /\ B \in Int /\ A < B
      /\ \A x \in K : A < pos[x] /\ pos[x] < B
  <2>1. PICK lo, hi : Spans(K, rt, l, r, pos, lo, hi, A, B)
    BY <1>2 DEF Spanned
  <2>2. /\ pos \in [Node -> Int] /\ lo \in [Node -> Int] /\ hi \in [Node -> Int] /\ A \in Int /\ B \in Int
        /\ \A x \in K : A <= lo[x] /\ lo[x] < pos[x] /\ pos[x] < hi[x] /\ hi[x] <= B
    BY <2>1 DEF Spans
  <2> QED
    BY <1>3, <2>2, SMTT(30)
<1>5. PICK m \in Int : /\ A + A < m /\ m < B + B
                       /\ \A x \in K : pos[x] + pos[x] # m /\ (m < pos[x] + pos[x] <=> k < ky[x])
  <2>1. \E m : Fits(K, pos, A, B, ky, k, m)
    BY <1>2, <1>3, <1>4, RoomFor
  <2> QED
    BY <2>1 DEF Fits
<1> DEFINE q == [x \in Node |-> IF x = n THEN m ELSE pos[x] + pos[x]]
           k2 == Put(ky, n, k)
<1>6. q \in [Node -> Int] /\ q[n] = m /\ \A x \in K : q[x] = pos[x] + pos[x]
  BY <1>3, <1>4, SMTT(30)
<1>7. k2[n] = k /\ \A x \in K : k2[x] = ky[x]
  BY <1>3, SMTT(30) DEF Put
<1> HIDE DEF q, k2
<1>8. Spanned(K, rt, l, r, q, A + A, B + B)
  BY <1>1, <1>2, <1>6, Doubled
<1>9. \A x \in K : /\ q[x] # q[n] /\ (q[n] < q[x] <=> k < ky[x])
                   /\ q[x] \in Int /\ q[n] \in Int /\ ky[x] \in Int
  BY <1>3, <1>5, <1>6
<1>10. InKeyOrder(K \cup {n}, q, k2)
  <2>1. \A x, z \in K : q[x] = q[z] => x = z
    <3> SUFFICES ASSUME NEW x \in K, NEW z \in K, q[x] = q[z] PROVE x = z
      OBVIOUS
    <3>1. pos[x] + pos[x] = pos[z] + pos[z]
      BY <1>6
    <3>2. pos[x] = pos[z]
      BY <1>3, <1>4, <3>1, SMTT(30)
    <3> QED
      BY <1>2, <3>2 DEF InKeyOrder
  <2>2. \A x, z \in K : q[x] < q[z] => ky[x] <= ky[z]
    <3>1. \A x, z \in K : pos[x] + pos[x] < pos[z] + pos[z] => pos[x] < pos[z]
      BY <1>3, <1>4, SMTT(30)
    <3> QED
      BY <1>2, <1>6, <3>1 DEF InKeyOrder
  <2>3. \A x \in K : (q[x] < q[n] => ky[x] <= k) /\ (q[n] < q[x] => k <= ky[x])
    BY <1>9, SMTT(30)
  <2>4. ~(q[n] < q[n])
    BY <1>6, SMTT(30)
  <2> QED
    BY <1>7, <1>9, <2>1, <2>2, <2>3, <2>4 DEF InKeyOrder
<1>11. Seeks(K, l, r, q, n, nx)
  BY <1>3, <1>9 DEF Seeks
<1>12. /\ y \in K
       /\ q[n] < q[y] =>
             /\ Tree(K \cup {n}, rt, Put(l, y, n), r, Put(pa, n, y))
             /\ Spanned(K \cup {n}, rt, Put(l, y, n), r, q, A + A, B + B)
       /\ ~(q[n] < q[y]) =>
             /\ Tree(K \cup {n}, rt, l, Put(r, y, n), Put(pa, n, y))
             /\ Spanned(K \cup {n}, rt, l, Put(r, y, n), q, A + A, B + B)
  <2>1. A + A < q[n] /\ q[n] < B + B /\ \A x \in K : q[x] # q[n]
    BY <1>5, <1>6, <1>9
  <2> QED
    BY <1>1, <1>3, <1>8, <1>11, <2>1, Leaf
<1>13. q[n] < q[y] <=> k < ky[y]
  BY <1>9, <1>12
<1>14. \A x \in Node \ (K \cup {n}) : Put(pa, n, y)[x] = 0
  <2>1. pa \in [Node -> K \cup {0}] /\ \A x \in Node \ K : pa[x] = 0
    BY <1>1 DEF Tree, Sound
  <2> QED
    BY <2>1 DEF Put
<1> QED
  BY <1>10, <1>12, <1>13, <1>14 DEF Sound, k2, HangsBelow

\* The first node of a tree.
LEMMA SoundFirst ==
    ASSUME NEW n \in Node, NEW l, NEW r, NEW pa, NEW ky \in [Node -> Int],
           l = [x \in Node |-> 0], r = [x \in Node |-> 0], pa = [x \in Node |-> 0]
    PROVE  Sound({n}, n, l, r, pa, ky)
<1>1. n # 0 /\ n \in Int /\ \A x \in Node : l[x] = 0 /\ r[x] = 0 /\ pa[x] = 0
  BY SMTT(30) DEF Node
<1>2. Tree({n}, n, l, r, pa)
  BY <1>1 DEF Tree
<1> DEFINE pos == [x \in Node |-> 1]
           lo == [x \in Node |-> 0]
           hi == [x \in Node |-> 2]
<1>3. /\ pos \in [Node -> Int] /\ lo \in [Node -> Int] /\ hi \in [Node -> Int]
      /\ pos[n] = 1 /\ lo[n] = 0 /\ hi[n] = 2
  BY SMTT(30)
<1>4. 0 \in Int /\ 2 \in Int /\ 0 <= 0 /\ 0 < 1 /\ 1 < 2 /\ 2 <= 2 /\ ~(1 < 1)
  BY SMTT(30)
<1> HIDE DEF pos, lo, hi
<1>5. Spans({n}, n, l, r, pos, lo, hi, 0, 2)
  BY <1>1, <1>3, <1>4 DEF Spans
<1>6. InKeyOrder({n}, pos, ky)
  BY <1>3, <1>4 DEF InKeyOrder
<1> QED
  BY <1>1, <1>2, <1>5, <1>6 DEF Sound, Spanned

\* A tree turned round has its keys the other way round.
LEMMA SoundTurned ==
    ASSUME NEW K, NEW rt, NEW l, NEW r, NEW pa, NEW ky \in [Node -> Int],
           Sound(K, rt, l, r, pa, ky)
    PROVE  Sound(K, rt, r, l, pa, Negative(ky))
<1>1. Tree(K, rt, l, r, pa) /\ K \subseteq Node
  BY DEF Sound, Tree
<1>2. PICK pos, A, B : Spanned(K, rt, l, r, pos, A, B) /\ InKeyOrder(K, pos, ky)
  BY DEF Sound
<1>3. pos \in [Node -> Int]
  BY <1>2 DEF Spanned, Spans
<1>4. \A x \in K : /\ Negative(pos)[x] = 0 - pos[x] /\ Negative(ky)[x] = 0 - ky[x]
                   /\ pos[x] \in Int /\ ky[x] \in Int
  BY <1>1, <1>3 DEF Negative
<1>5. InKeyOrder(K, Negative(pos), Negative(ky))
  <2>1. \A x, y \in K : 0 - pos[x] = 0 - pos[y] => pos[x] = pos[y]
    <3> SUFFICES ASSUME NEW x \in K, NEW y \in K, 0 - pos[x] = 0 - pos[y] PROVE pos[x] = pos[y]
      OBVIOUS
    <3>1. pos[x] \in Int /\ pos[y] \in Int
      BY <1>4
    <3> QED
      BY <3>1, SMTT(30)
  <2>2. \A x, y \in K : 0 - pos[x] < 0 - pos[y] => pos[y] < pos[x]
    BY <1>4, SMTT(30)
  <2>3. \A x, y \in K : ky[y] <= ky[x] => 0 - ky[x] <= 0 - ky[y]
    BY <1>4, SMTT(30)
  <2>4. \A x, y \in K : /\ pos[x] = pos[y] => x = y
                        /\ pos[x] < pos[y] => ky[x] <= ky[y]
    BY <1>2 DEF InKeyOrder
  <2>5. \A x, y \in K : /\ 0 - pos[x] = 0 - pos[y] => x = y
                        /\ 0 - pos[x] < 0 - pos[y] => 0 - ky[x] <= 0 - ky[y]
    BY <2>1, <2>2, <2>3, <2>4
  <2>6. ASSUME NEW x \in K, NEW y \in K
        PROVE  /\ Negative(pos)[x] = Negative(pos)[y] => x = y
               /\ Negative(pos)[x] < Negative(pos)[y] => Negative(ky)[x] <= Negative(ky)[y]
    <3>1. /\ Negative(pos)[x] = 0 - pos[x] /\ Negative(pos)[y] = 0 - pos[y]
          /\ Negative(ky)[x] = 0 - ky[x] /\ Negative(ky)[y] = 0 - ky[y]
      BY <1>4
    <3>2. /\ 0 - pos[x] = 0 - pos[y] => x = y
          /\ 0 - pos[x] < 0 - pos[y] => 0 - ky[x] <= 0 - ky[y]
      BY <2>5
    <3> QED
      BY <3>1, <3>2
  <2> QED
    BY <2>6 DEF InKeyOrder
<1>6. Tree(K, rt, r, l, pa)
  BY <1>1, TreeTurned
<1>7. Spanned(K, rt, r, l, Negative(pos), 0 - B, 0 - A)
  BY <1>1, <1>2, SpansTurned
<1> QED
  BY <1>5, <1>6, <1>7 DEF Sound

-----------------------------------------------------------------------------
(* Taking a node out. *)

\* The links after v, a child of x, took the place of x.
Cuts(x, v, rt, l, r, pa, rt2, l2, r2, pa2) ==
    /\ rt2 = IF pa[x] = 0 THEN v ELSE rt
    /\ l2 = [k \in Node |-> IF k = x THEN 0 ELSE IF k = pa[x] /\ l[k] = x THEN v ELSE l[k]]
    /\ r2 = [k \in Node |-> IF k = x THEN 0 ELSE IF k = pa[x] /\ r[k] = x THEN v ELSE r[k]]
    /\ pa2 = [k \in Node |-> IF k = x THEN 0 ELSE IF k = v THEN pa[x] ELSE pa[k]]

\* Taking out a node without a child on the side of l leaves a tree.
LEMMA CutTree ==
    ASSUME NEW K, NEW rt, NEW l, NEW r, NEW pa, Tree(K, rt, l, r, pa),
           \A k \in K : Distinct(l, r, pa, k), \A k \in Node \ K : pa[k] = 0,
           NEW x \in K, l[x] = 0, NEW pos, NEW A, NEW B, Spanned(K, rt, l, r, pos, A, B),
           \A k, j \in K : pos[k] = pos[j] => k = j,
           NEW rt2, NEW l2, NEW r2, NEW pa2, Cuts(x, r[x], rt, l, r, pa, rt2, l2, r2, pa2)
    PROVE  Tree(K \ {x}, rt2, l2, r2, pa2)
<1> DEFINE v == r[x]
           J == K \ {x}
<1>1. /\ K \subseteq Node /\ rt \in K \cup {0}
      /\ \A k \in Node : l[k] \in K \cup {0} /\ r[k] \in K \cup {0} /\ pa[k] \in K \cup {0}
      /\ rt = 0 => K = {}
      /\ rt # 0 => pa[rt] = 0
      /\ \A k \in K : /\ pa[k] = 0 => k = rt
                      /\ pa[k] # 0 => l[pa[k]] = k \/ r[pa[k]] = k
                      /\ l[k] # 0 => pa[l[k]] = k
                      /\ r[k] # 0 => pa[r[k]] = k
      /\ \A k \in Node \ K : l[k] = 0 /\ r[k] = 0
  BY DEF Tree
<1>2. \A k \in K : Distinct(l, r, pa, k)
  OBVIOUS
<1>3. /\ v \in K \cup {0} /\ v # x /\ (v # 0 => pa[v] = x) /\ x \in Node /\ x # 0 /\ pa[x] # x
      /\ pa[x] \in K \cup {0} /\ (v # 0 => v # pa[x]) /\ 0 \notin K
      /\ \A k \in K : k # 0 /\ k \in Node
  <2>1. 0 \notin Node
    BY SMTT(30) DEF Node
  <2>2. x \in Node /\ Distinct(l, r, pa, x)
    BY <1>1, <1>2
  <2> QED
    BY <1>1, <2>1, <2>2 DEF Distinct
<1>4. \A k \in Node : /\ l2[k] = IF k = x THEN 0 ELSE IF k = pa[x] /\ l[k] = x THEN v ELSE l[k]
                      /\ r2[k] = IF k = x THEN 0 ELSE IF k = pa[x] /\ r[k] = x THEN v ELSE r[k]
                      /\ pa2[k] = IF k = x THEN 0 ELSE IF k = v THEN pa[x] ELSE pa[k]
  BY DEF Cuts
<1>5. /\ DOMAIN l2 = Node /\ DOMAIN r2 = Node /\ DOMAIN pa2 = Node
      /\ l2 = [k \in Node |-> l2[k]] /\ r2 = [k \in Node |-> r2[k]] /\ pa2 = [k \in Node |-> pa2[k]]
      /\ rt2 = IF pa[x] = 0 THEN v ELSE rt
  BY DEF Cuts
<1> HIDE DEF v
<1>6. v = r[x]
  BY DEF v
<1>7. \A k \in Node : k # x => (l[k] = x => k = pa[x]) /\ (r[k] = x => k = pa[x])
  BY <1>1, <1>3
<1>8. \A k \in Node : k # x => (k # v => pa[k] # x)
  <2> SUFFICES ASSUME NEW k \in Node, k # x, k # v, pa[k] = x PROVE FALSE
    OBVIOUS
  <2>1. k \in K
    BY <1>3
  <2>2. l[x] = k \/ r[x] = k
    BY <1>1, <1>3, <2>1
  <2> QED
    BY <1>3, <1>6, <2>1, <2>2
<1>9. /\ l2 \in [Node -> J \cup {0}] /\ r2 \in [Node -> J \cup {0}] /\ pa2 \in [Node -> J \cup {0}]
      /\ rt2 \in J \cup {0}
  <2>1. \A k \in Node : l2[k] \in J \cup {0}
    <3> TAKE k \in Node
    <3>1. CASE k # x /\ l[k] = x
      BY <1>3, <1>4, <1>7, <3>1
    <3>2. CASE k = x \/ l[k] # x
      BY <1>1, <1>4, <3>2
    <3> QED
      BY <3>1, <3>2
  <2>2. \A k \in Node : r2[k] \in J \cup {0}
    <3> TAKE k \in Node
    <3>1. CASE k # x /\ r[k] = x
      BY <1>3, <1>4, <1>7, <3>1
    <3>2. CASE k = x \/ r[k] # x
      BY <1>1, <1>4, <3>2
    <3> QED
      BY <3>1, <3>2
  <2>3. \A k \in Node : pa2[k] \in J \cup {0}
    <3> TAKE k \in Node
    <3>1. CASE k = x \/ k = v
      BY <1>3, <1>4, <3>1
    <3>2. CASE k # x /\ k # v
      BY <1>1, <1>4, <1>8, <3>2
    <3> QED
      BY <3>1, <3>2
  <2>4. rt2 \in J \cup {0}
    BY <1>1, <1>3, <1>5
  <2> QED
    BY <1>5, <2>1, <2>2, <2>3, <2>4
<1>10. rt2 = 0 => J = {}
  <2> SUFFICES ASSUME rt2 = 0, NEW k \in J PROVE FALSE
    OBVIOUS
  <2>1. x = rt /\ r[x] = 0
    BY <1>1, <1>3, <1>5, <1>6
  <2>2. PICK lo, hi : Spans(K, rt, l, r, pos, lo, hi, A, B)
    BY DEF Spanned
  <2>3. /\ lo[x] = A /\ hi[x] = B /\ A <= lo[k] /\ lo[k] < pos[k] /\ pos[k] < hi[k] /\ hi[k] <= B
        /\ ~(lo[x] < pos[k] /\ pos[k] < pos[x]) /\ ~(pos[x] < pos[k] /\ pos[k] < hi[x])
    BY <1>3, <2>1, <2>2 DEF Spans
  <2>4. /\ A \in Int /\ B \in Int /\ lo[k] \in Int /\ hi[k] \in Int /\ pos[k] \in Int /\ pos[x] \in Int
        /\ pos[k] # pos[x]
    BY <1>3, <2>2 DEF Spans
  <2> QED
    BY <2>3, <2>4, SMTT(30)
<1>11. rt2 # 0 => pa2[rt2] = 0
  BY <1>1, <1>3, <1>4, <1>5, <1>6, SMTT(30)
<1>12. \A k \in J : pa2[k] = 0 => k = rt2
  BY <1>1, <1>3, <1>4, <1>5, <1>6, SMTT(30)
<1>13. \A k \in J : l2[k] # 0 => pa2[l2[k]] = k
  BY <1>1, <1>2, <1>3, <1>4, <1>6, <1>7, SMTT(30) DEF Distinct
<1>14. \A k \in J : r2[k] # 0 => pa2[r2[k]] = k
  BY <1>1, <1>2, <1>3, <1>4, <1>6, <1>7, SMTT(30) DEF Distinct
<1>15. \A k \in J : pa2[k] # 0 => l2[pa2[k]] = k \/ r2[pa2[k]] = k
  BY <1>1, <1>2, <1>3, <1>4, <1>6, SMTT(30) DEF Distinct
<1>16. J \subseteq Node /\ \A k \in Node \ J : l2[k] = 0 /\ r2[k] = 0
  BY <1>1, <1>3, <1>4, SMTT(30)
<1> QED
  BY <1>9, <1>10, <1>11, <1>12, <1>13, <1>14, <1>15, <1>16 DEF Tree

\* Taking out such a node keeps the order of the others: their intervals that ended at
\* x now end where that of x did.
LEMMA CutSpans ==
    ASSUME NEW K, NEW rt, NEW l, NEW r, NEW pa, Tree(K, rt, l, r, pa),
           \A k \in K : Distinct(l, r, pa, k), NEW x \in K, l[x] = 0,
           NEW pos, NEW A, NEW B, Spanned(K, rt, l, r, pos, A, B),
           \A k, j \in K : pos[k] = pos[j] => k = j,
           NEW rt2, NEW l2, NEW r2, NEW pa2, Cuts(x, r[x], rt, l, r, pa, rt2, l2, r2, pa2)
    PROVE  Spanned(K \ {x}, rt2, l2, r2, pos, A, B)
<1> DEFINE v == r[x]
           J == K \ {x}
<1>1. /\ K \subseteq Node /\ rt \in K \cup {0}
      /\ \A k \in Node : l[k] \in K \cup {0} /\ r[k] \in K \cup {0} /\ pa[k] \in K \cup {0}
      /\ \A k \in K : /\ pa[k] = 0 => k = rt
                      /\ l[k] # 0 => pa[l[k]] = k
                      /\ r[k] # 0 => pa[r[k]] = k
      /\ rt # 0 => pa[rt] = 0
  BY DEF Tree
<1>2. \A k \in K : Distinct(l, r, pa, k)
  OBVIOUS
<1>3. /\ v \in K \cup {0} /\ v # x /\ x \in Node /\ x # 0 /\ pa[x] # x
      /\ \A k \in K : k # 0 /\ k \in Node
  <2>1. 0 \notin Node
    BY SMTT(30) DEF Node
  <2>2. x \in Node /\ Distinct(l, r, pa, x)
    BY <1>1, <1>2
  <2> QED
    BY <1>1, <2>1, <2>2 DEF Distinct
<1>4. \A k \in J : /\ l2[k] = IF l[k] = x THEN v ELSE l[k]
                   /\ r2[k] = IF r[k] = x THEN v ELSE r[k]
  <2>1. \A k \in J : k \in Node /\ k # x /\ (l[k] = x => k = pa[x]) /\ (r[k] = x => k = pa[x])
    BY <1>1, <1>3
  <2> QED
    BY <2>1 DEF Cuts
<1>5. rt2 = IF pa[x] = 0 THEN v ELSE rt
  BY DEF Cuts
<1>6. PICK lo, hi : Spans(K, rt, l, r, pos, lo, hi, A, B)
  BY DEF Spanned
<1>7. /\ A \in Int /\ B \in Int
      /\ pos \in [Node -> Int] /\ lo \in [Node -> Int] /\ hi \in [Node -> Int]
      /\ \A k \in K : A <= lo[k] /\ lo[k] < pos[k] /\ pos[k] < hi[k] /\ hi[k] <= B
      /\ \A k \in K : l[k] # 0 => lo[l[k]] = lo[k] /\ hi[l[k]] = pos[k]
      /\ \A k \in K : r[k] # 0 => lo[r[k]] = pos[k] /\ hi[r[k]] = hi[k]
      /\ \A k, j \in K : l[k] = 0 => ~(lo[k] < pos[j] /\ pos[j] < pos[k])
      /\ \A k, j \in K : r[k] = 0 => ~(pos[k] < pos[j] /\ pos[j] < hi[k])
      /\ rt # 0 => lo[rt] = A /\ hi[rt] = B
  BY <1>6 DEF Spans
<1> DEFINE lo2 == [k \in Node |-> IF lo[k] = pos[x] THEN lo[x] ELSE lo[k]]
<1>8. /\ lo2 \in [Node -> Int]
      /\ \A k \in K : /\ lo2[k] = IF lo[k] = pos[x] THEN lo[x] ELSE lo[k]
                      /\ lo[k] \in Int /\ hi[k] \in Int /\ pos[k] \in Int
  BY <1>3, <1>7
<1>9. \A k \in J : k \in K /\ pos[k] # pos[x]
  OBVIOUS
<1> HIDE DEF lo2, v
<1>10. v = r[x]
  BY DEF v
<1>11. \A k \in J : A <= lo2[k] /\ lo2[k] < pos[k] /\ pos[k] < hi[k] /\ hi[k] <= B
  BY <1>7, <1>8, SMTT(30)
<1>12. \A k \in J : l2[k] # 0 => lo2[l2[k]] = lo2[k] /\ hi[l2[k]] = pos[k]
  BY <1>1, <1>3, <1>4, <1>7, <1>8, <1>9, <1>10, SMTT(30)
<1>13. \A k \in J : r2[k] # 0 => lo2[r2[k]] = pos[k] /\ hi[r2[k]] = hi[k]
  BY <1>1, <1>3, <1>4, <1>7, <1>8, <1>9, <1>10, SMTT(30)
<1>14. \A j \in J : /\ ~(lo[x] < pos[j] /\ pos[j] <= pos[x])
                    /\ v = 0 => ~(lo[x] < pos[j] /\ pos[j] < hi[x])
  <2> TAKE j \in J
  <2>1. /\ ~(lo[x] < pos[j] /\ pos[j] < pos[x])
        /\ v = 0 => ~(pos[x] < pos[j] /\ pos[j] < hi[x])
    BY <1>7, <1>9, <1>10
  <2>2. pos[j] # pos[x] /\ pos[j] \in Int /\ pos[x] \in Int /\ lo[x] \in Int /\ hi[x] \in Int
    BY <1>8, <1>9
  <2> QED
    BY <2>1, <2>2, SMTT(30)
<1>15. \A k, j \in J : l2[k] = 0 => ~(lo2[k] < pos[j] /\ pos[j] < pos[k])
  <2> SUFFICES ASSUME NEW k \in J, NEW j \in J, l2[k] = 0, lo2[k] < pos[j], pos[j] < pos[k] PROVE FALSE
    OBVIOUS
  <2>1. /\ pos[j] \in Int /\ pos[k] \in Int /\ pos[x] \in Int /\ lo[k] \in Int /\ lo[x] \in Int
        /\ lo2[k] = IF lo[k] = pos[x] THEN lo[x] ELSE lo[k]
    BY <1>8, <1>9
  <2>2. CASE l[k] = x
    <3>1. v = 0 /\ lo[x] = lo[k] /\ hi[x] = pos[k] /\ lo[x] < pos[x]
      BY <1>3, <1>4, <1>7, <1>9, <2>2
    <3>2. lo2[k] = lo[x]
      BY <2>1, <3>1
    <3> QED
      BY <1>14, <3>1, <3>2
  <2>3. CASE l[k] # x
    <3>1. ~(lo[k] < pos[j] /\ pos[j] < pos[k])
      BY <1>4, <1>7, <1>9, <2>3
    <3>2. lo[x] < pos[j] /\ pos[j] <= pos[x]
      BY <2>1, <3>1, SMTT(30)
    <3> QED
      BY <1>14, <3>2
  <2> QED
    BY <2>2, <2>3
<1>16. \A k, j \in J : r2[k] = 0 => ~(pos[k] < pos[j] /\ pos[j] < hi[k])
  <2> SUFFICES ASSUME NEW k \in J, NEW j \in J, r2[k] = 0, pos[k] < pos[j], pos[j] < hi[k] PROVE FALSE
    OBVIOUS
  <2>1. CASE r[k] = x
    <3>1. v = 0 /\ lo[x] = pos[k] /\ hi[x] = hi[k]
      BY <1>3, <1>4, <1>7, <1>9, <2>1
    <3> QED
      BY <1>14, <3>1
  <2>2. CASE r[k] # x
    BY <1>4, <1>7, <1>9, <2>2
  <2> QED
    BY <2>1, <2>2
<1>17. rt2 # 0 => lo2[rt2] = A /\ hi[rt2] = B
  BY <1>1, <1>3, <1>5, <1>7, <1>8, <1>10, SMTT(30)
<1>18. Spans(J, rt2, l2, r2, pos, lo2, hi, A, B)
  BY <1>7, <1>8, <1>11, <1>12, <1>13, <1>15, <1>16, <1>17 DEF Spans
<1> QED
  BY <1>18 DEF Spanned

\* The links after y, which is not in the tree, took the place of x with its children.
Renames(x, y, rt, l, r, pa, rt2, l2, r2, pa2) ==
    /\ rt2 = IF rt = x THEN y ELSE rt
    /\ l2 = [k \in Node |-> IF k = x THEN 0 ELSE IF k = y THEN l[x] ELSE IF l[k] = x THEN y ELSE l[k]]
    /\ r2 = [k \in Node |-> IF k = x THEN 0 ELSE IF k = y THEN r[x] ELSE IF r[k] = x THEN y ELSE r[k]]
    /\ pa2 = [k \in Node |-> IF k = x THEN 0 ELSE IF k = y THEN pa[x] ELSE IF pa[k] = x THEN y ELSE pa[k]]

\* This is a tree again.
LEMMA RenamedTree ==
    ASSUME NEW K, NEW rt, NEW l, NEW r, NEW pa, Tree(K, rt, l, r, pa),
           \A k \in K : Distinct(l, r, pa, k),
           NEW x \in K, NEW y \in Node \ K,
           NEW rt2, NEW l2, NEW r2, NEW pa2, Renames(x, y, rt, l, r, pa, rt2, l2, r2, pa2)
    PROVE  Tree((K \ {x}) \cup {y}, rt2, l2, r2, pa2)
<1> DEFINE J == (K \ {x}) \cup {y}
<1>1. /\ K \subseteq Node /\ rt \in K \cup {0}
      /\ \A k \in Node : l[k] \in K \cup {0} /\ r[k] \in K \cup {0} /\ pa[k] \in K \cup {0}
      /\ rt = 0 => K = {}
      /\ rt # 0 => pa[rt] = 0
      /\ \A k \in K : /\ pa[k] = 0 => k = rt
                      /\ pa[k] # 0 => l[pa[k]] = k \/ r[pa[k]] = k
                      /\ l[k] # 0 => pa[l[k]] = k
                      /\ r[k] # 0 => pa[r[k]] = k
      /\ \A k \in Node \ K : l[k] = 0 /\ r[k] = 0
  BY DEF Tree
<1>2. /\ l[x] # x /\ r[x] # x /\ pa[x] # x /\ x # y /\ x \in Node /\ y \in Node /\ y # 0 /\ x # 0 /\ y \notin K
      /\ \A k \in K : k # 0 /\ k \in Node
  <2>1. 0 \notin Node
    BY SMTT(30) DEF Node
  <2>2. x \in Node /\ Distinct(l, r, pa, x)
    BY <1>1
  <2> QED
    BY <1>1, <2>1, <2>2 DEF Distinct
<1>3. \A k \in Node : /\ l2[k] = IF k = x THEN 0 ELSE IF k = y THEN l[x] ELSE IF l[k] = x THEN y ELSE l[k]
                      /\ r2[k] = IF k = x THEN 0 ELSE IF k = y THEN r[x] ELSE IF r[k] = x THEN y ELSE r[k]
                      /\ pa2[k] = IF k = x THEN 0 ELSE IF k = y THEN pa[x] ELSE IF pa[k] = x THEN y ELSE pa[k]
  BY DEF Renames
<1>4. rt2 = IF rt = x THEN y ELSE rt
  BY DEF Renames
<1>5. /\ l2 \in [Node -> J \cup {0}] /\ r2 \in [Node -> J \cup {0}] /\ pa2 \in [Node -> J \cup {0}]
      /\ rt2 \in J \cup {0} /\ rt2 # 0
  <2>1. l2 = [k \in Node |-> l2[k]] /\ r2 = [k \in Node |-> r2[k]] /\ pa2 = [k \in Node |-> pa2[k]]
    BY DEF Renames
  <2>2. \A k \in Node : l2[k] \in J \cup {0}
    BY <1>1, <1>2, <1>3, SMTT(30)
  <2>3. \A k \in Node : r2[k] \in J \cup {0}
    BY <1>1, <1>2, <1>3, SMTT(30)
  <2>4. \A k \in Node : pa2[k] \in J \cup {0}
    BY <1>1, <1>2, <1>3, SMTT(30)
  <2>5. rt2 \in J \cup {0} /\ rt2 # 0
    BY <1>1, <1>2, <1>4
  <2> QED
    BY <2>1, <2>2, <2>3, <2>4, <2>5
<1>6. pa2[rt2] = 0
  BY <1>1, <1>2, <1>3, <1>4, SMTT(30)
<1>7. \A k \in J : pa2[k] = 0 => k = rt2
  BY <1>1, <1>2, <1>3, <1>4, SMTT(30)
<1>8. \A k \in J : l2[k] # 0 => pa2[l2[k]] = k
  BY <1>1, <1>2, <1>3, SMTT(30)
<1>9. \A k \in J : r2[k] # 0 => pa2[r2[k]] = k
  BY <1>1, <1>2, <1>3, SMTT(30)
<1>10. \A k \in J : pa2[k] # 0 => l2[pa2[k]] = k \/ r2[pa2[k]] = k
  BY <1>1, <1>2, <1>3, SMTT(30)
<1>11. J \subseteq Node /\ \A k \in Node \ J : l2[k] = 0 /\ r2[k] = 0
  BY <1>1, <1>2, <1>3, SMTT(30)
<1> QED
  BY <1>5, <1>6, <1>7, <1>8, <1>9, <1>10, <1>11 DEF Tree

\* y takes over the position of x, too.
LEMMA RenamedSpans ==
    ASSUME NEW K, NEW rt, NEW l, NEW r, NEW pa, Tree(K, rt, l, r, pa),
           \A k \in K : Distinct(l, r, pa, k),
           NEW x \in K, NEW y \in Node \ K,
           NEW pos, NEW A, NEW B, Spanned(K, rt, l, r, pos, A, B),
           NEW rt2, NEW l2, NEW r2, NEW pa2, Renames(x, y, rt, l, r, pa, rt2, l2, r2, pa2)
    PROVE  Spanned((K \ {x}) \cup {y}, rt2, l2, r2, Put(pos, y, pos[x]), A, B)
<1> DEFINE J == (K \ {x}) \cup {y}
           old(k) == IF k = y THEN x ELSE k
<1>1. /\ K \subseteq Node /\ rt \in K \cup {0}
      /\ \A k \in Node : l[k] \in K \cup {0} /\ r[k] \in K \cup {0}
  BY DEF Tree
<1>2. /\ l[x] # x /\ r[x] # x /\ x # y /\ x \in Node /\ y \in Node /\ y # 0 /\ x # 0 /\ y \notin K
      /\ \A k \in K : k # 0 /\ k \in Node
  <2>1. 0 \notin Node
    BY SMTT(30) DEF Node
  <2>2. x \in Node /\ Distinct(l, r, pa, x)
    BY <1>1
  <2> QED
    BY <1>1, <2>1, <2>2 DEF Distinct
<1>3. \A k \in Node : /\ l2[k] = IF k = x THEN 0 ELSE IF k = y THEN l[x] ELSE IF l[k] = x THEN y ELSE l[k]
                      /\ r2[k] = IF k = x THEN 0 ELSE IF k = y THEN r[x] ELSE IF r[k] = x THEN y ELSE r[k]
  BY DEF Renames
<1>4. rt2 = IF rt = x THEN y ELSE rt
  BY DEF Renames
<1>5. PICK lo, hi : Spans(K, rt, l, r, pos, lo, hi, A, B)
  BY DEF Spanned
<1>6. /\ A \in Int /\ B \in Int
      /\ pos \in [Node -> Int] /\ lo \in [Node -> Int] /\ hi \in [Node -> Int]
      /\ \A k \in K : A <= lo[k] /\ lo[k] < pos[k] /\ pos[k] < hi[k] /\ hi[k] <= B
      /\ \A k \in K : l[k] # 0 => lo[l[k]] = lo[k] /\ hi[l[k]] = pos[k]
      /\ \A k \in K : r[k] # 0 => lo[r[k]] = pos[k] /\ hi[r[k]] = hi[k]
      /\ \A k, j \in K : l[k] = 0 => ~(lo[k] < pos[j] /\ pos[j] < pos[k])
      /\ \A k, j \in K : r[k] = 0 => ~(pos[k] < pos[j] /\ pos[j] < hi[k])
      /\ rt # 0 => lo[rt] = A /\ hi[rt] = B
  BY <1>5 DEF Spans
<1> DEFINE pos2 == Put(pos, y, pos[x])
           lo2 == Put(lo, y, lo[x])
           hi2 == Put(hi, y, hi[x])
<1>7. /\ pos2 \in [Node -> Int] /\ lo2 \in [Node -> Int] /\ hi2 \in [Node -> Int]
      /\ \A k \in Node : /\ pos2[k] = pos[old(k)] /\ lo2[k] = lo[old(k)] /\ hi2[k] = hi[old(k)]
  BY <1>2, <1>6, SMTT(30) DEF Put
<1>8. \A k \in J : /\ k \in Node /\ old(k) \in K
                   /\ l2[k] = 0 <=> l[old(k)] = 0
                   /\ l2[k] # 0 => l2[k] \in J /\ old(l2[k]) = l[old(k)]
                   /\ r2[k] = 0 <=> r[old(k)] = 0
                   /\ r2[k] # 0 => r2[k] \in J /\ old(r2[k]) = r[old(k)]
  <2> TAKE k \in J
  <2>1. CASE k = y
    BY <1>1, <1>2, <1>3, <2>1
  <2>2. CASE k # y
    BY <1>1, <1>2, <1>3, <2>2
  <2> QED
    BY <2>1, <2>2
<1>9. rt2 # 0 => rt2 \in J /\ old(rt2) = rt /\ rt # 0
  BY <1>1, <1>2, <1>4
<1> HIDE DEF J, old, pos2, lo2, hi2
<1>10. \A k \in J : A <= lo2[k] /\ lo2[k] < pos2[k] /\ pos2[k] < hi2[k] /\ hi2[k] <= B
  BY <1>6, <1>7, <1>8, SMTT(30)
<1>11. \A k \in J : l2[k] # 0 => lo2[l2[k]] = lo2[k] /\ hi2[l2[k]] = pos2[k]
  BY <1>6, <1>7, <1>8, SMTT(30)
<1>12. \A k \in J : r2[k] # 0 => lo2[r2[k]] = pos2[k] /\ hi2[r2[k]] = hi2[k]
  BY <1>6, <1>7, <1>8, SMTT(30)
<1>13. \A k, j \in J : l2[k] = 0 => ~(lo2[k] < pos2[j] /\ pos2[j] < pos2[k])
  BY <1>6, <1>7, <1>8, SMTT(30)
<1>14. \A k, j \in J : r2[k] = 0 => ~(pos2[k] < pos2[j] /\ pos2[j] < hi2[k])
  BY <1>6, <1>7, <1>8, SMTT(30)
<1>15. rt2 # 0 => lo2[rt2] = A /\ hi2[rt2] = B
  BY <1>6, <1>7, <1>8, <1>9, SMTT(30)
<1>16. Spans(J, rt2, l2, r2, pos2, lo2, hi2, A, B)
  BY <1>6, <1>7, <1>10, <1>11, <1>12, <1>13, <1>14, <1>15 DEF Spans
<1> QED
  BY <1>16 DEF Spanned, J, pos2

\* A tree with these positions is in the order of keys.
SoundAt(K, rt, l, r, pa, ky, pos, A, B) ==
    /\ Tree(K, rt, l, r, pa) /\ \A x \in Node \ K : pa[x] = 0
    /\ Spanned(K, rt, l, r, pos, A, B) /\ InKeyOrder(K, pos, ky)

\* bstree_delete of a node without a left child.
LEMMA SoundCut ==
    ASSUME NEW K, NEW rt, NEW l, NEW r, NEW pa, NEW ky, Sound(K, rt, l, r, pa, ky),
           NEW x \in K, l[x] = 0,
           NEW rt2, NEW l2, NEW r2, NEW pa2, Cuts(x, r[x], rt, l, r, pa, rt2, l2, r2, pa2),
           NEW pos, NEW A, NEW B, Spanned(K, rt, l, r, pos, A, B), InKeyOrder(K, pos, ky)
    PROVE  SoundAt(K \ {x}, rt2, l2, r2, pa2, ky, pos, A, B)
<1>1. Tree(K, rt, l, r, pa) /\ \A k \in Node \ K : pa[k] = 0
  BY DEF Sound
<1>2. \A k \in K : Distinct(l, r, pa, k)
  BY <1>1, Apart
<1>3. \A k, j \in K : pos[k] = pos[j] => k = j
  BY DEF InKeyOrder
<1>4. Tree(K \ {x}, rt2, l2, r2, pa2)
  BY <1>1, <1>2, <1>3, CutTree
<1>5. Spanned(K \ {x}, rt2, l2, r2, pos, A, B)
  BY <1>1, <1>2, <1>3, CutSpans
<1>6. \A k \in Node \ (K \ {x}) : pa2[k] = 0
  <2>1. 0 \notin Node /\ x \in Node /\ r[x] \in K \cup {0}
    <3>1. 0 \notin Node
      BY SMTT(30) DEF Node
    <3> QED
      BY <1>1, <3>1 DEF Tree
  <2> QED
    BY <1>1, <2>1 DEF Cuts
<1>7. InKeyOrder(K \ {x}, pos, ky)
  BY DEF InKeyOrder
<1> QED
  BY <1>4, <1>5, <1>6, <1>7 DEF SoundAt

\* bstree_delete of a node with at most one child.
LEMMA SoundWithout ==
    ASSUME NEW K, NEW rt, NEW l, NEW r, NEW pa, NEW ky \in [Node -> Int], Sound(K, rt, l, r, pa, ky),
           NEW x \in K, NEW v, (l[x] = 0 /\ v = r[x]) \/ (r[x] = 0 /\ v = l[x]),
           NEW rt2, NEW l2, NEW r2, NEW pa2, Cuts(x, v, rt, l, r, pa, rt2, l2, r2, pa2)
    PROVE  Sound(K \ {x}, rt2, l2, r2, pa2, ky)
<1>1. CASE l[x] = 0 /\ v = r[x]
  <2>1. PICK pos, A, B : Spanned(K, rt, l, r, pos, A, B) /\ InKeyOrder(K, pos, ky)
    BY DEF Sound
  <2>2. SoundAt(K \ {x}, rt2, l2, r2, pa2, ky, pos, A, B)
    BY <1>1, <2>1, SoundCut
  <2> QED
    BY <2>2 DEF Sound, SoundAt
<1>2. CASE r[x] = 0 /\ v = l[x]
  <2> DEFINE nk == Negative(ky)
  <2>1. Sound(K, rt, r, l, pa, nk) /\ nk \in [Node -> Int]
    <3>1. nk \in [Node -> Int]
      BY SMTT(30) DEF Negative
    <3> QED
      BY <3>1, SoundTurned
  <2>2. Negative(nk) = ky
    BY Twice
  <2> HIDE DEF nk
  <2>3. Cuts(x, l[x], rt, r, l, pa, rt2, r2, l2, pa2)
    BY <1>2 DEF Cuts
  <2>4. PICK pos, A, B : Spanned(K, rt, r, l, pos, A, B) /\ InKeyOrder(K, pos, nk)
    BY <2>1 DEF Sound
  <2>5. Sound(K \ {x}, rt2, r2, l2, pa2, nk)
    <3>1. SoundAt(K \ {x}, rt2, r2, l2, pa2, nk, pos, A, B)
      BY <1>2, <2>1, <2>3, <2>4, SoundCut
    <3> QED
      BY <3>1 DEF Sound, SoundAt
  <2> QED
    BY <2>1, <2>2, <2>5, SoundTurned
<1> QED
  BY <1>1, <1>2

\* y comes right after x.
Follows(K, l, pos, x, y) ==
    /\ y \in K /\ y # x /\ l[y] = 0 /\ pos[x] < pos[y]
    /\ \A k \in K : ~(pos[x] < pos[k] /\ pos[k] < pos[y])

\* bstree_min of the right child of x is the node after x, and has no left child.
LEMMA Successor ==
    ASSUME NEW K, NEW rt, NEW l, NEW r, NEW pa, Tree(K, rt, l, r, pa),
           NEW pos, NEW A, NEW B, Spanned(K, rt, l, r, pos, A, B),
           NEW x \in K, r[x] # 0
    PROVE  Follows(K, l, pos, x, Last(l, r[x]))
<1>1. PICK lo, hi : Spans(K, rt, l, r, pos, lo, hi, A, B)
  BY DEF Spanned
<1>2. PICK w, top : Ranked(l, r, w, top)
  BY TreeRanked
<1>3. Ranked(l, l, w, top)
  BY <1>2 DEF Ranked
<1>4. K \subseteq Node /\ \A k \in K : l[k] \in K \cup {0} /\ r[k] \in K \cup {0}
  BY DEF Tree
<1>5. /\ \A k \in K : lo[k] \in Int /\ pos[k] \in Int
      /\ \A k \in K : lo[k] < pos[k]
      /\ \A k \in K : l[k] # 0 => lo[l[k]] = lo[k]
      /\ \A k \in K : r[k] # 0 => lo[r[k]] = pos[k]
      /\ \A k, j \in K : l[k] = 0 => ~(lo[k] < pos[j] /\ pos[j] < pos[k])
  BY <1>1, <1>4 DEF Spans
<1> DEFINE S == {k \in K : lo[k] = pos[x]}
           y == Last(l, r[x])
<1>6. y \in S /\ l[y] = 0
  <2>1. r[x] \in S /\ r[x] \in Node /\ S \in SUBSET Node /\ \A k \in S : l[k] # 0 => l[k] \in S
    BY <1>4, <1>5
  <2> HIDE DEF S
  <2> QED
    BY <1>3, <2>1, LastStops
<1>7. y \in K /\ lo[y] = pos[x]
  BY <1>6
<1> HIDE DEF y, S
<1>8. y # x /\ pos[x] < pos[y]
  BY <1>5, <1>7, SMTT(30)
<1>9. Follows(K, l, pos, x, y)
  BY <1>5, <1>6, <1>7, <1>8 DEF Follows
<1> QED
  BY <1>9 DEF y

\* bstree_delete of a node with two children: the next node gives up its own place and
\* takes the place of x.
LEMMA SoundLifted ==
    ASSUME NEW K, NEW rt, NEW l, NEW r, NEW pa, NEW ky \in [Node -> Int], Sound(K, rt, l, r, pa, ky),
           NEW x \in K, r[x] # 0, NEW y, y = Last(l, r[x]),
           NEW rt1, NEW l1, NEW r1, NEW pa1, Cuts(y, r[y], rt, l, r, pa, rt1, l1, r1, pa1),
           NEW rt2, NEW l2, NEW r2, NEW pa2, Renames(x, y, rt1, l1, r1, pa1, rt2, l2, r2, pa2)
    PROVE  Sound(K \ {x}, rt2, l2, r2, pa2, ky)
<1>1. Tree(K, rt, l, r, pa)
  BY DEF Sound
<1>2. PICK pos, A, B : Spanned(K, rt, l, r, pos, A, B) /\ InKeyOrder(K, pos, ky)
  BY DEF Sound
<1>3. Follows(K, l, pos, x, y)
  BY <1>1, <1>2, Successor
<1>4. y \in K /\ y # x /\ l[y] = 0 /\ y \in Node /\ x \in Node /\ x # 0 /\ K \subseteq Node
  <2>1. 0 \notin Node
    BY SMTT(30) DEF Node
  <2> QED
    BY <1>1, <1>3, <2>1 DEF Follows, Tree
<1> DEFINE J == K \ {y}
<1>5. /\ Tree(J, rt1, l1, r1, pa1) /\ \A k \in Node \ J : pa1[k] = 0
      /\ Spanned(J, rt1, l1, r1, pos, A, B) /\ InKeyOrder(J, pos, ky)
  <2>1. SoundAt(J, rt1, l1, r1, pa1, ky, pos, A, B)
    BY <1>2, <1>4, SoundCut
  <2> QED
    BY <2>1 DEF SoundAt
<1>6. (J \ {x}) \cup {y} = K \ {x} /\ x \in J /\ y \in Node \ J
  BY <1>4
<1> HIDE DEF J
<1>7. \A k \in J : Distinct(l1, r1, pa1, k)
  BY <1>5, Apart
<1> DEFINE q == Put(pos, y, pos[x])
<1>8. Tree(K \ {x}, rt2, l2, r2, pa2) /\ Spanned(K \ {x}, rt2, l2, r2, q, A, B)
  <2>1. Tree((J \ {x}) \cup {y}, rt2, l2, r2, pa2)
    BY <1>5, <1>6, <1>7, RenamedTree
  <2>2. Spanned((J \ {x}) \cup {y}, rt2, l2, r2, q, A, B)
    BY <1>5, <1>6, <1>7, RenamedSpans
  <2> QED
    BY <1>6, <2>1, <2>2
<1>9. \A k \in Node \ (K \ {x}) : pa2[k] = 0
  BY <1>4, <1>5 DEF Renames, J
<1>10. pos \in [Node -> Int]
  BY <1>2 DEF Spanned, Spans
<1>11. q[y] = pos[x] /\ \A k \in K \ {x, y} : q[k] = pos[k]
  BY <1>4, <1>10, SMTT(30) DEF Put
<1> HIDE DEF q
<1>12. InKeyOrder(K \ {x}, q, ky)
  <2>1. \A k \in K \ {x, y} : /\ pos[k] # pos[x] /\ pos[k] # pos[y]
                              /\ pos[k] \in Int /\ pos[x] \in Int /\ pos[y] \in Int
    BY <1>2, <1>4, <1>10 DEF InKeyOrder
  <2>2. \A k \in K \ {x, y} : pos[x] < pos[k] => ky[y] <= ky[k]
    <3> SUFFICES ASSUME NEW k \in K \ {x, y}, pos[x] < pos[k] PROVE ky[y] <= ky[k]
      OBVIOUS
    <3>1. ~(pos[k] < pos[y])
      BY <1>3 DEF Follows
    <3>2. pos[y] < pos[k]
      BY <2>1, <3>1, SMTT(30)
    <3> QED
      BY <1>2, <1>4, <3>2 DEF InKeyOrder
  <2>3. \A k \in K \ {x, y} : pos[k] < pos[x] => ky[k] <= ky[y]
    <3> SUFFICES ASSUME NEW k \in K \ {x, y}, pos[k] < pos[x] PROVE ky[k] <= ky[y]
      OBVIOUS
    <3>1. pos[x] < pos[y]
      BY <1>3 DEF Follows
    <3>2. pos[k] < pos[y]
      BY <2>1, <3>1, SMTT(30)
    <3> QED
      BY <1>2, <1>4, <3>2 DEF InKeyOrder
  <2>4. ~(pos[x] < pos[x])
    BY <1>4, <1>10, SMTT(30)
  <2>5. \A k \in K \ {x} : k = y \/ k \in K \ {x, y}
    OBVIOUS
  <2>6. \A k, j \in K \ {x} : q[k] = q[j] => k = j
    BY <1>2, <1>11, <2>1, <2>5 DEF InKeyOrder
  <2>7. \A k, j \in K \ {x} : q[k] < q[j] => ky[k] <= ky[j]
    <3> SUFFICES ASSUME NEW k \in K \ {x}, NEW j \in K \ {x}, q[k] < q[j] PROVE ky[k] <= ky[j]
      OBVIOUS
    <3>1. CASE k = y
      BY <1>11, <2>2, <2>4, <2>5, <3>1
    <3>2. CASE j = y
      BY <1>11, <2>3, <2>4, <2>5, <3>2
    <3>3. CASE k # y /\ j # y
      BY <1>2, <1>11, <2>5, <3>3 DEF InKeyOrder
    <3> QED
      BY <3>1, <3>2, <3>3
  <2> QED
    BY <2>6, <2>7 DEF InKeyOrder
<1> QED
  BY <1>8, <1>9, <1>12 DEF Sound

-----------------------------------------------------------------------------
(* The records of bstree_delete. *)

TreeRecord == [root : Pointer, left : [Node -> Pointer], right : [Node -> Pointer], p : [Node -> Pointer]]

\* t2 is t with v in the place of u.
Replaced(t, u, v, t2) ==
    /\ t2 \in TreeRecord
    /\ t2.root = IF t.p[u] = 0 THEN v ELSE t.root
    /\ \A k \in Node : /\ t2.left[k] = IF k = t.p[u] /\ t.left[k] = u THEN v ELSE t.left[k]
                       /\ t2.right[k] = IF k = t.p[u] /\ t.left[k] # u THEN v ELSE t.right[k]
                       /\ t2.p[k] = IF k = v THEN t.p[u] ELSE t.p[k]

\* What bstree_transplant makes of the pointers.
LEMMA Transplants ==
    ASSUME NEW t \in TreeRecord, NEW u \in Node, NEW v \in Pointer
    PROVE  Replaced(t, u, v, bstree_transplant(t, u, v))
<1> DEFINE q == t.p[u]
           a == IF q # 0 /\ t.left[q] = u THEN [t.left EXCEPT ![q] = v] ELSE t.left
           b == IF q # 0 /\ t.left[q] # u THEN [t.right EXCEPT ![q] = v] ELSE t.right
           c == IF v = 0 THEN t.p ELSE [t.p EXCEPT ![v] = q]
           d == IF q = 0 THEN v ELSE t.root
<1>1. /\ t.root \in Pointer /\ t.left \in [Node -> Pointer] /\ t.right \in [Node -> Pointer]
      /\ t.p \in [Node -> Pointer]
  BY SMTT(30) DEF TreeRecord
<1>2. 0 \notin Node /\ Pointer = Node \cup {0}
  BY SMTT(30) DEF Node, Pointer
<1>3. bstree_transplant(t, u, v) = [root |-> d, left |-> a, right |-> b, p |-> c]
  BY DEF bstree_transplant
<1>4. q \in Pointer /\ d \in Pointer
  BY <1>1
<1>5. a \in [Node -> Pointer] /\ \A k \in Node : a[k] = IF k = q /\ t.left[k] = u THEN v ELSE t.left[k]
  BY <1>1, <1>2, <1>4, SMTT(30)
<1>6. b \in [Node -> Pointer] /\ \A k \in Node : b[k] = IF k = q /\ t.left[k] # u THEN v ELSE t.right[k]
  BY <1>1, <1>2, <1>4, SMTT(30)
<1>7. c \in [Node -> Pointer] /\ \A k \in Node : c[k] = IF k = v THEN q ELSE t.p[k]
  BY <1>1, <1>2, <1>4, SMTT(30)
<1> DEFINE t2 == [root |-> d, left |-> a, right |-> b, p |-> c]
<1>8. d = IF t.p[u] = 0 THEN v ELSE t.root
  OBVIOUS
<1>9. q = t.p[u]
  OBVIOUS
<1> HIDE DEF a, b, c, d, q
<1>10. t2.root = d /\ t2.left = a /\ t2.right = b /\ t2.p = c /\ t2 \in TreeRecord
  BY <1>4, <1>5, <1>6, <1>7, SMTT(30) DEF TreeRecord
<1> HIDE DEF t2
<1>11. Replaced(t, u, v, t2)
  BY <1>5, <1>6, <1>7, <1>8, <1>9, <1>10 DEF Replaced
<1> QED
  BY <1>3, <1>11 DEF t2

\* y takes the child m over, on the right and on the left.
TakesRight(t, y, m, t2) ==
    /\ t2 \in TreeRecord /\ t2.root = t.root /\ t2.left = t.left
    /\ \A k \in Node : /\ t2.right[k] = IF k = y THEN m ELSE t.right[k]
                       /\ t2.p[k] = IF k = m THEN y ELSE t.p[k]

TakesLeft(t, y, m, t2) ==
    /\ t2 \in TreeRecord /\ t2.root = t.root /\ t2.right = t.right
    /\ \A k \in Node : /\ t2.left[k] = IF k = y THEN m ELSE t.left[k]
                       /\ t2.p[k] = IF k = m THEN y ELSE t.p[k]

\* A record of this form, and two assignments to its fields.
Quad(a, b, c, d) == [root |-> a, left |-> b, right |-> c, p |-> d]

GivesRight(t, y, m) == [t EXCEPT !.right[y] = m, !.p[m] = y]

GivesLeft(t, y, m) == [t EXCEPT !.left[y] = m, !.p[m] = y]

Assigned(a, b, c, d, y, m) ==
    /\ GivesRight(Quad(a, b, c, d), y, m) = Quad(a, b, Put(c, y, m), Put(d, m, y))
    /\ GivesLeft(Quad(a, b, c, d), y, m) = Quad(a, Put(b, y, m), c, Put(d, m, y))

\* What the assignments make of it.
LEMMA Fields ==
    ASSUME NEW a, NEW b, NEW c, NEW d, NEW y, NEW m
    PROVE  Assigned(a, b, c, d, y, m)
<1> DEFINE t == Quad(a, b, c, d)
           b2 == [b EXCEPT ![y] = m]
           c2 == [c EXCEPT ![y] = m]
           d2 == [d EXCEPT ![m] = y]
           P(s) == [s EXCEPT !.p[m] = y]
           R(s) == [s EXCEPT !.right[y] = m]
           L(s) == [s EXCEPT !.left[y] = m]
<1>1. GivesRight(t, y, m) = P(R(t)) /\ GivesLeft(t, y, m) = P(L(t))
  BY SMTT(30) DEF Quad, GivesRight, GivesLeft
<1>2. R(t) = Quad(a, b, c2, d)
  BY SMTT(30) DEF Quad
<1>3. L(t) = Quad(a, b2, c, d)
  BY SMTT(30) DEF Quad
<1>4. \A b3, c3 : P(Quad(a, b3, c3, d)) = Quad(a, b3, c3, d2)
  BY SMTT(30) DEF Quad
<1> HIDE DEF t, b2, c2, d2, P, R, L
<1>5. GivesRight(t, y, m) = Quad(a, b, c2, d2) /\ GivesLeft(t, y, m) = Quad(a, b2, c, d2)
  BY <1>1, <1>2, <1>3, <1>4
<1>6. b2 = Put(b, y, m) /\ c2 = Put(c, y, m) /\ d2 = Put(d, m, y)
  BY DEF b2, c2, d2, Put
<1> QED
  BY <1>5, <1>6 DEF t, Assigned

\* Taking a child over.
LEMMA Takes ==
    ASSUME NEW t \in TreeRecord, NEW y \in Node, NEW m \in Node
    PROVE  TakesRight(t, y, m, GivesRight(t, y, m)) /\ TakesLeft(t, y, m, GivesLeft(t, y, m))
<1>1. /\ t.root \in Pointer /\ t.left \in [Node -> Pointer] /\ t.right \in [Node -> Pointer]
      /\ t.p \in [Node -> Pointer]
      /\ t = Quad(t.root, t.left, t.right, t.p)
  BY SMTT(30) DEF TreeRecord, Quad
<1> DEFINE a == Put(t.left, y, m)
           b == Put(t.right, y, m)
           c == Put(t.p, m, y)
           t2 == Quad(t.root, t.left, b, c)
           t3 == Quad(t.root, a, t.right, c)
<1>2. Node \subseteq Pointer
  BY SMTT(30) DEF Node, Pointer
<1>3. /\ a \in [Node -> Pointer] /\ b \in [Node -> Pointer] /\ c \in [Node -> Pointer]
      /\ \A k \in Node : /\ a[k] = IF k = y THEN m ELSE t.left[k]
                         /\ b[k] = IF k = y THEN m ELSE t.right[k]
                         /\ c[k] = IF k = m THEN y ELSE t.p[k]
  BY <1>1, <1>2, SMTT(30) DEF Put
<1>4. GivesRight(t, y, m) = t2 /\ GivesLeft(t, y, m) = t3
  <2>1. Assigned(t.root, t.left, t.right, t.p, y, m)
    BY Fields
  <2> QED
    BY <1>1, <2>1 DEF Assigned
<1> HIDE DEF a, b, c
<1>6. /\ t2.root = t.root /\ t2.left = t.left /\ t2.right = b /\ t2.p = c /\ t2 \in TreeRecord
      /\ t3.root = t.root /\ t3.left = a /\ t3.right = t.right /\ t3.p = c /\ t3 \in TreeRecord
  BY <1>1, <1>3, SMTT(30) DEF TreeRecord, Quad
<1> HIDE DEF t2, t3
<1>7. TakesRight(t, y, m, t2) /\ TakesLeft(t, y, m, t3)
  BY <1>3, <1>6 DEF TakesRight, TakesLeft
<1> QED
  BY <1>4, <1>7

\* The pointers of the nodes in K.
Within(K, f) == [n \in Node |-> IF n \in K THEN f[n] ELSE 0]

\* g is f inside K, and 0 elsewhere.
Restricts(K, f, g) ==
    /\ g = [k \in Node |-> g[k]]
    /\ \A k \in K : g[k] = f[k]
    /\ \A k \in Node \ K : g[k] = 0

\* The pointers inside K.
LEMMA Inner ==
    ASSUME NEW K \in SUBSET Node, NEW f
    PROVE  Restricts(K, f, Within(K, f))
BY DEF Within, Restricts

\* A transplant takes u out, for the nodes that stay in the tree.
LEMMA TransplantCuts ==
    ASSUME NEW K, NEW t \in TreeRecord, NEW l, NEW r, NEW pa,
           Restricts(K, t.left, l), Restricts(K, t.right, r), Restricts(K, t.p, pa),
           Tree(K, t.root, l, r, pa), NEW u \in K, Distinct(l, r, pa, u),
           NEW v, v = l[u] \/ v = r[u], NEW t2, Replaced(t, u, v, t2), NEW l2, NEW r2, NEW pa2,
           Restricts(K \ {u}, t2.left, l2), Restricts(K \ {u}, t2.right, r2), Restricts(K \ {u}, t2.p, pa2)
    PROVE  Cuts(u, v, t.root, l, r, pa, t2.root, l2, r2, pa2)
<1>1. /\ \A k \in K : l[k] = t.left[k] /\ r[k] = t.right[k] /\ pa[k] = t.p[k] /\ k \in Node
      /\ \A k \in Node \ K : l[k] = 0 /\ r[k] = 0 /\ pa[k] = 0
      /\ \A k \in K \ {u} : l2[k] = t2.left[k] /\ r2[k] = t2.right[k] /\ pa2[k] = t2.p[k]
      /\ \A k \in Node \ (K \ {u}) : l2[k] = 0 /\ r2[k] = 0 /\ pa2[k] = 0
  BY DEF Restricts, Tree
<1>2. l2 = [k \in Node |-> l2[k]] /\ r2 = [k \in Node |-> r2[k]] /\ pa2 = [k \in Node |-> pa2[k]]
  BY DEF Restricts
<1>3. 0 \notin Node
  BY SMTT(30) DEF Node
<1>4. /\ u \in Node /\ 0 \notin Node /\ v \in K \cup {0} /\ pa[u] \in K \cup {0}
      /\ pa[u] # 0 => (l[pa[u]] = u \/ r[pa[u]] = u) /\ l[pa[u]] # r[pa[u]]
  <2>1. u \in Node
    BY DEF Tree
  <2>2. v \in K \cup {0}
    <3>1. l[u] \in K \cup {0} /\ r[u] \in K \cup {0}
      BY <2>1 DEF Tree
    <3> QED
      BY <3>1
  <2>3. pa[u] \in K \cup {0} /\ (pa[u] # 0 => l[pa[u]] = u \/ r[pa[u]] = u)
    BY <2>1 DEF Tree
  <2> QED
    BY <1>3, <2>1, <2>2, <2>3 DEF Distinct
<1>5. /\ t2.root = IF pa[u] = 0 THEN v ELSE t.root
      /\ \A k \in K \ {u} : /\ l2[k] = IF k = pa[u] /\ l[k] = u THEN v ELSE l[k]
                            /\ r2[k] = IF k = pa[u] /\ l[k] # u THEN v ELSE r[k]
                            /\ pa2[k] = IF k = v THEN pa[u] ELSE pa[k]
  BY <1>1, SMTT(30) DEF Replaced
<1>6. \A k \in Node : l2[k] = IF k = u THEN 0 ELSE IF k = pa[u] /\ l[k] = u THEN v ELSE l[k]
  BY <1>1, <1>4, <1>5, SMTT(30)
<1>7. \A k \in Node : r2[k] = IF k = u THEN 0 ELSE IF k = pa[u] /\ r[k] = u THEN v ELSE r[k]
  BY <1>1, <1>4, <1>5, SMTT(30)
<1>8. \A k \in Node : pa2[k] = IF k = u THEN 0 ELSE IF k = v THEN pa[u] ELSE pa[k]
  BY <1>1, <1>4, <1>5, SMTT(30)
<1> QED
  BY <1>2, <1>5, <1>6, <1>7, <1>8 DEF Cuts

\* The root and the links of the nodes J2 after y took the place of x, as bstree_delete
\* assigns to them.
InPlace(x, y, rt, l, r, pa, J2, rt2, l2, r2, pa2) ==
    /\ rt2 = IF pa[x] = 0 THEN y ELSE rt
    /\ \A k \in J2 : /\ l2[k] = IF k = y THEN l[x] ELSE IF k = pa[x] /\ l[k] = x THEN y ELSE l[k]
                     /\ r2[k] = IF k = y THEN r[x] ELSE IF k = pa[x] /\ l[k] # x THEN y ELSE r[k]
                     /\ pa2[k] = IF k = l[x] \/ k = r[x] THEN y ELSE IF k = y THEN pa[x] ELSE pa[k]
    /\ \A k \in Node \ J2 : l2[k] = 0 /\ r2[k] = 0 /\ pa2[k] = 0
    /\ l2 = [k \in Node |-> l2[k]] /\ r2 = [k \in Node |-> r2[k]] /\ pa2 = [k \in Node |-> pa2[k]]

\* With these links y is called x's name.
LEMMA PlaceRenames ==
    ASSUME NEW J, NEW rt, NEW l, NEW r, NEW pa, Tree(J, rt, l, r, pa), \A k \in Node \ J : pa[k] = 0,
           NEW x \in J, Distinct(l, r, pa, x), NEW y \in Node \ J,
           NEW rt2, NEW l2, NEW r2, NEW pa2,
           InPlace(x, y, rt, l, r, pa, (J \ {x}) \cup {y}, rt2, l2, r2, pa2)
    PROVE  Renames(x, y, rt, l, r, pa, rt2, l2, r2, pa2)
<1>1. 0 \notin Node
  BY SMTT(30) DEF Node
<1>2. /\ J \subseteq Node
      /\ rt \in J \cup {0} /\ \A k \in Node : l[k] \in J \cup {0} /\ r[k] \in J \cup {0} /\ pa[k] \in J \cup {0}
      /\ rt # 0 => pa[rt] = 0
      /\ \A k \in J : /\ pa[k] = 0 => k = rt
                      /\ pa[k] # 0 => l[pa[k]] = k \/ r[pa[k]] = k
                      /\ l[k] # 0 => pa[l[k]] = k
                      /\ r[k] # 0 => pa[r[k]] = k
      /\ \A k \in Node \ J : l[k] = 0 /\ r[k] = 0
  BY DEF Tree
<1>3. /\ x \in Node /\ x # 0 /\ y # 0 /\ y \in Node /\ y \notin J /\ x # y /\ l[x] # x /\ r[x] # x
      /\ pa[x] # 0 => l[pa[x]] # r[pa[x]]
  BY <1>1, <1>2 DEF Distinct
<1>4. rt2 = IF rt = x THEN y ELSE rt
  <2>1. rt2 = IF pa[x] = 0 THEN y ELSE rt
    BY DEF InPlace
  <2> QED
    BY <1>2, <1>3, <2>1
<1>5. \A k \in Node : /\ l2[k] = IF k = x THEN 0 ELSE IF k = y THEN l[x] ELSE IF l[k] = x THEN y ELSE l[k]
                      /\ r2[k] = IF k = x THEN 0 ELSE IF k = y THEN r[x] ELSE IF r[k] = x THEN y ELSE r[k]
                      /\ pa2[k] = IF k = x THEN 0 ELSE IF k = y THEN pa[x] ELSE IF pa[k] = x THEN y ELSE pa[k]
  <2> TAKE k \in Node
  <2>1. CASE k \notin (J \ {x}) \cup {y}
    <3>1. l2[k] = 0 /\ r2[k] = 0 /\ pa2[k] = 0
      BY <2>1 DEF InPlace
    <3>2. k = x \/ (k \notin J /\ k # y /\ l[k] = 0 /\ r[k] = 0 /\ pa[k] = 0)
      BY <1>2, <2>1
    <3> QED
      BY <1>3, <3>1, <3>2
  <2>2. CASE k = y
    <3>1. /\ l2[k] = l[x] /\ r2[k] = r[x]
          /\ pa2[k] = IF k = l[x] \/ k = r[x] THEN y ELSE IF k = y THEN pa[x] ELSE pa[k]
      BY <2>2 DEF InPlace
    <3>2. k # l[x] /\ k # r[x] /\ k # x
      BY <1>2, <1>3, <2>2
    <3> QED
      BY <2>2, <3>1, <3>2
  <2>3. CASE k \in J /\ k # x
    <3>1. /\ l2[k] = IF k = pa[x] /\ l[k] = x THEN y ELSE l[k]
          /\ r2[k] = IF k = pa[x] /\ l[k] # x THEN y ELSE r[k]
          /\ pa2[k] = IF k = l[x] \/ k = r[x] THEN y ELSE pa[k]
      <4>1. k # y /\ k \in (J \ {x}) \cup {y}
        BY <1>3, <2>3
      <4> QED
        BY <4>1, SMTT(30) DEF InPlace
    <3>2. l[k] = x => k = pa[x]
      BY <1>2, <1>3, <2>3
    <3>3. r[k] = x <=> k = pa[x] /\ l[k] # x
      BY <1>1, <1>2, <1>3, <2>3, SMTT(30)
    <3>4. pa[k] = x <=> k = l[x] \/ k = r[x]
      BY <1>1, <1>2, <1>3, <2>3
    <3>5. k # y
      BY <1>3, <2>3
    <3> QED
      BY <2>3, <3>1, <3>2, <3>3, <3>4, <3>5
  <2> QED
    BY <2>1, <2>2, <2>3
<1> QED
  BY <1>4, <1>5 DEF Renames, InPlace

\* The next node, y, already without its place, takes the place of x.
LEMMA FarPlace ==
    ASSUME NEW J, NEW t1 \in TreeRecord, NEW l, NEW r, NEW pa,
           Restricts(J, t1.left, l), Restricts(J, t1.right, r), Restricts(J, t1.p, pa),
           Tree(J, t1.root, l, r, pa),
           NEW x \in J, Distinct(l, r, pa, x), NEW y \in Node \ J,
           NEW t2, TakesRight(t1, y, r[x], t2), NEW t3, Replaced(t2, x, y, t3),
           NEW t4, TakesLeft(t3, y, l[x], t4), NEW l2, NEW r2, NEW pa2,
           Restricts((J \ {x}) \cup {y}, t4.left, l2), Restricts((J \ {x}) \cup {y}, t4.right, r2),
           Restricts((J \ {x}) \cup {y}, t4.p, pa2)
    PROVE  InPlace(x, y, t1.root, l, r, pa, (J \ {x}) \cup {y}, t4.root, l2, r2, pa2)
<1>1. 0 \notin Node
  BY SMTT(30) DEF Node
<1>2. /\ J \subseteq Node
      /\ \A k \in Node : l[k] \in J \cup {0} /\ r[k] \in J \cup {0} /\ pa[k] \in J \cup {0}
  BY DEF Tree
<1>3. /\ x \in Node /\ x # 0 /\ y # 0 /\ y \in Node /\ y \notin J /\ x # y
      /\ l[x] # x /\ r[x] # x /\ pa[x] # y /\ l[x] # y /\ r[x] # y
  BY <1>1, <1>2 DEF Distinct
<1>4. \A k \in J : l[k] = t1.left[k] /\ r[k] = t1.right[k] /\ pa[k] = t1.p[k]
  BY DEF Restricts
<1>5. t2.p[x] = pa[x] /\ t2.root = t1.root
  <2>1. t2.p[x] = IF x = r[x] THEN y ELSE t1.p[x]
    BY <1>3 DEF TakesRight
  <2> QED
    BY <1>3, <1>4, <2>1 DEF TakesRight
<1>6. \A k \in Node : /\ t2.left[k] = t1.left[k]
                      /\ t2.right[k] = IF k = y THEN r[x] ELSE t1.right[k]
                      /\ t2.p[k] = IF k = r[x] THEN y ELSE t1.p[k]
  BY DEF TakesRight
<1>7. \A k \in Node : /\ t3.left[k] = IF k = pa[x] /\ t2.left[k] = x THEN y ELSE t2.left[k]
                      /\ t3.right[k] = IF k = pa[x] /\ t2.left[k] # x THEN y ELSE t2.right[k]
                      /\ t3.p[k] = IF k = y THEN pa[x] ELSE t2.p[k]
  BY <1>5, SMTT(30) DEF Replaced
<1>8. \A k \in Node : /\ t4.left[k] = IF k = y THEN l[x] ELSE t3.left[k]
                      /\ t4.right[k] = t3.right[k]
                      /\ t4.p[k] = IF k = l[x] THEN y ELSE t3.p[k]
  BY DEF TakesLeft
<1>9. t4.root = IF pa[x] = 0 THEN y ELSE t1.root
  BY <1>5, SMTT(30) DEF TakesLeft, Replaced
<1>10. \A k \in (J \ {x}) \cup {y} : k \in Node /\ l2[k] = t4.left[k] /\ r2[k] = t4.right[k] /\ pa2[k] = t4.p[k]
  BY <1>2, <1>3 DEF Restricts
<1>11. ASSUME NEW k \in (J \ {x}) \cup {y}
       PROVE  /\ l2[k] = IF k = y THEN l[x] ELSE IF k = pa[x] /\ l[k] = x THEN y ELSE l[k]
              /\ r2[k] = IF k = y THEN r[x] ELSE IF k = pa[x] /\ l[k] # x THEN y ELSE r[k]
              /\ pa2[k] = IF k = l[x] \/ k = r[x] THEN y ELSE IF k = y THEN pa[x] ELSE pa[k]
  <2>1. k \in Node /\ l2[k] = t4.left[k] /\ r2[k] = t4.right[k] /\ pa2[k] = t4.p[k]
    BY <1>10
  <2>2. /\ t2.left[k] = t1.left[k]
        /\ t2.right[k] = IF k = y THEN r[x] ELSE t1.right[k]
        /\ t2.p[k] = IF k = r[x] THEN y ELSE t1.p[k]
    BY <1>6, <2>1
  <2>3. /\ t3.left[k] = IF k = pa[x] /\ t2.left[k] = x THEN y ELSE t2.left[k]
        /\ t3.right[k] = IF k = pa[x] /\ t2.left[k] # x THEN y ELSE t2.right[k]
        /\ t3.p[k] = IF k = y THEN pa[x] ELSE t2.p[k]
    BY <1>7, <2>1
  <2>4. /\ t4.left[k] = IF k = y THEN l[x] ELSE t3.left[k]
        /\ t4.right[k] = t3.right[k]
        /\ t4.p[k] = IF k = l[x] THEN y ELSE t3.p[k]
    BY <1>8, <2>1
  <2>5. CASE k = y
    BY <1>3, <2>1, <2>2, <2>3, <2>4, <2>5
  <2>6. CASE k \in J /\ k # x /\ k # y
    <3>1. l[k] = t1.left[k] /\ r[k] = t1.right[k] /\ pa[k] = t1.p[k]
      BY <1>4, <2>6
    <3>2. l2[k] = IF k = pa[x] /\ l[k] = x THEN y ELSE l[k]
      BY <2>1, <2>2, <2>3, <2>4, <2>6, <3>1
    <3>3. r2[k] = IF k = pa[x] /\ l[k] # x THEN y ELSE r[k]
      BY <2>1, <2>2, <2>3, <2>4, <2>6, <3>1
    <3>4. pa2[k] = IF k = l[x] \/ k = r[x] THEN y ELSE pa[k]
      BY <2>1, <2>2, <2>3, <2>4, <2>6, <3>1
    <3> QED
      BY <2>6, <3>2, <3>3, <3>4
  <2> QED
    BY <1>3, <2>5, <2>6
<1> QED
  BY <1>9, <1>11 DEF InPlace, Restricts

\* The next node is the right child of x and takes its place.
LEMMA NearPlace ==
    ASSUME NEW K, NEW t \in TreeRecord, NEW l, NEW r, NEW pa,
           Restricts(K, t.left, l), Restricts(K, t.right, r), Restricts(K, t.p, pa),
           Tree(K, t.root, l, r, pa), \A k \in K : Distinct(l, r, pa, k),
           NEW x \in K, NEW y \in K, r[x] = y, l[y] = 0, l[x] # 0,
           NEW rt1, NEW l1, NEW r1, NEW pa1, Cuts(y, r[y], t.root, l, r, pa, rt1, l1, r1, pa1),
           NEW t3, Replaced(t, x, y, t3), NEW t4, TakesLeft(t3, y, l[x], t4),
           NEW l2, NEW r2, NEW pa2,
           Restricts(K \ {x}, t4.left, l2), Restricts(K \ {x}, t4.right, r2), Restricts(K \ {x}, t4.p, pa2)
    PROVE  InPlace(x, y, rt1, l1, r1, pa1, K \ {x}, t4.root, l2, r2, pa2)
<1>1. 0 \notin Node
  BY SMTT(30) DEF Node
<1>2. /\ K \subseteq Node
      /\ \A k \in Node : l[k] \in K \cup {0} /\ r[k] \in K \cup {0} /\ pa[k] \in K \cup {0}
      /\ \A k \in K : /\ l[k] # 0 => pa[l[k]] = k
                      /\ r[k] # 0 => pa[r[k]] = k
  BY DEF Tree
<1>3. /\ x \in Node /\ x # 0 /\ y # 0 /\ y \in Node /\ x # y
      /\ l[x] \in K /\ l[x] # x /\ l[x] # y /\ r[y] # x /\ r[y] # y /\ pa[y] = x /\ pa[x] # x /\ pa[x] # y
      /\ l[x] # r[y] /\ (r[y] # 0 => pa[r[y]] = y)
  <2>1. Distinct(l, r, pa, x) /\ Distinct(l, r, pa, y)
    OBVIOUS
  <2>2. pa[y] = x /\ y # 0 /\ x # 0 /\ x \in Node /\ y \in Node /\ l[x] \in K /\ pa[l[x]] = x
    BY <1>1, <1>2
  <2>3. l[x] # 0 /\ (r[y] # 0 => pa[r[y]] = y)
    BY <1>2
  <2>4. x # y /\ l[x] # x /\ l[x] # y /\ r[y] # y /\ pa[x] # x
    BY <2>1 DEF Distinct
  <2>5. r[y] # x /\ pa[x] # y
    BY <2>1, <2>2 DEF Distinct
  <2>6. l[x] # r[y]
    BY <2>2, <2>3, <2>4
  <2> QED
    BY <2>2, <2>3, <2>4, <2>5, <2>6
<1>4. \A k \in K : l[k] = t.left[k] /\ r[k] = t.right[k] /\ pa[k] = t.p[k]
  BY DEF Restricts
<1>5. rt1 = t.root
  BY <1>3 DEF Cuts
<1>6. \A k \in Node : /\ l1[k] = IF k = y THEN 0 ELSE IF k = x /\ l[k] = y THEN r[y] ELSE l[k]
                      /\ r1[k] = IF k = y THEN 0 ELSE IF k = x /\ r[k] = y THEN r[y] ELSE r[k]
                      /\ pa1[k] = IF k = y THEN 0 ELSE IF k = r[y] THEN x ELSE pa[k]
  BY <1>3 DEF Cuts
<1>7. l1[x] = l[x] /\ r1[x] = r[y] /\ pa1[x] = pa[x]
  BY <1>3, <1>6
<1>8. \A k \in Node : /\ t3.left[k] = IF k = pa[x] /\ t.left[k] = x THEN y ELSE t.left[k]
                      /\ t3.right[k] = IF k = pa[x] /\ t.left[k] # x THEN y ELSE t.right[k]
                      /\ t3.p[k] = IF k = y THEN pa[x] ELSE t.p[k]
  BY <1>4, SMTT(30) DEF Replaced
<1>9. \A k \in Node : /\ t4.left[k] = IF k = y THEN l[x] ELSE t3.left[k]
                      /\ t4.right[k] = t3.right[k]
                      /\ t4.p[k] = IF k = l[x] THEN y ELSE t3.p[k]
  BY DEF TakesLeft
<1>10. t4.root = IF pa[x] = 0 THEN y ELSE t.root
  BY <1>4, SMTT(30) DEF TakesLeft, Replaced
<1>11. \A k \in K \ {x} : k \in Node /\ l2[k] = t4.left[k] /\ r2[k] = t4.right[k] /\ pa2[k] = t4.p[k]
  BY <1>2 DEF Restricts
<1>12. ASSUME NEW k \in K \ {x}
       PROVE  /\ l2[k] = IF k = y THEN l1[x] ELSE IF k = pa1[x] /\ l1[k] = x THEN y ELSE l1[k]
              /\ r2[k] = IF k = y THEN r1[x] ELSE IF k = pa1[x] /\ l1[k] # x THEN y ELSE r1[k]
              /\ pa2[k] = IF k = l1[x] \/ k = r1[x] THEN y ELSE IF k = y THEN pa1[x] ELSE pa1[k]
  <2>1. k \in K /\ k # x /\ k \in Node /\ k # 0
    BY <1>1, <1>11
  <2>2. l2[k] = t4.left[k] /\ r2[k] = t4.right[k] /\ pa2[k] = t4.p[k]
    BY <1>11
  <2>3. /\ t3.left[k] = IF k = pa[x] /\ l[k] = x THEN y ELSE l[k]
        /\ t3.right[k] = IF k = pa[x] /\ l[k] # x THEN y ELSE r[k]
        /\ t3.p[k] = IF k = y THEN pa[x] ELSE pa[k]
    <3>1. l[k] = t.left[k] /\ r[k] = t.right[k] /\ pa[k] = t.p[k]
      BY <1>4, <2>1
    <3> QED
      BY <1>8, <2>1, <3>1
  <2>4. /\ t4.left[k] = IF k = y THEN l[x] ELSE t3.left[k]
        /\ t4.right[k] = t3.right[k]
        /\ t4.p[k] = IF k = l[x] THEN y ELSE t3.p[k]
    BY <1>9, <2>1
  <2>5. CASE k = y
    BY <1>3, <1>7, <2>2, <2>3, <2>4, <2>5
  <2>6. CASE k # y
    <3>1. l1[k] = l[k] /\ r1[k] = r[k] /\ pa1[k] = IF k = r[y] THEN x ELSE pa[k]
      BY <1>6, <2>1, <2>6
    <3>2. l2[k] = IF k = pa1[x] /\ l1[k] = x THEN y ELSE l1[k]
      BY <1>7, <2>2, <2>3, <2>4, <2>6, <3>1
    <3>3. r2[k] = IF k = pa1[x] /\ l1[k] # x THEN y ELSE r1[k]
      BY <1>7, <2>2, <2>3, <2>4, <2>6, <3>1
    <3>4. pa2[k] = IF k = l1[x] \/ k = r1[x] THEN y ELSE pa1[k]
      BY <1>3, <1>7, <2>1, <2>2, <2>3, <2>4, <2>6, <3>1
    <3> QED
      BY <2>6, <3>2, <3>3, <3>4
  <2> QED
    BY <2>5, <2>6
<1> QED
  BY <1>5, <1>7, <1>10, <1>12 DEF InPlace, Restricts

\* The nodes K of the record t are a tree in the order of keys.
SoundRecord(K, t, ky) ==
    /\ t \in TreeRecord
    /\ Sound(K, t.root, Within(K, t.left), Within(K, t.right), Within(K, t.p), ky)

\* The nodes outside K keep their children.
Untouched(K, t, t2) == \A n \in Node \ K : t2.left[n] = t.left[n] /\ t2.right[n] = t.right[n]

\* x is no longer in the tree t2.
Deletes(K, x, t, t2, ky) == SoundRecord(K \ {x}, t2, ky) /\ Untouched(K, t, t2)

\* A transplant only changes the children of a node in the tree.
LEMMA ReplacedInside ==
    ASSUME NEW K, NEW t, NEW u, NEW v, NEW t2, Replaced(t, u, v, t2), t.p[u] \in K \cup {0}
    PROVE  Untouched(K, t, t2)
<1>1. 0 \notin Node
  BY SMTT(30) DEF Node
<1>2. \A n \in Node \ K : n # t.p[u]
  BY <1>1
<1> QED
  BY <1>2 DEF Replaced, Untouched

\* bstree_delete of a node with at most one child, as it is assigned.
LEMMA DeletesSingle ==
    ASSUME NEW K, NEW t, NEW ky \in [Node -> Int], SoundRecord(K, t, ky), NEW x \in K,
           NEW v, (t.left[x] = 0 /\ v = t.right[x]) \/ (t.right[x] = 0 /\ v = t.left[x])
    PROVE  Deletes(K, x, t, bstree_transplant(t, x, v), ky)
<1> DEFINE l == Within(K, t.left)
           r == Within(K, t.right)
           pa == Within(K, t.p)
           G == K \ {x}
           t2 == bstree_transplant(t, x, v)
           l2 == Within(G, t2.left)
           r2 == Within(G, t2.right)
           pa2 == Within(G, t2.p)
<1>1. t \in TreeRecord /\ Sound(K, t.root, l, r, pa, ky) /\ Tree(K, t.root, l, r, pa)
  BY DEF SoundRecord, Sound
<1>2. K \in SUBSET Node /\ x \in Node /\ G \in SUBSET Node
  BY <1>1 DEF Tree
<1>3. /\ Restricts(K, t.left, l) /\ Restricts(K, t.right, r) /\ Restricts(K, t.p, pa)
      /\ Restricts(G, t2.left, l2) /\ Restricts(G, t2.right, r2) /\ Restricts(G, t2.p, pa2)
  BY <1>2, Inner
<1> HIDE DEF l, r, pa, l2, r2, pa2
<1>4. Distinct(l, r, pa, x)
  <2>1. PICK pos, A, B : Spanned(K, t.root, l, r, pos, A, B)
    BY <1>1 DEF Sound
  <2> QED
    BY <1>1, <2>1, Apart
<1>5. (l[x] = 0 /\ v = r[x]) \/ (r[x] = 0 /\ v = l[x])
  BY <1>3 DEF Restricts
<1>6. v \in Pointer
  <2>1. t.left \in [Node -> Pointer] /\ t.right \in [Node -> Pointer]
    BY <1>1, SMTT(30) DEF TreeRecord
  <2> QED
    BY <1>2, <2>1
<1>7. Replaced(t, x, v, t2)
  BY <1>1, <1>2, <1>6, Transplants
<1> HIDE DEF t2
<1>8. Cuts(x, v, t.root, l, r, pa, t2.root, l2, r2, pa2)
  BY <1>1, <1>3, <1>4, <1>5, <1>7, TransplantCuts
<1>9. Sound(G, t2.root, l2, r2, pa2, ky)
  BY <1>1, <1>5, <1>8, SoundWithout
<1>10. Untouched(K, t, t2)
  <2>1. t.p[x] \in K \cup {0}
    <3>1. pa[x] \in K \cup {0} /\ pa[x] = t.p[x]
      BY <1>1, <1>2, <1>3 DEF Tree, Restricts
    <3> QED
      BY <3>1
  <2> QED
    BY <1>7, <2>1, ReplacedInside
<1>11. SoundRecord(G, t2, ky)
  BY <1>7, <1>9 DEF SoundRecord, Replaced, l2, r2, pa2
<1> QED
  BY <1>10, <1>11 DEF Deletes, t2

\* What bstree_delete makes of a node x with two children and the node y after it.
Lifts(t, x, y) ==
    IF t.p[y] = x THEN t ELSE GivesRight(bstree_transplant(t, y, t.right[y]), y, t.right[x])

DeletesTwo(t, x, y) == GivesLeft(bstree_transplant(Lifts(t, x, y), x, y), y, t.left[x])

\* bstree_delete of a node with two children, as it is assigned.
LEMMA DeletesDouble ==
    ASSUME NEW K, NEW t, NEW ky \in [Node -> Int], SoundRecord(K, t, ky), NEW x \in K,
           t.left[x] # 0, t.right[x] # 0, NEW y, y = Last(Within(K, t.left), t.right[x])
    PROVE  Deletes(K, x, t, DeletesTwo(t, x, y), ky)
<1> DEFINE l == Within(K, t.left)
           r == Within(K, t.right)
           pa == Within(K, t.p)
           G == K \ {x}
           t4 == DeletesTwo(t, x, y)
           l4 == Within(G, t4.left)
           r4 == Within(G, t4.right)
           pa4 == Within(G, t4.p)
<1>1. t \in TreeRecord /\ Sound(K, t.root, l, r, pa, ky) /\ Tree(K, t.root, l, r, pa)
  BY DEF SoundRecord, Sound
<1>2. K \in SUBSET Node /\ x \in Node /\ G \in SUBSET Node
  BY <1>1 DEF Tree
<1>3. /\ Restricts(K, t.left, l) /\ Restricts(K, t.right, r) /\ Restricts(K, t.p, pa)
      /\ Restricts(G, t4.left, l4) /\ Restricts(G, t4.right, r4) /\ Restricts(G, t4.p, pa4)
  BY <1>2, Inner
<1>4. y = Last(l, t.right[x])
  OBVIOUS
<1> HIDE DEF l, r, pa, l4, r4, pa4
<1>5. l[x] = t.left[x] /\ r[x] = t.right[x]
  BY <1>3 DEF Restricts
<1>6. PICK pos, A, B : Spanned(K, t.root, l, r, pos, A, B) /\ InKeyOrder(K, pos, ky)
  BY <1>1 DEF Sound
<1>7. \A k \in K : Distinct(l, r, pa, k)
  BY <1>1, <1>6, Apart
<1>8. Follows(K, l, pos, x, y)
  <2>1. Follows(K, l, pos, x, Last(l, r[x]))
    BY <1>1, <1>5, <1>6, Successor
  <2> QED
    BY <1>4, <1>5, <2>1
<1>9. y \in K /\ y # x /\ l[y] = 0 /\ y \in Node /\ pos[x] < pos[y] /\ y = Last(l, r[x])
  BY <1>2, <1>4, <1>5, <1>8 DEF Follows
<1>10. l[y] = t.left[y] /\ r[y] = t.right[y] /\ pa[y] = t.p[y]
  BY <1>3, <1>9 DEF Restricts
<1>11. 0 \notin Node /\ Node \subseteq Pointer
  BY SMTT(30) DEF Node, Pointer
<1>12. l[x] \in K /\ r[x] \in K /\ r[y] \in K \cup {0} /\ r[y] \in Pointer
  <2>1. l[x] \in K \cup {0} /\ r[x] \in K \cup {0} /\ r[y] \in K \cup {0}
    BY <1>1, <1>2, <1>9 DEF Tree
  <2>2. 0 \in Pointer
    BY SMTT(30) DEF Pointer
  <2> QED
    BY <1>2, <1>5, <1>11, <2>1, <2>2
<1>13. l[x] # y
  <2>1. PICK lo, hi : Spans(K, t.root, l, r, pos, lo, hi, A, B)
    BY <1>6 DEF Spanned
  <2>2. l[x] = y => hi[y] = pos[x]
    BY <1>5, <2>1 DEF Spans
  <2>3. pos[y] < hi[y] /\ pos[y] \in Int /\ pos[x] \in Int
    BY <1>2, <1>9, <2>1 DEF Spans
  <2> QED
    BY <1>9, <2>2, <2>3, SMTT(30)
<1>14. ASSUME NEW rt1, NEW l1, NEW r1, NEW pa1, Cuts(y, r[y], t.root, l, r, pa, rt1, l1, r1, pa1),
              InPlace(x, y, rt1, l1, r1, pa1, G, t4.root, l4, r4, pa4)
       PROVE  Sound(G, t4.root, l4, r4, pa4, ky)
  <2> DEFINE J == K \ {y}
  <2>1. G = (J \ {x}) \cup {y} /\ x \in J /\ y \in Node \ J
    BY <1>9
  <2>2. SoundAt(J, rt1, l1, r1, pa1, ky, pos, A, B)
    BY <1>1, <1>6, <1>9, <1>14, SoundCut
  <2> HIDE DEF J, G, t4
  <2>3. /\ Tree(J, rt1, l1, r1, pa1) /\ \A k \in Node \ J : pa1[k] = 0
        /\ Spanned(J, rt1, l1, r1, pos, A, B)
    BY <2>2 DEF SoundAt
  <2>4. Distinct(l1, r1, pa1, x)
    BY <2>1, <2>3, Apart
  <2>5. Renames(x, y, rt1, l1, r1, pa1, t4.root, l4, r4, pa4)
    BY <1>14, <2>1, <2>3, <2>4, PlaceRenames
  <2>6. r[x] # 0
    BY <1>5
  <2> QED
    BY <1>1, <1>9, <1>14, <2>5, <2>6, SoundLifted DEF G
<1>15. t.p[x] \in K \cup {0} /\ t.p[y] \in K \cup {0}
  <2>1. pa[x] \in K \cup {0} /\ pa[y] \in K \cup {0}
    BY <1>1, <1>2, <1>9 DEF Tree
  <2>2. pa[x] = t.p[x]
    BY <1>3 DEF Restricts
  <2> QED
    BY <1>10, <2>1, <2>2
<1>16. CASE t.p[y] = x
  <2>1. r[x] = y
    <3>1. pa[y] = x
      BY <1>10, <1>16
    <3>2. x # 0
      BY <1>2, <1>11
    <3>3. l[x] = y \/ r[x] = y
      BY <1>1, <1>9, <3>1, <3>2 DEF Tree
    <3> QED
      BY <1>13, <3>3
  <2> DEFINE t3 == bstree_transplant(t, x, y)
             rt1 == IF pa[y] = 0 THEN r[y] ELSE t.root
             l1 == [k \in Node |-> IF k = y THEN 0 ELSE IF k = pa[y] /\ l[k] = y THEN r[y] ELSE l[k]]
             r1 == [k \in Node |-> IF k = y THEN 0 ELSE IF k = pa[y] /\ r[k] = y THEN r[y] ELSE r[k]]
             pa1 == [k \in Node |-> IF k = y THEN 0 ELSE IF k = r[y] THEN pa[y] ELSE pa[k]]
  <2>2. Cuts(y, r[y], t.root, l, r, pa, rt1, l1, r1, pa1)
    BY DEF Cuts
  <2>3. t4 = GivesLeft(t3, y, l[x])
    BY <1>5, <1>16 DEF DeletesTwo, Lifts
  <2>4. Replaced(t, x, y, t3)
    BY <1>1, <1>2, <1>9, <1>11, Transplants
  <2> HIDE DEF t3, t4, rt1, l1, r1, pa1
  <2>5. TakesLeft(t3, y, l[x], t4)
    <3>1. t3 \in TreeRecord /\ l[x] \in Node
      BY <1>2, <1>12, <2>4 DEF Replaced
    <3>2. TakesLeft(t3, y, l[x], GivesLeft(t3, y, l[x]))
      BY <1>9, <3>1, Takes
    <3> QED
      BY <2>3, <3>2
  <2>6. InPlace(x, y, rt1, l1, r1, pa1, K \ {x}, t4.root, l4, r4, pa4)
    BY <1>1, <1>3, <1>5, <1>7, <1>9, <2>1, <2>2, <2>4, <2>5, NearPlace
  <2>7. Sound(G, t4.root, l4, r4, pa4, ky)
    BY <1>14, <2>2, <2>6
  <2>8. SoundRecord(G, t4, ky)
    BY <2>5, <2>7 DEF SoundRecord, TakesLeft, l4, r4, pa4
  <2>9. Untouched(K, t, t4)
    <3>1. Untouched(K, t, t3)
      BY <1>15, <2>4, ReplacedInside
    <3> QED
      BY <1>9, <2>5, <3>1 DEF Untouched, TakesLeft
  <2> QED
    BY <2>8, <2>9 DEF Deletes, t4
<1>17. CASE t.p[y] # x
  <2> DEFINE J == K \ {y}
             t1 == bstree_transplant(t, y, t.right[y])
             t2 == GivesRight(t1, y, t.right[x])
             t3 == bstree_transplant(t2, x, y)
             l1 == Within(J, t1.left)
             r1 == Within(J, t1.right)
             pa1 == Within(J, t1.p)
  <2>1. t4 = GivesLeft(t3, y, l[x])
    BY <1>5, <1>17 DEF DeletesTwo, Lifts
  <2>2. Replaced(t, y, r[y], t1)
    BY <1>1, <1>9, <1>10, <1>12, Transplants
  <2>3. G = (J \ {x}) \cup {y} /\ x \in J /\ y \in Node \ J /\ J \in SUBSET Node
    BY <1>2, <1>9
  <2>4. Restricts(J, t1.left, l1) /\ Restricts(J, t1.right, r1) /\ Restricts(J, t1.p, pa1)
    BY <2>3, Inner
  <2> HIDE DEF l1, r1, pa1, t1
  <2>5. t1 \in TreeRecord
    BY <2>2 DEF Replaced
  <2>6. TakesRight(t1, y, r[x], t2)
    <3>1. r[x] \in Node /\ t2 = GivesRight(t1, y, r[x])
      BY <1>2, <1>5, <1>12
    <3> HIDE DEF t2
    <3> QED
      BY <1>9, <2>5, <3>1, Takes
  <2> HIDE DEF t2
  <2>7. Replaced(t2, x, y, t3)
    <3>1. t2 \in TreeRecord /\ y \in Pointer
      BY <1>9, <1>11, <2>6 DEF TakesRight
    <3> QED
      BY <1>2, <3>1, Transplants
  <2> HIDE DEF t3, t4
  <2>8. TakesLeft(t3, y, l[x], t4)
    <3>1. t3 \in TreeRecord /\ l[x] \in Node
      BY <1>2, <1>12, <2>7 DEF Replaced
    <3> QED
      BY <1>9, <2>1, <3>1, Takes
  <2>9. Cuts(y, r[y], t.root, l, r, pa, t1.root, l1, r1, pa1)
    BY <1>1, <1>3, <1>7, <1>9, <2>2, <2>4, TransplantCuts
  <2>10. /\ Tree(J, t1.root, l1, r1, pa1) /\ Distinct(l1, r1, pa1, x)
    <3>1. SoundAt(J, t1.root, l1, r1, pa1, ky, pos, A, B)
      BY <1>1, <1>6, <1>9, <2>9, SoundCut
    <3> HIDE DEF J
    <3>2. Tree(J, t1.root, l1, r1, pa1) /\ Spanned(J, t1.root, l1, r1, pos, A, B)
      BY <3>1 DEF SoundAt
    <3> QED
      BY <2>3, <3>2, Apart
  <2>11. l1[x] = l[x] /\ r1[x] = r[x]
    BY <1>2, <1>9, <1>10, <1>17, <2>9, SMTT(30) DEF Cuts
  <2> HIDE DEF J, G
  <2>12. InPlace(x, y, t1.root, l1, r1, pa1, G, t4.root, l4, r4, pa4)
    BY <1>3, <2>3, <2>4, <2>5, <2>6, <2>7, <2>8, <2>10, <2>11, FarPlace
  <2>13. Sound(G, t4.root, l4, r4, pa4, ky)
    BY <1>14, <2>9, <2>12
  <2>14. SoundRecord(G, t4, ky)
    BY <2>8, <2>13 DEF SoundRecord, TakesLeft, l4, r4, pa4
  <2>15. Untouched(K, t, t4)
    <3>1. Untouched(K, t, t1)
      BY <1>15, <2>2, ReplacedInside
    <3>2. t2.p[x] \in K \cup {0}
      <4>1. t2.p[x] = IF x = r[x] THEN y ELSE t1.p[x]
        BY <1>2, <2>6 DEF TakesRight
      <4>2. t1.p[x] = IF x = r[y] THEN t.p[y] ELSE t.p[x]
        BY <1>2, <2>2 DEF Replaced
      <4> QED
        BY <1>9, <1>15, <4>1, <4>2
    <3>3. Untouched(K, t2, t3)
      BY <2>7, <3>2, ReplacedInside
    <3>4. Untouched(K, t1, t2)
      BY <1>9, <2>6 DEF Untouched, TakesRight
    <3>5. Untouched(K, t3, t4)
      BY <1>9, <2>8 DEF Untouched, TakesLeft
    <3>6. Untouched(K, t, t2)
      BY <3>1, <3>4 DEF Untouched
    <3>7. Untouched(K, t, t3)
      BY <3>3, <3>6 DEF Untouched
    <3> QED
      BY <3>5, <3>7 DEF Untouched
  <2> QED
    BY <2>14, <2>15 DEF Deletes, t4, G
<1> QED
  BY <1>16, <1>17

-----------------------------------------------------------------------------
(* The invariant of the binary search tree. *)

BstInv ==
    /\ used \in 0..MaxInsert /\ deleted \subseteq 1..used /\ key \in [Node -> Int]
    /\ \A n \in Node : n > used => tr.left[n] = 0 /\ tr.right[n] = 0
    /\ SoundRecord(Inside, tr, key)

FindsKey(K, ky, k, y) == y \in K /\ ((\E n \in K : ky[n] = k) => ky[y] = k)

\* The loop of bstree_search ends at a node with the key if there is one.
LEMMA SearchFinds ==
    ASSUME NEW K, NEW rt, NEW l, NEW r, NEW pa, NEW ky \in [Node -> Int], Sound(K, rt, l, r, pa, ky),
           rt # 0, NEW k \in Int, NEW nx \in [Node -> Pointer],
           \A x \in Node : nx[x] \in {0, l[x], r[x]},
           \A x \in K : nx[x] = IF ky[x] = k THEN 0 ELSE IF k < ky[x] THEN l[x] ELSE r[x],
           NEW y, y = Last(nx, rt)
    PROVE  FindsKey(K, ky, k, y)
<1>1. Tree(K, rt, l, r, pa)
  BY DEF Sound
<1>2. PICK pos, A, B : Spanned(K, rt, l, r, pos, A, B) /\ InKeyOrder(K, pos, ky)
  BY DEF Sound
<1>3. PICK lo, hi : Spans(K, rt, l, r, pos, lo, hi, A, B)
  BY <1>2 DEF Spanned
<1>4. PICK w, top : Ranked(nx, nx, w, top)
  <2>1. PICK w, top : Ranked(l, r, w, top)
    BY <1>1, <1>2, TreeRanked
  <2>2. Ranked(nx, nx, w, top)
    BY <2>1, WayRanked
  <2> QED
    BY <2>2
<1>5. /\ K \in SUBSET Node /\ rt \in K
      /\ \A x \in K : l[x] \in K \cup {0} /\ r[x] \in K \cup {0}
  BY <1>1 DEF Tree
<1>6. y \in K
  <2>1. \A x \in K : nx[x] # 0 => nx[x] \in K
    BY <1>5
  <2> QED
    BY <1>4, <1>5, <2>1, LastStops
<1>7. ASSUME NEW n \in K, ky[n] = k
      PROVE  ky[y] = k
  <2> DEFINE C == {x \in K : Above(pos, lo, hi, n, x)}
  <2>1. /\ \A x \in K : lo[x] \in Int /\ hi[x] \in Int /\ pos[x] \in Int /\ ky[x] \in Int
        /\ A \in Int /\ B \in Int
        /\ \A x \in K : A <= lo[x] /\ lo[x] < pos[x] /\ pos[x] < hi[x] /\ hi[x] <= B
        /\ \A x \in K : l[x] # 0 => lo[l[x]] = lo[x] /\ hi[l[x]] = pos[x]
        /\ \A x \in K : r[x] # 0 => lo[r[x]] = pos[x] /\ hi[r[x]] = hi[x]
        /\ \A x, j \in K : l[x] = 0 => ~(lo[x] < pos[j] /\ pos[j] < pos[x])
        /\ \A x, j \in K : r[x] = 0 => ~(pos[x] < pos[j] /\ pos[j] < hi[x])
        /\ lo[rt] = A /\ hi[rt] = B
    BY <1>3, <1>5 DEF Spans
  <2>2. \A x \in K : ky[x] # k => (IF k < ky[x] THEN pos[n] < pos[x] ELSE pos[x] < pos[n])
    <3> SUFFICES ASSUME NEW x \in K, ky[x] # k
                 PROVE  IF k < ky[x] THEN pos[n] < pos[x] ELSE pos[x] < pos[n]
      OBVIOUS
    <3>1. pos[x] # pos[n] /\ (pos[x] < pos[n] => ky[x] <= ky[n]) /\ (pos[n] < pos[x] => ky[n] <= ky[x])
      BY <1>2, <1>7 DEF InKeyOrder
    <3> QED
      BY <1>7, <2>1, <3>1, SMTT(30)
  <2>3. rt \in C
    <3>1. lo[rt] < pos[n] /\ pos[n] < hi[rt]
      BY <1>5, <2>1, SMTT(30)
    <3> QED
      BY <1>5, <3>1 DEF Above
  <2>4. \A x \in C : nx[x] # 0 => nx[x] \in C
    <3> SUFFICES ASSUME NEW x \in C, nx[x] # 0 PROVE nx[x] \in C
      OBVIOUS
    <3>1. x \in K /\ lo[x] < pos[n] /\ pos[n] < hi[x] /\ ky[x] # k
      BY DEF Above
    <3>2. CASE k < ky[x]
      <4>1. nx[x] = l[x] /\ l[x] \in K /\ lo[l[x]] = lo[x] /\ hi[l[x]] = pos[x] /\ pos[n] < pos[x]
        BY <1>5, <2>1, <2>2, <3>1, <3>2
      <4> QED
        BY <3>1, <4>1 DEF Above
    <3>3. CASE ~(k < ky[x])
      <4>1. nx[x] = r[x] /\ r[x] \in K /\ lo[r[x]] = pos[x] /\ hi[r[x]] = hi[x] /\ pos[x] < pos[n]
        BY <1>5, <2>1, <2>2, <3>1, <3>3
      <4> QED
        BY <3>1, <4>1 DEF Above
    <3> QED
      BY <3>2, <3>3
  <2>5. y \in C /\ nx[y] = 0
    <3>1. C \in SUBSET Node /\ rt \in Node
      BY <1>5
    <3> HIDE DEF C
    <3> QED
      BY <1>4, <2>3, <2>4, <3>1, LastStops
  <2>6. y \in K /\ lo[y] < pos[n] /\ pos[n] < hi[y]
    BY <2>5 DEF Above
  <2> SUFFICES ASSUME ky[y] # k PROVE FALSE
    OBVIOUS
  <2>7. CASE k < ky[y]
    BY <2>1, <2>2, <2>5, <2>6, <2>7
  <2>8. CASE ~(k < ky[y])
    BY <2>1, <2>2, <2>5, <2>6, <2>8
  <2> QED
    BY <2>7, <2>8
<1> QED
  BY <1>6, <1>7 DEF FindsKey

\* What the invariant says of the pointers.
LEMMA BstFacts ==
    ASSUME BstInv
    PROVE  /\ Sound(Inside, tr.root, Live(tr.left), Live(tr.right), Live(tr.p), key)
           /\ Tree(Inside, tr.root, Live(tr.left), Live(tr.right), Live(tr.p))
           /\ tr \in TreeRecord /\ tr.root \in Pointer /\ Inside \in SUBSET Node
           /\ tr.left \in [Node -> Pointer] /\ tr.right \in [Node -> Pointer] /\ tr.p \in [Node -> Pointer]
           /\ key \in [Node -> Int]
<1>1. Sound(Inside, tr.root, Live(tr.left), Live(tr.right), Live(tr.p), key) /\ tr \in TreeRecord
  BY DEF BstInv, SoundRecord, Live, Within
<1>2. Tree(Inside, tr.root, Live(tr.left), Live(tr.right), Live(tr.p)) /\ Inside \in SUBSET Node
  BY <1>1 DEF Sound, Tree
<1>3. /\ tr.root \in Pointer /\ tr.left \in [Node -> Pointer] /\ tr.right \in [Node -> Pointer]
      /\ tr.p \in [Node -> Pointer]
  BY <1>1, SMTT(30) DEF TreeRecord
<1> QED
  BY <1>1, <1>2, <1>3 DEF BstInv

\* x is the right answer to a search for k.
Answers(k, x) == IF \E n \in Inside : key[n] = k THEN x \in Inside /\ key[x] = k ELSE x = 0

\* bstree_search finds a node of the tree with the key exactly if there is one.
LEMMA BstFinds ==
    ASSUME BstInv, NEW k \in Int, NEW x, x = bstree_search(k)
    PROVE  Answers(k, x)
<1> DEFINE nx == [n \in Node |-> IF key[n] = k THEN 0 ELSE Side(k)[n]]
           l == Live(tr.left)
           r == Live(tr.right)
           y == Last(nx, tr.root)
<1>1. x = IF tr.root # 0 /\ key[y] = k THEN y ELSE 0
  BY DEF bstree_search
<1>2. \A n \in Node : Side(k)[n] = IF k < key[n] THEN l[n] ELSE r[n]
  BY DEF Side
<1>3. \A n \in Node : nx[n] = IF key[n] = k THEN 0 ELSE IF k < key[n] THEN l[n] ELSE r[n]
  BY <1>2
<1>4. nx = [n \in Node |-> nx[n]]
  OBVIOUS
<1> HIDE DEF nx, l, r, y
<1>5. /\ Sound(Inside, tr.root, l, r, Live(tr.p), key) /\ Tree(Inside, tr.root, l, r, Live(tr.p))
      /\ Inside \in SUBSET Node /\ key \in [Node -> Int]
  BY BstFacts DEF l, r
<1>6. nx \in [Node -> Pointer] /\ \A n \in Node : nx[n] \in {0, l[n], r[n]}
  <2>1. \A n \in Node : l[n] \in Inside \cup {0} /\ r[n] \in Inside \cup {0}
    BY <1>5 DEF Tree
  <2>2. 0 \in Pointer /\ Node \subseteq Pointer
    BY SMTT(30) DEF Node, Pointer
  <2>3. \A n \in Node : nx[n] \in {0, l[n], r[n]}
    BY <1>3
  <2>4. \A n \in Node : nx[n] \in Pointer
    BY <1>5, <2>1, <2>2, <2>3
  <2> QED
    BY <1>4, <2>3, <2>4
<1>7. CASE tr.root # 0
  <2>1. \A n \in Inside : nx[n] = IF key[n] = k THEN 0 ELSE IF k < key[n] THEN l[n] ELSE r[n]
    BY <1>3, <1>5
  <2>2. y \in Inside /\ ((\E n \in Inside : key[n] = k) => key[y] = k)
    <3>1. FindsKey(Inside, key, k, Last(nx, tr.root))
      BY <1>5, <1>6, <1>7, <2>1, SearchFinds
    <3> QED
      BY <3>1 DEF FindsKey, y
  <2> QED
    BY <1>1, <1>7, <2>2 DEF Answers
<1>8. CASE tr.root = 0
  <2>1. Inside = {}
    BY <1>5, <1>8 DEF Tree
  <2> QED
    BY <1>1, <1>8, <2>1 DEF Answers
<1> QED
  BY <1>7, <1>8

\* Setting one pointer.
PutAt(f, y, n, g) == g \in [Node -> Pointer] /\ \A m \in Node : g[m] = IF m = y THEN n ELSE f[m]

\* Assigning to a pointer changes that one and no other.
LEMMA Puts ==
    ASSUME NEW f \in [Node -> Pointer], NEW y \in Node, NEW n \in Pointer
    PROVE  PutAt(f, y, n, Put(f, y, n))
BY SMTT(30) DEF PutAt, Put

\* The pointer to a new node n.
LEMMA PutInto ==
    ASSUME NEW K \in SUBSET Node, NEW f \in [Node -> Pointer], NEW y \in K, NEW n \in Node, n \notin K, f[n] = 0
    PROVE  Within(K \cup {n}, Put(f, y, n)) = Put(Within(K, f), y, n)
<1>1. Within(K, f) \in [Node -> Pointer] /\ n \in Pointer /\ y \in Node
  BY SMTT(30) DEF Within, Node, Pointer
<1> DEFINE a == Within(K \cup {n}, Put(f, y, n))
           b == Put(Within(K, f), y, n)
<1>2. PutAt(f, y, n, Put(f, y, n)) /\ PutAt(Within(K, f), y, n, b)
  BY <1>1, Puts
<1>3. \A x \in Node : a[x] = b[x]
  BY <1>2, SMTT(30) DEF Within, PutAt
<1>4. a = [x \in Node |-> a[x]] /\ b = [x \in Node |-> b[x]]
  BY <1>2 DEF Within, PutAt
<1> HIDE DEF a, b
<1>5. a = b
  BY <1>3, <1>4
<1> QED
  BY <1>5 DEF a, b

\* The pointer of a new node n.
LEMMA PutOf ==
    ASSUME NEW K \in SUBSET Node, NEW f \in [Node -> Pointer], NEW y \in K, NEW n \in Node, n \notin K
    PROVE  Within(K \cup {n}, Put(f, n, y)) = Put(Within(K, f), n, y)
<1>1. Within(K, f) \in [Node -> Pointer] /\ y \in Pointer
  BY SMTT(30) DEF Within, Node, Pointer
<1> DEFINE a == Within(K \cup {n}, Put(f, n, y))
           b == Put(Within(K, f), n, y)
<1>2. PutAt(f, n, y, Put(f, n, y)) /\ PutAt(Within(K, f), n, y, b)
  BY <1>1, Puts
<1>3. \A x \in Node : a[x] = b[x]
  BY <1>2, SMTT(30) DEF Within, PutAt
<1>4. a = [x \in Node |-> a[x]] /\ b = [x \in Node |-> b[x]]
  BY <1>2 DEF Within, PutAt
<1> HIDE DEF a, b
<1>5. a = b
  BY <1>3, <1>4
<1> QED
  BY <1>5 DEF a, b

\* Inserting keeps the invariant.
LEMMA InsertKept ==
    ASSUME BstInv, insert
    PROVE  BstInv'
<1> DEFINE n == used + 1
           l == Live(tr.left)
           r == Live(tr.right)
           pa == Live(tr.p)
           G == Inside \cup {n}
<1>1. PICK k \in Keys : bstree_insert(n, k)
  BY DEF insert
<1>2. k \in Int
  BY BstAssumption
<1>3. /\ used' = n /\ deleted' = deleted /\ n \in 0..MaxInsert /\ n \in Node /\ n \notin Inside
      /\ Inside' = G /\ deleted' \subseteq 1..used' /\ \A m \in Node : m > n => m > used /\ m # n
      /\ n > used /\ \A m \in Inside : ~(m > n)
  <2>1. used' = n /\ deleted' = deleted /\ used < MaxInsert /\ used \in 0..MaxInsert /\ deleted \subseteq 1..used
    BY DEF insert, BstInv
  <2>2. n \in 0..MaxInsert /\ n \in Node /\ n \notin 1..used /\ 1..n = (1..used) \cup {n} /\ n > used
    BY <2>1, BstAssumption, SMTT(30) DEF Node
  <2>3. /\ \A m \in Node : m > n => m > used /\ m # n
        /\ \A m \in 1..used : ~(m > n)
    BY <2>1, SMTT(30) DEF Node
  <2> HIDE DEF n
  <2>4. \A m \in Inside : ~(m > n)
    BY <2>3 DEF Inside
  <2>5. n \notin Inside /\ Inside' = G
    BY <2>1, <2>2 DEF Inside
  <2> QED
    BY <2>1, <2>2, <2>3, <2>4, <2>5
<1> HIDE DEF n
<1>4. /\ Sound(Inside, tr.root, l, r, pa, key) /\ Tree(Inside, tr.root, l, r, pa)
      /\ tr.root \in Pointer /\ Inside \in SUBSET Node
      /\ tr.left \in [Node -> Pointer] /\ tr.right \in [Node -> Pointer] /\ tr.p \in [Node -> Pointer]
      /\ key \in [Node -> Int]
  BY BstFacts
<1>5. tr.left[n] = 0 /\ tr.right[n] = 0
  BY <1>3 DEF BstInv
<1>6. /\ l = Within(Inside, tr.left) /\ r = Within(Inside, tr.right) /\ pa = Within(Inside, tr.p)
  BY DEF Live, Within
<1> HIDE DEF l, r, pa
<1>7. key' = Put(key, n, k) /\ key' \in [Node -> Int]
  <2>1. key' = Put(key, n, k)
    BY <1>1 DEF bstree_insert, Put
  <2> QED
    BY <1>2, <1>3, <1>4, <2>1, SMTT(30) DEF Put
<1>8. n \in Pointer /\ 0 \in Pointer /\ n # 0 /\ Node \subseteq Pointer
  BY <1>3, SMTT(30) DEF Node, Pointer
<1>9. CASE tr.root = 0
  <2>1. Inside = {} /\ G = {n}
    BY <1>4, <1>9 DEF Tree
  <2> DEFINE pp == Put(tr.p, n, 0)
  <2>2. tr' = Quad(n, tr.left, tr.right, pp)
    BY <1>1, <1>9, SMTT(30) DEF bstree_insert, Quad, Put
  <2>3. pp \in [Node -> Pointer] /\ pp[n] = 0
    BY <1>3, <1>4, <1>8 DEF Put
  <2> HIDE DEF pp
  <2>4. tr'.root = n /\ tr'.left = tr.left /\ tr'.right = tr.right /\ tr'.p = pp /\ tr' \in TreeRecord
    BY <1>4, <1>8, <2>2, <2>3, SMTT(30) DEF TreeRecord, Quad
  <2> DEFINE zero == [x \in Node |-> 0]
  <2>5. Within(G, tr.left) = zero /\ Within(G, tr.right) = zero /\ Within(G, pp) = zero
    BY <1>5, <2>1, <2>3 DEF Within
  <2>6. Sound({n}, n, zero, zero, zero, key')
    BY <1>3, <1>7, SoundFirst
  <2>7. SoundRecord(Inside', tr', key')
    BY <1>3, <2>1, <2>4, <2>5, <2>6 DEF SoundRecord
  <2>8. \A m \in Node : m > n => tr'.left[m] = 0 /\ tr'.right[m] = 0
    BY <1>3, <2>4 DEF BstInv
  <2> QED
    BY <1>3, <1>7, <2>7, <2>8 DEF BstInv
<1>10. CASE tr.root # 0
  <2> DEFINE nx == Side(k)
             y == Last(nx, tr.root)
             pp == Put(tr.p, n, y)
             a == Put(tr.left, y, n)
             b == Put(tr.right, y, n)
  <2>1. nx = [m \in Node |-> IF k < key[m] THEN l[m] ELSE r[m]]
    BY DEF Side, l, r
  <2>2. nx \in [Node -> Pointer] /\ \A m \in Node : nx[m] \in {0, l[m], r[m]}
    <3>1. \A m \in Node : l[m] \in Pointer /\ r[m] \in Pointer
      <4>1. \A m \in Node : l[m] \in Inside \cup {0} /\ r[m] \in Inside \cup {0}
        BY <1>4 DEF Tree
      <4> QED
        BY <1>4, <1>8, <4>1
    <3> QED
      BY <2>1, <3>1
  <2>3. \A m \in Inside : nx[m] = IF k < key[m] THEN l[m] ELSE r[m]
    BY <1>4, <2>1
  <2> HIDE DEF nx
  <2>4. /\ y \in Inside
        /\ k < key[y] => Sound(G, tr.root, Put(l, y, n), r, Put(pa, n, y), key')
        /\ ~(k < key[y]) => Sound(G, tr.root, l, Put(r, y, n), Put(pa, n, y), key')
    <3>1. n \in Node \ Inside
      BY <1>3
    <3>2. HangsBelow(Inside, tr.root, l, r, pa, key, n, k, y)
      BY <1>2, <1>4, <1>10, <2>2, <2>3, <3>1, SoundLeaf
    <3> QED
      BY <1>7, <3>2 DEF HangsBelow
  <2>5. y # 0 /\ y \in Node /\ y # n
    <3>1. 0 \notin Node
      BY SMTT(30) DEF Node
    <3> QED
      BY <1>3, <1>4, <2>4, <3>1
  <2>6. tr' = Quad(tr.root, IF k < key[y] THEN a ELSE tr.left, IF k < key[y] THEN tr.right ELSE b, pp)
    <3>1. (IF tr.root = 0 THEN 0 ELSE Last(Side(k), tr.root)) = y
      BY <1>10 DEF nx
    <3> HIDE DEF y
    <3> QED
      BY <1>1, <2>5, <3>1, SMTT(30) DEF bstree_insert, Quad, Put
  <2> HIDE DEF y
  <2>7. /\ a \in [Node -> Pointer] /\ b \in [Node -> Pointer] /\ pp \in [Node -> Pointer]
        /\ \A m \in Node : /\ a[m] = IF m = y THEN n ELSE tr.left[m]
                           /\ b[m] = IF m = y THEN n ELSE tr.right[m]
                           /\ pp[m] = IF m = n THEN y ELSE tr.p[m]
    <3>1. PutAt(tr.left, y, n, a) /\ PutAt(tr.right, y, n, b) /\ PutAt(tr.p, n, y, pp)
      BY <1>3, <1>4, <1>8, <2>5, Puts
    <3> QED
      BY <3>1 DEF PutAt
  <2>8. /\ l = Within(Inside, tr.left) /\ r = Within(Inside, tr.right) /\ pa = Within(Inside, tr.p)
        /\ l \in [Node -> Inside \cup {0}] /\ r \in [Node -> Inside \cup {0}] /\ pa \in [Node -> Inside \cup {0}]
    BY <1>4, <1>6 DEF Tree
  <2>9. Within(G, a) = Put(l, y, n) /\ Within(G, b) = Put(r, y, n) /\ Within(G, pp) = Put(pa, n, y)
    <3>1. y \in Inside
      BY <2>4
    <3>2. Within(G, a) = Put(Within(Inside, tr.left), y, n)
      BY <1>3, <1>4, <1>5, <3>1, PutInto
    <3>3. Within(G, b) = Put(Within(Inside, tr.right), y, n)
      BY <1>3, <1>4, <1>5, <3>1, PutInto
    <3>4. Within(G, pp) = Put(Within(Inside, tr.p), n, y)
      <4>1. Inside \in SUBSET Node /\ tr.p \in [Node -> Pointer] /\ n \in Node /\ n \notin Inside
        BY <1>3, <1>4
      <4> QED
        BY <3>1, <4>1, PutOf
    <3> QED
      BY <1>6, <3>2, <3>3, <3>4
  <2> HIDE DEF a, b, pp
  <2>10. Within(G, tr.left) = l /\ Within(G, tr.right) = r
    BY <1>3, <1>5, <1>6 DEF Within
  <2>11. CASE k < key[y]
    <3>1. tr'.root = tr.root /\ tr'.left = a /\ tr'.right = tr.right /\ tr'.p = pp /\ tr' \in TreeRecord
      BY <1>4, <2>6, <2>7, <2>11, SMTT(30) DEF TreeRecord, Quad
    <3>2. SoundRecord(Inside', tr', key')
      BY <1>3, <2>4, <2>9, <2>10, <2>11, <3>1 DEF SoundRecord
    <3>3. \A m \in Node : m > n => tr'.left[m] = 0 /\ tr'.right[m] = 0
      <4>1. ~(y > n)
        BY <1>3, <2>4
      <4> QED
        BY <1>3, <2>7, <3>1, <4>1 DEF BstInv
    <3> QED
      BY <1>3, <1>7, <3>2, <3>3 DEF BstInv
  <2>12. CASE ~(k < key[y])
    <3>1. tr'.root = tr.root /\ tr'.left = tr.left /\ tr'.right = b /\ tr'.p = pp /\ tr' \in TreeRecord
      BY <1>4, <2>6, <2>7, <2>12, SMTT(30) DEF TreeRecord, Quad
    <3>2. SoundRecord(Inside', tr', key')
      BY <1>3, <2>4, <2>9, <2>10, <2>12, <3>1 DEF SoundRecord
    <3>3. \A m \in Node : m > n => tr'.left[m] = 0 /\ tr'.right[m] = 0
      <4>1. ~(y > n)
        BY <1>3, <2>4
      <4> QED
        BY <1>3, <2>7, <3>1, <4>1 DEF BstInv
    <3> QED
      BY <1>3, <1>7, <3>2, <3>3 DEF BstInv
  <2> QED
    BY <2>11, <2>12
<1> QED
  BY <1>9, <1>10

\* Deleting keeps the invariant.
LEMMA DeleteKept ==
    ASSUME BstInv, delete
    PROVE  BstInv'
<1>1. PICK k \in Keys : /\ bstree_search(k) # 0 /\ bstree_delete(bstree_search(k))
                        /\ deleted' = deleted \cup {bstree_search(k)}
  BY DEF delete
<1>2. PICK x : x = bstree_search(k)
  OBVIOUS
<1>3. x \in Inside
  <2>1. k \in Int
    BY BstAssumption
  <2>2. Answers(k, x)
    BY <1>2, <2>1, BstFinds
  <2> QED
    BY <1>1, <1>2, <2>2 DEF Answers
<1>4. bstree_delete(x) /\ deleted' = deleted \cup {x} /\ key' = key /\ used' = used
  BY <1>1, <1>2 DEF delete
<1>5. Inside' = Inside \ {x} /\ deleted' \subseteq 1..used' /\ used' \in 0..MaxInsert /\ key' \in [Node -> Int]
  BY <1>3, <1>4 DEF BstInv, Inside
<1>6. tr \in TreeRecord /\ SoundRecord(Inside, tr, key) /\ key \in [Node -> Int] /\ Inside \in SUBSET Node
  BY BstFacts DEF BstInv
<1> DEFINE y == bstree_min(tr.right[x])
<1>7. y = Last(Within(Inside, tr.left), tr.right[x])
  BY DEF bstree_min, Live, Within
<1>8. tr' = CASE tr.left[x] = 0 -> bstree_transplant(tr, x, tr.right[x])
              [] tr.left[x] # 0 /\ tr.right[x] = 0 -> bstree_transplant(tr, x, tr.left[x])
              [] OTHER -> DeletesTwo(tr, x, y)
  BY <1>4 DEF bstree_delete, DeletesTwo, Lifted, Lifts, GivesLeft, GivesRight
<1> HIDE DEF y
<1>9. Deletes(Inside, x, tr, tr', key)
  <2>1. CASE tr.left[x] = 0
    <3>1. tr' = bstree_transplant(tr, x, tr.right[x])
      BY <1>8, <2>1
    <3> QED
      BY <1>3, <1>6, <2>1, <3>1, DeletesSingle
  <2>2. CASE tr.left[x] # 0 /\ tr.right[x] = 0
    <3>1. tr' = bstree_transplant(tr, x, tr.left[x])
      BY <1>8, <2>2
    <3> QED
      BY <1>3, <1>6, <2>2, <3>1, DeletesSingle
  <2>3. CASE tr.left[x] # 0 /\ tr.right[x] # 0
    <3>1. tr' = DeletesTwo(tr, x, y)
      BY <1>8, <2>3
    <3> QED
      BY <1>3, <1>6, <1>7, <2>3, <3>1, DeletesDouble
  <2> QED
    BY <2>1, <2>2, <2>3
<1>10. \A n \in Node : n > used' => tr'.left[n] = 0 /\ tr'.right[n] = 0
  <2>1. \A n \in Node : n > used => n \notin Inside
    BY SMTT(30) DEF BstInv, Inside, Node
  <2> QED
    BY <1>4, <1>9, <2>1 DEF BstInv, Deletes, Untouched
<1> QED
  BY <1>4, <1>5, <1>9, <1>10 DEF BstInv, Deletes

-----------------------------------------------------------------------------
(* What the invariant says of the walk. *)

\* A step of bstree_node_count.
LEMMA CountStep ==
    ASSUME NEW w, NEW top, Ranked(Live(tr.left), Live(tr.right), w, top)
    PROVE  /\ bstree_node_count(0) = 0
           /\ \A x \in Node : bstree_node_count(x)
                                = bstree_node_count(Live(tr.left)[x]) + bstree_node_count(Live(tr.right)[x]) + 1
<1> DEFINE l == Live(tr.left)
           r == Live(tr.right)
           c == [t \in Int \X Node \X Int |-> t[1] + t[3] + 1]
           Eq(f) == f = [y \in Pointer |-> IF y = 0 THEN 0 ELSE f[l[y]] + f[r[y]] + 1]
           g == CHOOSE f : Eq(f)
<1>1. \A x : bstree_node_count(x) = g[x]
  BY DEF bstree_node_count
<1>2. Ranked(l, r, w, top)
  OBVIOUS
<1> HIDE DEF l, r, g
<1>0. /\ 0 \in Pointer /\ 0 \notin Node /\ Pointer = Node \cup {0}
      /\ \A y \in Node : l[y] \in Pointer /\ r[y] \in Pointer
  <2>1. 0 \in Pointer /\ 0 \notin Node /\ Pointer = Node \cup {0}
    BY SMTT(30) DEF Pointer, Node
  <2> QED
    BY <1>2, <2>1 DEF Ranked
<1>3. PICK f \in [Pointer -> Int] : Recurs(l, r, 0, c, f)
  <2>1. \A a, b \in Int : a + b + 1 \in Int
    BY SMTT(30)
  <2>2. c \in [Int \X Node \X Int -> Int]
    BY <2>1
  <2>3. 0 \in Int
    BY SMTT(30)
  <2> HIDE DEF c
  <2> QED
    BY <1>2, <2>2, <2>3, TreeRecursion
<1>4. \A y \in Node : f[y] = f[l[y]] + f[r[y]] + 1
  <2> TAKE y \in Node
  <2>1. <<f[l[y]], y, f[r[y]]>> \in Int \X Node \X Int
    BY <1>0
  <2>2. c[<<f[l[y]], y, f[r[y]]>>] = f[l[y]] + f[r[y]] + 1
    BY <2>1
  <2> HIDE DEF c
  <2> QED
    BY <1>3, <2>2 DEF Recurs
<1>5. f[0] = 0
  <2> HIDE DEF c
  <2> QED
    BY <1>3 DEF Recurs
<1> HIDE DEF c
<1>6. \A y \in Pointer : f[y] = IF y = 0 THEN 0 ELSE f[l[y]] + f[r[y]] + 1
  BY <1>0, <1>4, <1>5
<1>7. Eq(f)
  BY <1>6
<1>8. Eq(g)
  <2> HIDE DEF Eq
  <2> QED
    BY <1>7 DEF g
<1>9. g[0] = 0 /\ \A y \in Node : g[y] = g[l[y]] + g[r[y]] + 1
  BY <1>0, <1>8
<1> QED
  BY <1>1, <1>9 DEF l, r

\* The walk is as long as bstree_node_count says.
LEMMA CountsWalk ==
    ASSUME NEW w, NEW top, Ranked(Live(tr.left), Live(tr.right), w, top), NEW x \in Pointer
    PROVE  Len(InOrder(Live(tr.left), Live(tr.right), x)) = bstree_node_count(x)
<1> DEFINE l == Live(tr.left)
           r == Live(tr.right)
           u(y) == InOrder(l, r, y)
           Good(y) == u(y) \in Seq(Node) /\ Len(u(y)) = bstree_node_count(y)
           Bad == {k \in Nat : \E y \in Pointer : w[y] = k /\ ~Good(y)}
<1>1. u(0) = <<>> /\ \A y \in Node : u(y) = u(l[y]) \o <<y>> \o u(r[y])
  BY WalkStep
<1>2. /\ bstree_node_count(0) = 0
      /\ \A y \in Node : bstree_node_count(y) = bstree_node_count(l[y]) + bstree_node_count(r[y]) + 1
  BY CountStep
<1>3. Ranked(l, r, w, top)
  OBVIOUS
<1> HIDE DEF l, r, u
<1>4. /\ 0 \in Pointer /\ 0 \notin Node /\ Pointer = Node \cup {0}
      /\ \A y \in Node : l[y] \in Pointer /\ r[y] \in Pointer /\ w[l[y]] < w[y] /\ w[r[y]] < w[y]
      /\ \A y \in Pointer : w[y] \in Nat
  <2>1. 0 \in Pointer /\ 0 \notin Node /\ Pointer = Node \cup {0} /\ 0..top \subseteq Nat
    BY <1>3, SMTT(30) DEF Ranked, Pointer, Node
  <2> QED
    BY <1>3, <2>1 DEF Ranked
<1>5. Good(0)
  <2>1. <<>> \in Seq(Node) /\ Len(<<>>) = 0
    BY SMTT(30)
  <2> QED
    BY <1>1, <1>2, <2>1
<1>6. \A y \in Node : Good(l[y]) /\ Good(r[y]) => Good(y)
  <2>1. \A s, t \in Seq(Node) : \A y \in Node :
           s \o <<y>> \o t \in Seq(Node) /\ Len(s \o <<y>> \o t) = Len(s) + Len(t) + 1
    BY SMTT(30)
  <2> SUFFICES ASSUME NEW y \in Node, Good(l[y]), Good(r[y]) PROVE Good(y)
    OBVIOUS
  <2>2. u(y) = u(l[y]) \o <<y>> \o u(r[y])
    BY <1>1
  <2>3. u(y) \in Seq(Node) /\ Len(u(y)) = Len(u(l[y])) + Len(u(r[y])) + 1
    <3>1. u(l[y]) \in Seq(Node) /\ u(r[y]) \in Seq(Node)
      OBVIOUS
    <3> HIDE DEF Good
    <3>2. /\ u(l[y]) \o <<y>> \o u(r[y]) \in Seq(Node)
          /\ Len(u(l[y]) \o <<y>> \o u(r[y])) = Len(u(l[y])) + Len(u(r[y])) + 1
      BY <2>1, <3>1
    <3> QED
      BY <2>2, <3>2
  <2>4. Len(u(l[y])) = bstree_node_count(l[y]) /\ Len(u(r[y])) = bstree_node_count(r[y])
    OBVIOUS
  <2>5. bstree_node_count(y) = bstree_node_count(l[y]) + bstree_node_count(r[y]) + 1
    BY <1>2
  <2> QED
    BY <2>3, <2>4, <2>5
<1> HIDE DEF Good
<1>7. Bad = {}
  <2> SUFFICES ASSUME Bad # {} PROVE FALSE
    OBVIOUS
  <2>1. PICK m \in Bad : \A k \in Bad : m <= k
    <3>1. Bad \in SUBSET Nat
      OBVIOUS
    <3> QED
      BY <3>1, Least
  <2>2. PICK y \in Pointer : w[y] = m /\ ~Good(y)
    BY <2>1
  <2>3. y \in Node /\ (~Good(l[y]) \/ ~Good(r[y]))
    BY <1>4, <1>5, <1>6, <2>2
  <2>4. w[l[y]] \in Bad \/ w[r[y]] \in Bad
    BY <1>4, <2>3
  <2>5. /\ w[l[y]] \in Nat /\ ~(m <= w[l[y]])
        /\ w[r[y]] \in Nat /\ ~(m <= w[r[y]])
    BY <1>4, <2>2, <2>3, SMTT(30)
  <2> QED
    BY <2>1, <2>4, <2>5
<1>8. Good(x)
  BY <1>4, <1>7
<1> QED
  BY <1>8 DEF Good, u, l, r

\* y is the first node of the tree, or the last one.
LEMMA SmallestLast ==
    ASSUME NEW K, NEW rt, NEW l, NEW r, NEW pa, Tree(K, rt, l, r, pa), rt # 0,
           NEW pos, NEW A, NEW B, Spanned(K, rt, l, r, pos, A, B)
    PROVE  Last(l, rt) \in K /\ \A k \in K : ~(pos[k] < pos[Last(l, rt)])
<1>1. PICK lo, hi : Spans(K, rt, l, r, pos, lo, hi, A, B)
  BY DEF Spanned
<1>2. PICK w, top : Ranked(l, r, w, top)
  BY TreeRanked
<1>3. Ranked(l, l, w, top)
  BY <1>2 DEF Ranked
<1>4. K \in SUBSET Node /\ rt \in K /\ \A k \in K : l[k] \in K \cup {0}
  BY DEF Tree
<1>5. /\ \A k \in K : lo[k] \in Int /\ pos[k] \in Int /\ A <= lo[k] /\ lo[k] < pos[k]
      /\ \A k \in K : l[k] # 0 => lo[l[k]] = lo[k]
      /\ \A k, j \in K : l[k] = 0 => ~(lo[k] < pos[j] /\ pos[j] < pos[k])
      /\ A \in Int /\ lo[rt] = A
  BY <1>1, <1>4 DEF Spans
<1> DEFINE S == {k \in K : lo[k] = A}
           y == Last(l, rt)
<1>6. y \in S /\ l[y] = 0
  <2>1. rt \in S /\ rt \in Node /\ S \in SUBSET Node /\ \A k \in S : l[k] # 0 => l[k] \in S
    BY <1>4, <1>5
  <2> HIDE DEF S
  <2> QED
    BY <1>3, <2>1, LastStops
<1>7. y \in K /\ lo[y] = A
  BY <1>6
<1> HIDE DEF y, S
<1>8. \A k \in K : A < pos[k]
  BY <1>5, SMTT(30)
<1>9. \A k \in K : ~(pos[k] < pos[y])
  BY <1>5, <1>6, <1>7, <1>8
<1> QED
  BY <1>7, <1>9 DEF y

Lowest(K, pos, y) == y \in K /\ \A k \in K : ~(pos[k] < pos[y])

Highest(K, pos, z) == z \in K /\ \A k \in K : ~(pos[z] < pos[k])

Between(K, pos, A, B) == K \in SUBSET Node /\ pos \in [Node -> Int] /\ \A k \in K : A < pos[k] /\ pos[k] < B

\* In a list by position the smallest node is the first, the largest node the last.
LEMMA EndsOfList ==
    ASSUME NEW K, NEW pos, NEW A, NEW B, NEW s, Lists(K, pos, A, B, s), Between(K, pos, A, B),
           NEW y, Lowest(K, pos, y), NEW z, Highest(K, pos, z)
    PROVE  s[1] = y /\ s[Len(s)] = z
<1>1. /\ s \in Seq(K) /\ \A k \in K : \E i \in 1..Len(s) : s[i] = k
      /\ \A i, j \in 1..Len(s) : i < j => pos[s[i]] < pos[s[j]]
  BY DEF Lists, Between
<1>2. Len(s) \in Nat /\ \A i \in 1..Len(s) : s[i] \in K
  BY <1>1, SMTT(30)
<1>3. \A i \in 1..Len(s) : 1 \in 1..Len(s) /\ Len(s) \in 1..Len(s) /\ (i = 1 \/ 1 < i) /\ (i = Len(s) \/ i < Len(s))
  BY <1>2, SMTT(30)
<1>4. s[1] = y
  <2>1. PICK i \in 1..Len(s) : s[i] = y
    BY <1>1 DEF Lowest, Highest
  <2>2. 1 < i => pos[s[1]] < pos[s[i]]
    BY <1>1, <1>3, <2>1
  <2>3. ~(pos[s[1]] < pos[y])
    BY <1>2, <1>3, <2>1 DEF Lowest
  <2> QED
    BY <1>3, <2>1, <2>2, <2>3
<1>5. s[Len(s)] = z
  <2>1. PICK i \in 1..Len(s) : s[i] = z
    BY <1>1 DEF Lowest, Highest
  <2>2. i < Len(s) => pos[s[i]] < pos[s[Len(s)]]
    BY <1>1, <1>3, <2>1
  <2>3. ~(pos[z] < pos[s[Len(s)]])
    BY <1>2, <1>3, <2>1 DEF Highest
  <2> QED
    BY <1>3, <2>1, <2>2, <2>3
<1> QED
  BY <1>4, <1>5

\* In every tree that the invariant allows, the walk is right.
LEMMA BstWalks ==
    ASSUME BstInv
    PROVE  WalkInOrder
<1> DEFINE l == Live(tr.left)
           r == Live(tr.right)
           s == bstree_inorder_walk
<1>1. /\ Sound(Inside, tr.root, l, r, Live(tr.p), key) /\ Tree(Inside, tr.root, l, r, Live(tr.p))
      /\ Inside \in SUBSET Node /\ tr.root \in Pointer /\ key \in [Node -> Int]
  BY BstFacts
<1>2. s = InOrder(l, r, tr.root)
  BY DEF bstree_inorder_walk
<1>3. PICK pos, A, B : Spanned(Inside, tr.root, l, r, pos, A, B) /\ InKeyOrder(Inside, pos, key)
  BY <1>1 DEF Sound
<1>4. Len(s) = bstree_node_count(tr.root)
  <2>1. PICK w, top : Ranked(l, r, w, top)
    BY <1>1, <1>3, TreeRanked
  <2> QED
    BY <1>1, <1>2, <2>1, CountsWalk
<1> HIDE DEF l, r, s
<1>5. Lists(Inside, pos, A, B, s)
  <2>1. \A x, y \in Inside : pos[x] = pos[y] => x = y
    BY <1>3 DEF InKeyOrder
  <2> QED
    BY <1>1, <1>2, <1>3, <2>1, WalkLists
<1>6. pos \in [Node -> Int] /\ \A k \in Inside : A < pos[k] /\ pos[k] < B
  <2>1. PICK lo, hi : Spans(Inside, tr.root, l, r, pos, lo, hi, A, B)
    BY <1>3 DEF Spanned
  <2>2. /\ pos \in [Node -> Int] /\ lo \in [Node -> Int] /\ hi \in [Node -> Int] /\ A \in Int /\ B \in Int
        /\ \A x \in Inside : A <= lo[x] /\ lo[x] < pos[x] /\ pos[x] < hi[x] /\ hi[x] <= B
    BY <2>1 DEF Spans
  <2> QED
    BY <1>1, <2>2, SMTT(30)
<1>7. /\ s \in Seq(Inside) /\ \A k \in Inside : \E i \in 1..Len(s) : s[i] = k
      /\ \A i, j \in 1..Len(s) : i < j => pos[s[i]] < pos[s[j]]
  BY <1>5, <1>6 DEF Lists
<1>8. DOMAIN s = 1..Len(s) /\ \A i \in 1..Len(s) : s[i] \in Inside
  BY <1>7, SMTT(30)
<1>9. {s[i] : i \in DOMAIN s} = Inside
  BY <1>7, <1>8
<1>10. \A i, j \in DOMAIN s : i < j => s[i] # s[j] /\ key[s[i]] <= key[s[j]]
  <2> SUFFICES ASSUME NEW i \in 1..Len(s), NEW j \in 1..Len(s), i < j
               PROVE  s[i] # s[j] /\ key[s[i]] <= key[s[j]]
    BY <1>8
  <2>1. pos[s[i]] < pos[s[j]] /\ s[i] \in Inside /\ s[j] \in Inside
    BY <1>7, <1>8
  <2>2. ~(pos[s[i]] < pos[s[i]])
    BY <1>1, <1>6, <2>1, SMTT(30)
  <2> QED
    BY <1>3, <2>1, <2>2 DEF InKeyOrder
<1>11. ASSUME tr.root # 0
       PROVE  bstree_min(tr.root) = s[1] /\ bstree_max(tr.root) = s[Len(s)]
  <2>1. Last(l, tr.root) \in Inside /\ \A k \in Inside : ~(pos[k] < pos[Last(l, tr.root)])
    BY <1>1, <1>3, <1>11, SmallestLast
  <2> DEFINE np == Negative(pos)
  <2>2. Tree(Inside, tr.root, r, l, Live(tr.p)) /\ Spanned(Inside, tr.root, r, l, np, 0 - B, 0 - A)
    BY <1>1, <1>3, TreeTurned, SpansTurned
  <2> HIDE DEF np
  <2>3. Last(r, tr.root) \in Inside /\ \A k \in Inside : ~(np[k] < np[Last(r, tr.root)])
    BY <1>11, <2>2, SmallestLast
  <2>4. \A k \in Inside : np[k] = 0 - pos[k] /\ pos[k] \in Int
    BY <1>1, <1>6 DEF np, Negative
  <2>5. \A k, j \in Inside : pos[j] < pos[k] => np[k] < np[j]
    BY <2>4, SMTT(30)
  <2>6. Last(r, tr.root) \in Inside /\ \A k \in Inside : ~(pos[Last(r, tr.root)] < pos[k])
    BY <2>3, <2>5
  <2>7. s[1] = Last(l, tr.root) /\ s[Len(s)] = Last(r, tr.root)
    <3>1. Lowest(Inside, pos, Last(l, tr.root)) /\ Highest(Inside, pos, Last(r, tr.root))
      BY <2>1, <2>6 DEF Lowest, Highest
    <3>2. Between(Inside, pos, A, B)
      BY <1>1, <1>6 DEF Between
    <3> QED
      BY <1>5, <3>1, <3>2, EndsOfList
  <2> QED
    BY <2>7 DEF bstree_min, bstree_max, l, r
<1> QED
  BY <1>4, <1>9, <1>10, <1>11 DEF WalkInOrder, s

\* After any insertions and deletions the walk of the binary search tree of
\* test_binary_search_tree.cpp lists exactly the nodes that are in it, in the order of
\* keys, and a search finds a key exactly if it is there; for any number of nodes.
THEOREM BstSearches == BstSpec => []Searches
<1>1. BstInit => BstInv
  <2> SUFFICES ASSUME BstInit PROVE BstInv
    OBVIOUS
  <2>1. tr = Quad(0, Nowhere, Nowhere, Nowhere) /\ key = Nowhere /\ used = 0 /\ deleted = {}
    BY DEF BstInit, Quad
  <2>2. /\ Nowhere \in [Node -> Pointer] /\ Nowhere \in [Node -> Int] /\ 0 \in Pointer
        /\ \A n \in Node : Nowhere[n] = 0
    BY SMTT(30) DEF Nowhere, Pointer
  <2>3. Inside = {} /\ 0 \in 0..MaxInsert
    BY <2>1, BstAssumption, SMTT(30) DEF Inside
  <2>4. tr.root = 0 /\ tr.left = Nowhere /\ tr.right = Nowhere /\ tr.p = Nowhere /\ tr \in TreeRecord
    BY <2>1, <2>2, SMTT(30) DEF TreeRecord, Quad
  <2>5. Within({}, Nowhere) = Nowhere
    BY DEF Within, Nowhere
  <2>6. Tree({}, 0, Nowhere, Nowhere, Nowhere)
    BY <2>2 DEF Tree, Nowhere
  <2>7. Spans({}, 0, Nowhere, Nowhere, Nowhere, Nowhere, Nowhere, 0, 0)
    <3>1. 0 \in Int
      BY SMTT(30)
    <3> QED
      BY <2>2, <3>1 DEF Spans
  <2>8. Sound({}, 0, Nowhere, Nowhere, Nowhere, Nowhere)
    BY <2>2, <2>6, <2>7 DEF Sound, Spanned, InKeyOrder
  <2> QED
    BY <2>1, <2>2, <2>3, <2>4, <2>5, <2>8 DEF BstInv, SoundRecord
<1>2. BstInv /\ [BstNext]_bstVars => BstInv'
  <2> SUFFICES ASSUME BstInv, [BstNext]_bstVars PROVE BstInv'
    OBVIOUS
  <2>1. CASE insert
    BY <2>1, InsertKept
  <2>2. CASE delete
    BY <2>2, DeleteKept
  <2>3. CASE UNCHANGED bstVars
    BY <2>3 DEF bstVars, BstInv, Inside
  <2> QED
    BY <2>1, <2>2, <2>3 DEF BstNext
<1>3. BstInv => Searches
  <2> SUFFICES ASSUME BstInv PROVE Searches
    OBVIOUS
  <2>1. WalkInOrder
    BY BstWalks
  <2>2. \A k \in Keys : Answers(k, bstree_search(k))
    BY BstAssumption, BstFinds
  <2>3. /\ Tree(Inside, tr.root, Live(tr.left), Live(tr.right), Live(tr.p)) /\ Inside \in SUBSET Node
    BY BstFacts
  <2>4. \A n \in Inside : Live(tr.left)[n] = tr.left[n] /\ Live(tr.right)[n] = tr.right[n] /\ Live(tr.p)[n] = tr.p[n]
    BY <2>3 DEF Live
  <2>5. tr.root # 0 => tr.root \in Inside /\ tr.p[tr.root] = 0
    BY <2>3, <2>4 DEF Tree
  <2>6. \A n \in Inside : \A c \in {tr.left[n], tr.right[n]} : c # 0 => c \in Inside /\ tr.p[c] = n
    <3> TAKE n \in Inside
    <3>1. /\ tr.left[n] \in Inside \cup {0} /\ tr.right[n] \in Inside \cup {0}
          /\ tr.left[n] # 0 => Live(tr.p)[tr.left[n]] = n
          /\ tr.right[n] # 0 => Live(tr.p)[tr.right[n]] = n
      <4>1. /\ Live(tr.left)[n] \in Inside \cup {0} /\ Live(tr.right)[n] \in Inside \cup {0}
            /\ Live(tr.left)[n] # 0 => Live(tr.p)[Live(tr.left)[n]] = n
            /\ Live(tr.right)[n] # 0 => Live(tr.p)[Live(tr.right)[n]] = n
        BY <2>3 DEF Tree
      <4> QED
        BY <2>4, <4>1
    <3>2. tr.left[n] # 0 => tr.left[n] \in Inside /\ tr.p[tr.left[n]] = n
      BY <2>4, <3>1
    <3>3. tr.right[n] # 0 => tr.right[n] \in Inside /\ tr.p[tr.right[n]] = n
      BY <2>4, <3>1
    <3> TAKE c \in {tr.left[n], tr.right[n]}
    <3>4. CASE c = tr.left[n]
      BY <3>2, <3>4
    <3>5. CASE c = tr.right[n]
      BY <3>3, <3>5
    <3> QED
      BY <3>4, <3>5
  <2> QED
    BY <2>1, <2>2, <2>5, <2>6 DEF Searches, Answers
<1> QED
  BY <1>1, <1>2, <1>3, PTL DEF BstSpec
=============================================================================
