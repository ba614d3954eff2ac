----------------------------- MODULE TreeProofs -----------------------------
(***************************************************************************)
(* Search trees, for any number of nodes, and the red-black trees.         *)
(***************************************************************************)
EXTENDS RbTree, WellFoundedInduction, TLAPS

USE NodesAssumption
USE ZenonT(30)

-----------------------------------------------------------------------------
(* Recursion over nodes whose rank gets smaller. *)

\* A set of natural numbers has a smallest one.
LEMMA Least ==
    ASSUME NEW S \in SUBSET Nat, S # {}
    PROVE  \E m \in S : \A k \in S : m <= k
<1> DEFINE R == OpToRel(<, Nat)
<1>1. IsWellFoundedOn(R, Nat)
  BY NatLessThanWellFounded
<1>2. \E m \in S : \A k \in S : <<k, m>> \notin R
  <2> HIDE DEF R
  <2> QED
    BY <1>1, WFMin
<1>3. \A k, m \in S : <<k, m>> \notin R => m <= k
  BY SMTT(30) DEF OpToRel
<1> QED
  BY <1>2, <1>3

\* The rank of a node is above those of its children; the null pointer has rank 0.
Ranked(l, r, w, top) ==
    /\ l \in [Node -> Pointer] /\ r \in [Node -> Pointer]
    /\ top \in Nat /\ w \in [Pointer -> 0..top] /\ w[0] = 0
    /\ \A x \in Node : w[l[x]] < w[x] /\ w[r[x]] < w[x]

Upto(w, k) == {x \in Pointer : w[x] <= k}

Solves(l, r, w, V, v0, c, k, f) ==
    /\ f \in [Upto(w, k) -> V]
    /\ f[0] = v0
    /\ \A x \in Upto(w, k) \ {0} : f[x] = c[<<f[l[x]], x, f[r[x]]>>]

\* f is defined by recursion over both children of a node.
Recurs(l, r, v0, c, f) ==
    f[0] = v0 /\ \A x \in Node : f[x] = c[<<f[l[x]], x, f[r[x]]>>]

\* A function that is defined by recursion over both children exists.
LEMMA TreeRecursion ==
    ASSUME NEW l, NEW r, NEW w, NEW top, Ranked(l, r, w, top),
           NEW V, NEW v0 \in V, NEW c \in [V \X Node \X V -> V]
    PROVE  \E f \in [Pointer -> V] : Recurs(l, r, v0, c, f)
<1> DEFINE Bad == {k \in Nat : ~\E f : Solves(l, r, w, V, v0, c, k, f)}
<1>0. /\ 0 \in Pointer /\ Pointer \ {0} = Node /\ Node \subseteq Pointer
      /\ \A x \in Pointer : w[x] \in Nat
  <2>1. 0 \in Pointer /\ Pointer \ {0} = Node /\ Node \subseteq Pointer /\ 0..top \subseteq Nat
    BY SMTT(30) DEF Pointer, Node, Ranked
  <2> QED
    BY <2>1 DEF Ranked
<1>1. Bad = {}
  <2> SUFFICES ASSUME Bad # {} PROVE FALSE
    OBVIOUS
  <2>1. PICK m \in Bad : \A k \in Bad : m <= k
    <3>1. Bad \in SUBSET Nat
      OBVIOUS
    <3> QED
      BY <3>1, Least
  <2>2. m # 0
    <3> DEFINE f == [x \in Upto(w, 0) |-> v0]
    <3>1. Upto(w, 0) = {0}
      BY <1>0, SMTT(30) DEF Upto, Ranked
    <3>2. Solves(l, r, w, V, v0, c, 0, f)
      BY <3>1 DEF Solves
    <3> QED
      BY <3>2
  <2>3. m - 1 \in Nat /\ m \in Nat /\ ~(m <= m - 1)
    BY <2>2, SMTT(30)
  <2>4. PICK f : Solves(l, r, w, V, v0, c, m - 1, f)
    BY <2>1, <2>3
  <2> DEFINE g == [x \in Upto(w, m) |-> IF x = 0 THEN v0 ELSE c[<<f[l[x]], x, f[r[x]]>>]]
  <2>5. /\ \A x \in Upto(w, m) \ {0} : x \in Node /\ l[x] \in Upto(w, m - 1) /\ r[x] \in Upto(w, m - 1)
        /\ Upto(w, m - 1) \subseteq Upto(w, m) /\ 0 \in Upto(w, m - 1)
    BY <1>0, <2>3, SMTT(30) DEF Upto, Ranked
  <2>6. \A x \in Upto(w, m - 1) : f[x] = g[x]
    BY <2>4, <2>5 DEF Solves
  <2>7. \A x \in Upto(w, m) \ {0} : c[<<f[l[x]], x, f[r[x]]>>] \in V
    <3> TAKE x \in Upto(w, m) \ {0}
    <3>1. f[l[x]] \in V /\ f[r[x]] \in V /\ x \in Node
      BY <2>4, <2>5 DEF Solves
    <3>2. <<f[l[x]], x, f[r[x]]>> \in V \X Node \X V
      BY <3>1
    <3> QED
      BY <3>2
  <2>8. g \in [Upto(w, m) -> V] /\ g[0] = v0
    BY <2>5, <2>7
  <2>9. \A x \in Upto(w, m) \ {0} : g[x] = c[<<g[l[x]], x, g[r[x]]>>]
    <3> TAKE x \in Upto(w, m) \ {0}
    <3>1. g[l[x]] = f[l[x]] /\ g[r[x]] = f[r[x]]
      BY <2>5, <2>6
    <3> QED
      BY <3>1
  <2>10. Solves(l, r, w, V, v0, c, m, g)
    <3> HIDE DEF g
    <3> QED
      BY <2>8, <2>9 DEF Solves
  <2> QED
    BY <2>1, <2>10
<1>2. top \in Nat
  BY DEF Ranked
<1>3. PICK f : Solves(l, r, w, V, v0, c, top, f)
  BY <1>1, <1>2
<1>4. Upto(w, top) = Pointer
  BY SMTT(30) DEF Upto, Ranked
<1> QED
  BY <1>0, <1>3, <1>4 DEF Solves, Recurs

\* A step of the loops that Last stands for.
LEMMA LastStep ==
    ASSUME NEW nx, NEW w, NEW top, Ranked(nx, nx, w, top)
    PROVE  \A x \in Node : Last(nx, x) = IF nx[x] = 0 THEN x ELSE Last(nx, nx[x])
<1>0. \A y \in Node : nx[y] \in Pointer /\ (nx[y] # 0 => nx[y] \in Node) /\ y # 0
  BY SMTT(30) DEF Ranked, Pointer, Node
<1> DEFINE c == [t \in Pointer \X Node \X Pointer |-> IF t[1] = 0 THEN t[2] ELSE t[1]]
           Eq(f) == f = [y \in Node |-> IF nx[y] = 0 THEN y ELSE f[nx[y]]]
<1>1. PICK f \in [Pointer -> Pointer] : Recurs(nx, nx, 0, c, f)
  <2>1. c \in [Pointer \X Node \X Pointer -> Pointer] /\ 0 \in Pointer
    BY SMTT(30) DEF Pointer, Node
  <2> HIDE DEF c
  <2> QED
    BY <2>1, TreeRecursion
<1>2. \A y \in Node : /\ nx[y] \in Pointer /\ (nx[y] # 0 => nx[y] \in Node) /\ y # 0
                      /\ f[y] = IF f[nx[y]] = 0 THEN y ELSE f[nx[y]]
  <2> TAKE y \in Node
  <2>1. nx[y] \in Pointer /\ (nx[y] # 0 => nx[y] \in Node) /\ y # 0
    BY <1>0
  <2>2. f[nx[y]] \in Pointer
    BY <2>1
  <2>3. <<f[nx[y]], y, f[nx[y]]>> \in Pointer \X Node \X Pointer
    BY <2>2
  <2>4. c[<<f[nx[y]], y, f[nx[y]]>>] = IF f[nx[y]] = 0 THEN y ELSE f[nx[y]]
    BY <2>3
  <2>5. f[y] = c[<<f[nx[y]], y, f[nx[y]]>>]
    <3> HIDE DEF c
    <3> QED
      BY <1>1 DEF Recurs
  <2> QED
    BY <2>1, <2>4, <2>5
<1> HIDE DEF c
<1>3. \A y \in Node : f[y] # 0
  BY <1>2
<1>4. \A y \in Node : f[y] = IF nx[y] = 0 THEN y ELSE f[nx[y]]
  BY <1>1, <1>2, <1>3 DEF Recurs
<1>5. Eq([y \in Node |-> f[y]])
  <2> DEFINE h == [y \in Node |-> f[y]]
  <2>1. \A y \in Node : h[y] = IF nx[y] = 0 THEN y ELSE h[nx[y]]
    BY <1>2, <1>4
  <2>2. h = [y \in Node |-> h[y]]
    OBVIOUS
  <2> HIDE DEF h
  <2>3. [y \in Node |-> h[y]] = [y \in Node |-> IF nx[y] = 0 THEN y ELSE h[nx[y]]]
    BY <2>1
  <2>4. Eq(h)
    BY <2>2, <2>3
  <2> QED
    BY <2>4 DEF h
<1>6. Eq(CHOOSE h : Eq(h))
  BY <1>5
<1> DEFINE g == CHOOSE h : Eq(h)
<1>7. \A x : Last(nx, x) = g[x]
  BY DEF Last
<1>8. \A y \in Node : g[y] = IF nx[y] = 0 THEN y ELSE g[nx[y]]
  BY <1>6
<1> HIDE DEF g
<1> QED
  BY <1>7, <1>8

\* Where these loops stop: at a node from which there is no next one, and inside
\* every set of nodes that the loop does not leave.
LEMMA LastStops ==
    ASSUME NEW nx, NEW w, NEW top, Ranked(nx, nx, w, top), NEW x \in Node,
           NEW S \in SUBSET Node, x \in S, \A y \in S : nx[y] # 0 => nx[y] \in S
    PROVE  Last(nx, x) \in S /\ nx[Last(nx, x)] = 0
<1>1. \A y \in Node : Last(nx, y) = IF nx[y] = 0 THEN y ELSE Last(nx, nx[y])
  BY LastStep
<1> DEFINE Stops(y) == Last(nx, y) \in S /\ nx[Last(nx, y)] = 0
           Bad == {k \in Nat : \E y \in S : w[y] = k /\ ~Stops(y)}
<1>2. \A y \in S : nx[y] = 0 \/ Stops(nx[y]) => Stops(y)
  BY <1>1
<1> HIDE DEF Stops
<1>3. Bad = {}
  <2> SUFFICES ASSUME Bad # {} PROVE FALSE
    OBVIOUS
  <2>1. PICK m \in Bad : \A k \in Bad : m <= k
    <3>1. Bad \in SUBSET Nat
      OBVIOUS
    <3> QED
      BY <3>1, Least
  <2>2. PICK y \in S : w[y] = m /\ ~Stops(y)
    BY <2>1
  <2>3. nx[y] # 0 /\ nx[y] \in S /\ ~Stops(nx[y])
    BY <1>2, <2>2
  <2>4. w[nx[y]] \in Nat /\ ~(m <= w[nx[y]])
    <3>1. nx[y] \in Pointer /\ w[nx[y]] < w[y]
      BY <2>2 DEF Ranked
    <3>2. w[nx[y]] \in Nat /\ m \in Nat
      BY <3>1, SMTT(30) DEF Ranked
    <3> QED
      BY <2>2, <3>1, <3>2, SMTT(30)
  <2> QED
    BY <2>1, <2>3, <2>4
<1>4. w[x] \in Nat
  BY SMTT(30) DEF Ranked, Node, Pointer
<1>5. Stops(x)
  BY <1>3, <1>4
<1> QED
  BY <1>5 DEF Stops

-----------------------------------------------------------------------------
(* Trees: the links agree with each other, and every node has an open      *)
(* interval of positions that its subtree lies in.  Turning a tree round,  *)
(* left for right, keeps both, so that one proof does for both rotations.  *)

\* The nodes K and their links make up a tree with root rt.
Tree(K, rt, l, r, pa) ==
    /\ K \subseteq Node /\ rt \in K \cup {0}
    /\ l \in [Node -> K \cup {0}] /\ r \in [Node -> K \cup {0}] /\ pa \in [Node -> K \cup {0}]
    /\ rt = 0 => K = {}
    /\ rt # 0 => pa[rt] = 0
    /\ \A x \in K : /\ pa[x] = 0 => x = rt
                    /\ pa[x] # 0 => l[pa[x]] = x \/ r[pa[x]] = x
                    /\ l[x] # 0 => pa[l[x]] = x
                    /\ r[x] # 0 => pa[r[x]] = x
    /\ \A x \in Node \ K : l[x] = 0 /\ r[x] = 0

\* lo and hi are the ends of the intervals for the positions pos of the nodes; A and
\* B are those of the whole tree.  Nothing lies where a child is missing.
Spans(K, rt, l, r, pos, lo, hi, A, B) ==
    /\ A \in Int /\ B \in Int
    /\ pos \in [Node -> Int] /\ lo \in [Node -> Int] /\ hi \in [Node -> Int]
    /\ \A x \in K : A <= lo[x] /\ lo[x] < pos[x] /\ pos[x] < hi[x] /\ hi[x] <= B
    /\ \A x \in K : l[x] # 0 => lo[l[x]] = lo[x] /\ hi[l[x]] = pos[x]
    /\ \A x \in K : r[x] # 0 => lo[r[x]] = pos[x] /\ hi[r[x]] = hi[x]
    /\ \A x, k \in K : l[x] = 0 => ~(lo[x] < pos[k] /\ pos[k] < pos[x])
    /\ \A x, k \in K : r[x] = 0 => ~(pos[x] < pos[k] /\ pos[k] < hi[x])
    /\ rt # 0 => lo[rt] = A /\ hi[rt] = B

Spanned(K, rt, l, r, pos, A, B) == \E lo, hi : Spans(K, rt, l, r, pos, lo, hi, A, B)

Negative(f) == [x \in Node |-> 0 - f[x]]

\* A tree turned round is a tree.
LEMMA TreeTurned ==
    ASSUME NEW K, NEW rt, NEW l, NEW r, NEW pa, Tree(K, rt, l, r, pa)
    PROVE  Tree(K, rt, r, l, pa)
BY DEF Tree

\* The positions of a tree that is turned round.
LEMMA SpansNegated ==
    ASSUME NEW K, NEW rt, NEW l, NEW r, NEW pa, Tree(K, rt, l, r, pa),
           NEW pos, NEW A, NEW B, NEW lo, NEW hi, Spans(K, rt, l, r, pos, lo, hi, A, B)
    PROVE  Spans(K, rt, r, l, Negative(pos), Negative(hi), Negative(lo), 0 - B, 0 - A)
<1>1. \A f \in [Node -> Int] : /\ Negative(f) \in [Node -> Int]
                               /\ \A x \in Node : Negative(f)[x] = 0 - f[x] /\ f[x] \in Int
  BY SMTT(30) DEF Negative
<1>2. /\ pos \in [Node -> Int] /\ lo \in [Node -> Int] /\ hi \in [Node -> Int] /\ A \in Int /\ B \in Int
      /\ \A x \in K : x \in Node /\ (l[x] # 0 => l[x] \in Node) /\ (r[x] # 0 => r[x] \in Node)
      /\ rt # 0 => rt \in Node
  BY SMTT(30) DEF Spans, Tree
<1>3. /\ \A x \in K : A <= lo[x] /\ lo[x] < pos[x] /\ pos[x] < hi[x] /\ hi[x] <= B
      /\ \A x \in K : l[x] # 0 => lo[l[x]] = lo[x] /\ hi[l[x]] = pos[x]
      /\ \A x \in K : r[x] # 0 => lo[r[x]] = pos[x] /\ hi[r[x]] = hi[x]
      /\ \A x, k \in K : l[x] = 0 => ~(lo[x] < pos[k] /\ pos[k] < pos[x])
      /\ \A x, k \in K : r[x] = 0 => ~(pos[x] < pos[k] /\ pos[k] < hi[x])
      /\ rt # 0 => lo[rt] = A /\ hi[rt] = B
  BY DEF Spans
<1> DEFINE np == Negative(pos)
           nl == Negative(lo)
           nh == Negative(hi)
<1>4. np \in [Node -> Int] /\ nl \in [Node -> Int] /\ nh \in [Node -> Int]
  BY <1>1, <1>2
<1>5. \A x \in Node : /\ np[x] = 0 - pos[x] /\ nl[x] = 0 - lo[x] /\ nh[x] = 0 - hi[x]
                      /\ pos[x] \in Int /\ lo[x] \in Int /\ hi[x] \in Int
  BY <1>1, <1>2
<1> HIDE DEF np, nl, nh
<1>6. /\ 0 - B \in Int /\ 0 - A \in Int
      /\ \A x \in K : 0 - B <= nh[x] /\ nh[x] < np[x] /\ np[x] < nl[x] /\ nl[x] <= 0 - A
  BY <1>2, <1>3, <1>5, SMTT(30)
<1>7. /\ \A x \in K : r[x] # 0 => nh[r[x]] = nh[x] /\ nl[r[x]] = np[x]
      /\ \A x \in K : l[x] # 0 => nh[l[x]] = np[x] /\ nl[l[x]] = nl[x]
      /\ rt # 0 => nh[rt] = 0 - B /\ nl[rt] = 0 - A
  BY <1>2, <1>3, <1>5, SMTT(30)
<1>8. \A x, k \in K : r[x] = 0 => ~(nh[x] < np[k] /\ np[k] < np[x])
  BY <1>2, <1>3, <1>5, SMTT(30)
<1>9. \A x, k \in K : l[x] = 0 => ~(np[x] < np[k] /\ np[k] < nl[x])
  BY <1>2, <1>3, <1>5, SMTT(30)
<1>10. Spans(K, rt, r, l, np, nh, nl, 0 - B, 0 - A)
  BY <1>4, <1>6, <1>7, <1>8, <1>9 DEF Spans
<1> QED
  BY <1>10 DEF np, nl, nh

\* So it has intervals, too.
LEMMA SpansTurned ==
    ASSUME NEW K, NEW rt, NEW l, NEW r, NEW pos, NEW A, NEW B, NEW pa, Tree(K, rt, l, r, pa),
           Spanned(K, rt, l, r, pos, A, B)
    PROVE  Spanned(K, rt, r, l, Negative(pos), 0 - B, 0 - A)
BY SpansNegated DEF Spanned

\* Turning a tree round twice.
LEMMA Twice ==
    ASSUME NEW f \in [Node -> Int]
    PROVE  Negative(Negative(f)) = f
BY SMTT(30) DEF Negative

\* A tree that is turned round has its intervals from the tree.
LEMMA TurnedBack ==
    ASSUME NEW K, NEW rt, NEW l, NEW r, NEW pa, Tree(K, rt, l, r, pa),
           NEW pos \in [Node -> Int], NEW A \in Int, NEW B \in Int,
           Spanned(K, rt, r, l, Negative(pos), 0 - B, 0 - A)
    PROVE  Spanned(K, rt, l, r, pos, A, B)
<1>1. Tree(K, rt, r, l, pa)
  BY TreeTurned
<1>2. Spanned(K, rt, l, r, Negative(Negative(pos)), 0 - (0 - A), 0 - (0 - B))
  BY <1>1, SpansTurned
<1>3. 0 - (0 - A) = A /\ 0 - (0 - B) = B
  BY SMTT(30)
<1> QED
  BY <1>2, <1>3, Twice

\* The links after a rotation at x, of which y is the child on the side of r.
Turns(x, y, rt, l, r, pa, rt2, l2, r2, pa2) ==
    /\ rt2 = IF pa[x] = 0 THEN y ELSE rt
    /\ l2 = [k \in Node |-> IF k = y THEN x ELSE IF k = pa[x] /\ l[k] = x THEN y ELSE l[k]]
    /\ r2 = [k \in Node |-> IF k = x THEN l[y] ELSE IF k = pa[x] /\ r[k] = x THEN y ELSE r[k]]
    /\ pa2 = [k \in Node |-> IF k = y THEN pa[x] ELSE IF k = x THEN y ELSE IF k = l[y] THEN x ELSE pa[k]]

\* The nodes around x are different ones.
Distinct(l, r, pa, x) ==
    /\ x \in Node /\ x # 0
    /\ l[x] # x /\ r[x] # x /\ pa[x] # x
    /\ l[x] # 0 => l[x] # r[x] /\ l[x] # pa[x]
    /\ r[x] # 0 => l[x] # r[x] /\ r[x] # pa[x]
    /\ pa[x] # 0 => l[pa[x]] # r[pa[x]]

\* Neighbours in a tree are different nodes.
LEMMA Apart ==
    ASSUME NEW K, NEW rt, NEW l, NEW r, NEW pa, Tree(K, rt, l, r, pa),
           NEW pos, NEW A, NEW B, Spanned(K, rt, l, r, pos, A, B),
           NEW x \in K
    PROVE  Distinct(l, r, pa, x)
<1>1. PICK lo, hi : Spans(K, rt, l, r, pos, lo, hi, A, B)
  BY DEF Spanned
<1>2. /\ x \in Node /\ x # 0 /\ lo[x] \in Int /\ pos[x] \in Int /\ hi[x] \in Int
      /\ lo[x] < pos[x] /\ pos[x] < hi[x]
  BY <1>1, SMTT(30) DEF Spans, Tree, Node
<1>3. \A y \in K : /\ y \in Node /\ lo[y] \in Int /\ pos[y] \in Int /\ hi[y] \in Int
                   /\ lo[y] < pos[y] /\ pos[y] < hi[y]
                   /\ l[y] # 0 => hi[l[y]] = pos[y] /\ lo[l[y]] = lo[y] /\ l[y] \in K
                   /\ r[y] # 0 => lo[r[y]] = pos[y] /\ hi[r[y]] = hi[y] /\ r[y] \in K
  BY <1>1, SMTT(30) DEF Spans, Tree
<1>4. pa[x] \in K \cup {0} /\ (pa[x] # 0 => l[pa[x]] = x \/ r[pa[x]] = x)
  BY <1>2 DEF Tree
<1> QED
  BY <1>2, <1>3, <1>4, SMTT(30) DEF Distinct

\* A rotation makes a tree of the same nodes.
LEMMA TurnedTree ==
    ASSUME NEW K, NEW rt, NEW l, NEW r, NEW pa, Tree(K, rt, l, r, pa),
           NEW pos, NEW A, NEW B, Spanned(K, rt, l, r, pos, A, B),
           NEW x \in K, r[x] # 0,
           NEW rt2, NEW l2, NEW r2, NEW pa2, Turns(x, r[x], rt, l, r, pa, rt2, l2, r2, pa2)
    PROVE  Tree(K, rt2, l2, r2, pa2)
<1> DEFINE y == r[x]
<1>1. /\ K \subseteq Node /\ rt \in K \cup {0}
      /\ \A k \in Node : l[k] \in K \cup {0} /\ r[k] \in K \cup {0} /\ pa[k] \in K \cup {0}
      /\ rt = 0 => K = {}
      /\ rt # 0 => pa[rt] = 0
      /\ \A k \in K : /\ pa[k] = 0 => k = rt
                      /\ pa[k] # 0 => l[pa[k]] = k \/ r[pa[k]] = k
                      /\ l[k] # 0 => pa[l[k]] = k
                      /\ r[k] # 0 => pa[r[k]] = k
      /\ \A k \in Node \ K : l[k] = 0 /\ r[k] = 0
  BY DEF Tree
<1>2. \A k \in K : Distinct(l, r, pa, k)
  BY Apart
<1>3. y \in K /\ y # x /\ pa[y] = x /\ x \in Node /\ y \in Node /\ pa[x] # y /\ l[y] # x
  BY <1>1, <1>2, SMTT(30) DEF Distinct
<1>4. \A k \in Node : /\ l2[k] = IF k = y THEN x ELSE IF k = pa[x] /\ l[k] = x THEN y ELSE l[k]
                      /\ r2[k] = IF k = x THEN l[y] ELSE IF k = pa[x] /\ r[k] = x THEN y ELSE r[k]
                      /\ pa2[k] = IF k = y THEN pa[x] ELSE IF k = x THEN y
                                  ELSE IF k = l[y] THEN x ELSE pa[k]
  BY DEF Turns
<1>5. /\ l2 \in [Node -> K \cup {0}] /\ r2 \in [Node -> K \cup {0}] /\ pa2 \in [Node -> K \cup {0}]
      /\ rt2 \in K \cup {0} /\ rt2 # 0 /\ rt2 = IF pa[x] = 0 THEN y ELSE rt
  BY <1>1, <1>2, <1>3 DEF Turns, Distinct
<1> HIDE DEF y
<1>6. pa2[rt2] = 0
  BY <1>1, <1>2, <1>3, <1>4, <1>5, SMTT(30) DEF Distinct
<1>7. \A k \in K : pa2[k] = 0 => k = rt2
  BY <1>1, <1>2, <1>3, <1>4, <1>5, SMTT(30) DEF Distinct
<1>8. \A k \in K : l2[k] # 0 => pa2[l2[k]] = k
  BY <1>1, <1>2, <1>3, <1>4, SMTT(30) DEF y, Distinct
<1>9. \A k \in K : r2[k] # 0 => pa2[r2[k]] = k
  BY <1>1, <1>2, <1>3, <1>4, SMTT(30) DEF y, Distinct
<1>10. \A k \in K : pa2[k] # 0 => l2[pa2[k]] = k \/ r2[pa2[k]] = k
  BY <1>1, <1>2, <1>3, <1>4, SMTT(30) DEF y, Distinct
<1>11. \A k \in Node \ K : l2[k] = 0 /\ r2[k] = 0
  BY <1>1, <1>2, <1>3, <1>4, SMTT(30) DEF Distinct
<1> QED
  BY <1>1, <1>5, <1>6, <1>7, <1>8, <1>9, <1>10, <1>11 DEF Tree

\* A rotation keeps the order of the nodes.
LEMMA TurnedSpans ==
    ASSUME NEW K, NEW rt, NEW l, NEW r, NEW pa, Tree(K, rt, l, r, pa),
           NEW pos, NEW A, NEW B, Spanned(K, rt, l, r, pos, A, B),
           NEW x \in K, r[x] # 0,
           NEW rt2, NEW l2, NEW r2, NEW pa2, Turns(x, r[x], rt, l, r, pa, rt2, l2, r2, pa2)
    PROVE  Spanned(K, rt2, l2, r2, pos, A, B)
<1> DEFINE y == r[x]
<1>1. /\ K \subseteq Node /\ rt \in K \cup {0}
      /\ \A k \in Node : l[k] \in K \cup {0} /\ r[k] \in K \cup {0} /\ pa[k] \in K \cup {0}
      /\ \A k \in K : /\ pa[k] = 0 => k = rt
                      /\ l[k] # 0 => pa[l[k]] = k
                      /\ r[k] # 0 => pa[r[k]] = k
      /\ rt # 0 => pa[rt] = 0
  BY DEF Tree
<1>2. \A k \in K : Distinct(l, r, pa, k)
  BY Apart
<1>3. y \in K /\ y # x /\ pa[y] = x /\ x \in Node /\ y \in Node /\ pa[x] # y /\ l[y] # x
  BY <1>1, <1>2, SMTT(30) DEF Distinct
<1>4. \A k \in Node : /\ l2[k] = IF k = y THEN x ELSE IF k = pa[x] /\ l[k] = x THEN y ELSE l[k]
                      /\ r2[k] = IF k = x THEN l[y] ELSE IF k = pa[x] /\ r[k] = x THEN y ELSE r[k]
  BY DEF Turns
<1>5. rt2 = IF pa[x] = 0 THEN y ELSE rt
  BY DEF Turns
<1>6. PICK lo, hi : Spans(K, rt, l, r, pos, lo, hi, A, B)
  BY DEF Spanned
<1>7. /\ A \in Int /\ B \in Int
      /\ pos \in [Node -> Int] /\ lo \in [Node -> Int] /\ hi \in [Node -> Int]
      /\ \A k \in K : A <= lo[k] /\ lo[k] < pos[k] /\ pos[k] < hi[k] /\ hi[k] <= B
      /\ \A k \in K : l[k] # 0 => lo[l[k]] = lo[k] /\ hi[l[k]] = pos[k]
      /\ \A k \in K : r[k] # 0 => lo[r[k]] = pos[k] /\ hi[r[k]] = hi[k]
      /\ \A k, j \in K : l[k] = 0 => ~(lo[k] < pos[j] /\ pos[j] < pos[k])
      /\ \A k, j \in K : r[k] = 0 => ~(pos[k] < pos[j] /\ pos[j] < hi[k])
      /\ rt # 0 => lo[rt] = A /\ hi[rt] = B
  BY <1>6 DEF Spans
<1> DEFINE lo2 == [k \in Node |-> IF k = y THEN lo[x] ELSE lo[k]]
           hi2 == [k \in Node |-> IF k = x THEN pos[y] ELSE hi[k]]
<1>8. lo2 \in [Node -> Int] /\ hi2 \in [Node -> Int]
  BY <1>3, <1>7
<1>9. \A k \in K : /\ lo2[k] = IF k = y THEN lo[x] ELSE lo[k]
                   /\ hi2[k] = IF k = x THEN pos[y] ELSE hi[k]
                   /\ lo[k] \in Int /\ hi[k] \in Int /\ pos[k] \in Int
  BY <1>2, <1>7 DEF Distinct
<1>10. lo[y] = pos[x] /\ hi[y] = hi[x]
  BY <1>3, <1>7
<1> HIDE DEF lo2, hi2
<1>11. \A k \in K : A <= lo2[k] /\ lo2[k] < pos[k] /\ pos[k] < hi2[k] /\ hi2[k] <= B
  BY <1>3, <1>7, <1>9, <1>10, SMTT(30) DEF Distinct
<1>12. \A k \in K : l2[k] # 0 => lo2[l2[k]] = lo2[k] /\ hi2[l2[k]] = pos[k]
  BY <1>1, <1>2, <1>3, <1>4, <1>7, <1>9, <1>10, SMTT(30) DEF Distinct
<1>13. \A k \in K : r2[k] # 0 => lo2[r2[k]] = pos[k] /\ hi2[r2[k]] = hi2[k]
  BY <1>1, <1>2, <1>3, <1>4, <1>7, <1>9, <1>10, SMTT(30) DEF Distinct
<1>14. \A k, j \in K : l2[k] = 0 => ~(lo2[k] < pos[j] /\ pos[j] < pos[k])
  BY <1>2, <1>3, <1>4, <1>7, <1>9, <1>10, SMTT(30) DEF Distinct
<1>15. \A k, j \in K : r2[k] = 0 => ~(pos[k] < pos[j] /\ pos[j] < hi2[k])
  BY <1>2, <1>3, <1>4, <1>7, <1>9, <1>10, SMTT(30) DEF Distinct
<1>16. rt2 # 0 => lo2[rt2] = A /\ hi2[rt2] = B
  BY <1>1, <1>2, <1>3, <1>5, <1>7, <1>9, <1>10, SMTT(30) DEF Distinct
<1>17. Spans(K, rt2, l2, r2, pos, lo2, hi2, A, B)
  BY <1>7, <1>8, <1>11, <1>12, <1>13, <1>14, <1>15, <1>16 DEF Spans
<1> QED
  BY <1>17 DEF Spanned

\* Every way down from a black node to a null pointer passes as many black nodes.
Heights(K, l, r, rd, h) ==
    /\ h \in [Pointer -> Nat] /\ h[0] = 0
    /\ \A x \in K : h[l[x]] = h[r[x]] /\ h[x] = h[l[x]] + (IF rd[x] THEN 0 ELSE 1)

Balanced(K, l, r, rd) == \E h : Heights(K, l, r, rd, h)

\* The colours after a rotation.
Recolours(x, y, rd, rd2) ==
    \A k \in Node : rd2[k] = IF k = x THEN TRUE ELSE IF k = y THEN rd[x] ELSE rd[k]

\* A rotation with a red child keeps the black heights.
LEMMA TurnedHeights ==
    ASSUME NEW K, NEW rt, NEW l, NEW r, NEW pa, Tree(K, rt, l, r, pa),
           \A k \in K : Distinct(l, r, pa, k), NEW x \in K, r[x] # 0,
           NEW rt2, NEW l2, NEW r2, NEW pa2, Turns(x, r[x], rt, l, r, pa, rt2, l2, r2, pa2),
           NEW rd \in [Node -> BOOLEAN], NEW rd2, rd[r[x]],
           Recolours(x, r[x], rd, rd2), Balanced(K, l, r, rd)
    PROVE  Balanced(K, l2, r2, rd2)
<1> DEFINE y == r[x]
<1>1. /\ K \subseteq Node
      /\ \A k \in Node : l[k] \in K \cup {0} /\ r[k] \in K \cup {0} /\ pa[k] \in K \cup {0}
      /\ \A k \in K : /\ l[k] # 0 => pa[l[k]] = k
                      /\ r[k] # 0 => pa[r[k]] = k
  BY DEF Tree
<1>2. \A k \in K : Distinct(l, r, pa, k)
  OBVIOUS
<1>3. y \in K /\ y # x /\ pa[y] = x /\ x \in Node /\ y \in Node /\ pa[x] # y /\ l[y] # x /\ rd[y]
  BY <1>1, <1>2, SMTT(30) DEF Distinct
<1>4. \A k \in Node : /\ l2[k] = IF k = y THEN x ELSE IF k = pa[x] /\ l[k] = x THEN y ELSE l[k]
                      /\ r2[k] = IF k = x THEN l[y] ELSE IF k = pa[x] /\ r[k] = x THEN y ELSE r[k]
  BY DEF Turns
<1>5. \A k \in Node : rd2[k] = IF k = x THEN TRUE ELSE IF k = y THEN rd[x] ELSE rd[k]
  BY DEF Recolours
<1>6. PICK h : Heights(K, l, r, rd, h)
  BY DEF Balanced
<1>7. /\ h \in [Pointer -> Nat] /\ h[0] = 0 /\ 0 \in Pointer /\ K \subseteq Pointer /\ 0 \notin K
      /\ \A k \in K : h[l[k]] = h[r[k]] /\ h[k] = h[l[k]] + (IF rd[k] THEN 0 ELSE 1)
  BY <1>1, <1>6, SMTT(30) DEF Heights, Node, Pointer
<1> DEFINE g == [k \in Pointer |-> IF k = x THEN h[l[x]] ELSE IF k = y THEN h[x] ELSE h[k]]
<1>8. g \in [Pointer -> Nat] /\ g[0] = 0
  BY <1>1, <1>3, <1>7, SMTT(30)
<1>9. \A k \in K \cup {0} : g[k] = IF k = x THEN h[l[x]] ELSE IF k = y THEN h[x] ELSE h[k]
  BY <1>7
<1>10. \A k \in K \cup {0} : h[k] \in Nat
  BY <1>7
<1> HIDE DEF g, y
<1>11. /\ h[r[x]] = h[y] /\ h[l[x]] = h[y] /\ h[l[y]] = h[y] /\ h[r[y]] = h[y]
       /\ h[x] = h[y] + (IF rd[x] THEN 0 ELSE 1) /\ l[x] \in K \cup {0} /\ l[y] \in K \cup {0}
       /\ r[y] \in K \cup {0} /\ r[x] = y
  BY <1>1, <1>3, <1>7, <1>10, SMTT(30) DEF y
<1>12. \A k \in K : g[l2[k]] = g[r2[k]] /\ g[k] = g[l2[k]] + (IF rd2[k] THEN 0 ELSE 1)
  <2> TAKE k \in K
  <2>1. CASE k = x
    <3>1. l2[x] = l[x] /\ r2[x] = l[y] /\ l[x] # x /\ l[x] # y /\ l[y] # x /\ l[y] # y
      BY <1>2, <1>3, <1>4, <1>11, SMTT(30) DEF Distinct
    <3>2. g[l2[x]] = h[y] /\ g[r2[x]] = h[y] /\ g[x] = h[y]
      <4>1. g[l[x]] = h[l[x]] /\ g[l[y]] = h[l[y]]
        BY <1>9, <1>11, <3>1
      <4>2. g[x] = h[l[x]]
        BY <1>9
      <4> QED
        BY <1>11, <3>1, <4>1, <4>2
    <3>3. rd2[x] /\ h[y] \in Nat
      BY <1>3, <1>5, <1>10
    <3> QED
      BY <2>1, <3>2, <3>3, SMTT(30)
  <2>2. CASE k = y
    <3>1. l2[y] = x /\ r2[y] = r[y] /\ r[y] # y /\ r[y] # x
      BY <1>1, <1>2, <1>3, <1>4, SMTT(30) DEF Distinct
    <3>2. g[l2[y]] = h[y] /\ g[r2[y]] = h[y] /\ g[y] = h[x]
      BY <1>3, <1>9, <1>11, <3>1
    <3>3. rd2[y] = rd[x]
      BY <1>3, <1>5
    <3> QED
      BY <1>11, <2>2, <3>2, <3>3
  <2>3. CASE k # x /\ k # y
    <3>1. /\ rd2[k] = rd[k] /\ g[k] = h[k]
          /\ h[l[k]] = h[r[k]] /\ h[k] = h[l[k]] + (IF rd[k] THEN 0 ELSE 1)
      BY <1>1, <1>5, <1>7, <1>9, <2>3
    <3>2. l[k] # y /\ r[k] # y
      BY <1>1, <1>2, <1>3, <2>3, SMTT(30) DEF Distinct
    <3>3. g[l2[k]] = h[l[k]]
      BY <1>1, <1>2, <1>3, <1>4, <1>9, <2>3, <3>2, SMTT(30) DEF Distinct
    <3>4. g[r2[k]] = h[r[k]]
      BY <1>1, <1>2, <1>3, <1>4, <1>9, <2>3, <3>2, SMTT(30) DEF Distinct
    <3> QED
      BY <3>1, <3>3, <3>4
  <2> QED
    BY <2>1, <2>2, <2>3
<1>13. Heights(K, l2, r2, rd2, g)
  BY <1>8, <1>12 DEF Heights
<1> QED
  BY <1>13 DEF Balanced

-----------------------------------------------------------------------------
(* Going down a tree. *)

\* The length of its interval is the rank of a node.
LEMMA TreeRanked ==
    ASSUME NEW K, NEW rt, NEW l, NEW r, NEW pa, Tree(K, rt, l, r, pa),
           NEW pos, NEW A, NEW B, Spanned(K, rt, l, r, pos, A, B)
    PROVE  \E w, top : Ranked(l, r, w, top)
<1>1. PICK lo, hi : Spans(K, rt, l, r, pos, lo, hi, A, B)
  BY DEF Spanned
<1>2. /\ K \subseteq Node /\ Node \subseteq Pointer /\ 0 \in Pointer /\ 0 \notin Node
      /\ \A x \in Node : l[x] \in K \cup {0} /\ r[x] \in K \cup {0}
      /\ l \in [Node -> Pointer] /\ r \in [Node -> Pointer]
      /\ \A x \in Node \ K : l[x] = 0 /\ r[x] = 0
  <2>1. Node \subseteq Pointer /\ 0 \in Pointer /\ 0 \notin Node
    BY SMTT(30) DEF Node, Pointer
  <2> QED
    BY <2>1, SMTT(30) DEF Tree
<1>3. /\ \A x \in K : lo[x] \in Int /\ hi[x] \in Int /\ pos[x] \in Int /\ A \in Int /\ B \in Int
      /\ \A x \in K : A <= lo[x] /\ lo[x] < pos[x] /\ pos[x] < hi[x] /\ hi[x] <= B
      /\ \A x \in K : l[x] # 0 => lo[l[x]] = lo[x] /\ hi[l[x]] = pos[x]
      /\ \A x \in K : r[x] # 0 => lo[r[x]] = pos[x] /\ hi[r[x]] = hi[x]
  BY <1>1, <1>2 DEF Spans
<1> DEFINE w == [x \in Pointer |-> IF x = 0 THEN 0 ELSE IF x \in K THEN hi[x] - lo[x] ELSE 1]
           top == IF B - A >= 1 THEN B - A ELSE 1
<1>4. top \in Nat /\ 1 <= top /\ \A x \in K : hi[x] - lo[x] \in 0..top
  BY <1>1, <1>3, SMTT(30) DEF Spans
<1>5. w[0] = 0 /\ \A x \in Node : w[x] = IF x \in K THEN hi[x] - lo[x] ELSE 1
  BY <1>2
<1>6. w \in [Pointer -> 0..top]
  BY <1>4, SMTT(30)
<1> HIDE DEF w, top
<1>7. \A x \in Node : w[l[x]] < w[x] /\ w[r[x]] < w[x]
  <2> TAKE x \in Node
  <2>1. w[l[x]] < w[x]
    BY <1>2, <1>3, <1>5, SMTT(30)
  <2>2. w[r[x]] < w[x]
    BY <1>2, <1>3, <1>5, SMTT(30)
  <2> QED
    BY <2>1, <2>2
<1>8. Ranked(l, r, w, top)
  BY <1>2, <1>4, <1>5, <1>6, <1>7 DEF Ranked
<1> QED
  BY <1>8

\* A loop goes down the tree if it goes on to a child.
LEMMA WayRanked ==
    ASSUME NEW l, NEW r, NEW w, NEW top, Ranked(l, r, w, top), NEW nx,
           nx \in [Node -> Pointer], \A x \in Node : nx[x] \in {0, l[x], r[x]}
    PROVE  Ranked(nx, nx, w, top)
<1>1. \A x \in Node : w[nx[x]] < w[x]
  <2> TAKE x \in Node
  <2>1. /\ l[x] \in Pointer /\ x \in Pointer /\ w[l[x]] \in Nat /\ w[x] \in Nat /\ w[l[x]] < w[x] /\ w[r[x]] < w[x]
        /\ w[0] = 0
    BY SMTT(30) DEF Ranked, Node, Pointer
  <2>2. nx[x] = 0 \/ nx[x] = l[x] \/ nx[x] = r[x]
    OBVIOUS
  <2>3. 0 < w[x]
    BY <2>1, SMTT(30)
  <2> QED
    BY <2>1, <2>2, <2>3
<1> QED
  BY <1>1 DEF Ranked

\* The node x is above the position of n.
Above(pos, lo, hi, n, x) == lo[x] < pos[n] /\ pos[n] < hi[x]

\* nx goes down from every node towards the position of n, and stops at n.
Seeks(K, l, r, pos, n, nx) ==
    /\ nx \in [Node -> Pointer] /\ \A x \in Node : nx[x] \in {0, l[x], r[x]}
    /\ \A x \in K : nx[x] = IF x = n THEN 0 ELSE IF pos[n] < pos[x] THEN l[x] ELSE r[x]

EndsAt(K, pos, lo, hi, n, nx, y) ==
    /\ y \in K /\ nx[y] = 0 /\ Above(pos, lo, hi, n, y)
    /\ \A x \in K : Above(pos, lo, hi, n, x) /\ nx[x] = 0 => x = y
    /\ n \in K => y = n

\* A search ends at a node above the position, which is the only such one without a
\* next node; this is n itself if n is in the tree.
LEMMA SearchEnds ==
    ASSUME NEW K, NEW rt, NEW l, NEW r, NEW pa, Tree(K, rt, l, r, pa), rt # 0,
           NEW pos, NEW A, NEW B, NEW lo, NEW hi, Spans(K, rt, l, r, pos, lo, hi, A, B),
           NEW n \in Node, A < pos[n], pos[n] < B, \A x \in K : pos[x] = pos[n] => x = n,
           NEW nx, Seeks(K, l, r, pos, n, nx)
    PROVE  EndsAt(K, pos, lo, hi, n, nx, Last(nx, rt))
<1>1. PICK w, top : Ranked(l, r, w, top)
  BY TreeRanked DEF Spanned
<1>2. Ranked(nx, nx, w, top)
  BY <1>1, WayRanked DEF Seeks
<1> DEFINE C == {x \in K : Above(pos, lo, hi, n, x)}
<1>3. /\ K \subseteq Node /\ rt \in K
      /\ \A x \in K : l[x] \in K \cup {0} /\ r[x] \in K \cup {0} /\ pa[x] \in K \cup {0}
      /\ \A x \in K : /\ pa[x] = 0 => x = rt
                      /\ pa[x] # 0 => l[pa[x]] = x \/ r[pa[x]] = x
  BY DEF Tree
<1>4. /\ \A x \in K : lo[x] \in Int /\ hi[x] \in Int /\ pos[x] \in Int
      /\ pos[n] \in Int /\ A \in Int /\ B \in Int
      /\ \A x \in K : A <= lo[x] /\ lo[x] < pos[x] /\ pos[x] < hi[x] /\ hi[x] <= B
      /\ \A x \in K : l[x] # 0 => lo[l[x]] = lo[x] /\ hi[l[x]] = pos[x]
      /\ \A x \in K : r[x] # 0 => lo[r[x]] = pos[x] /\ hi[r[x]] = hi[x]
      /\ \A x, k \in K : l[x] = 0 => ~(lo[x] < pos[k] /\ pos[k] < pos[x])
      /\ \A x, k \in K : r[x] = 0 => ~(pos[x] < pos[k] /\ pos[k] < hi[x])
      /\ lo[rt] = A /\ hi[rt] = B
  BY <1>3 DEF Spans
<1>5. \A x \in K : nx[x] = IF x = n THEN 0 ELSE IF pos[n] < pos[x] THEN l[x] ELSE r[x]
  BY DEF Seeks
<1>6. rt \in C /\ \A x \in C : nx[x] # 0 => nx[x] \in C
  BY <1>3, <1>4, <1>5, SMTT(30) DEF Above
<1>7. Last(nx, rt) \in C /\ nx[Last(nx, rt)] = 0
  BY <1>2, <1>3, <1>6, LastStops
<1>8. \A x \in Node : Last(nx, x) = IF nx[x] = 0 THEN x ELSE Last(nx, nx[x])
  BY <1>2, LastStep
<1>9. \A x \in C : x # rt => pa[x] \in C /\ nx[pa[x]] = x
  <2> SUFFICES ASSUME NEW x \in C, x # rt PROVE pa[x] \in C /\ nx[pa[x]] = x
    OBVIOUS
  <2>1. x \in K /\ x # 0 /\ lo[x] < pos[n] /\ pos[n] < hi[x]
    BY <1>3, SMTT(30) DEF Above, Node
  <2> DEFINE q == pa[x]
  <2>2. q \in K /\ (l[q] = x \/ r[q] = x)
    BY <1>3, <2>1
  <2> HIDE DEF q
  <2>3. CASE l[q] = x
    <3>1. lo[x] = lo[q] /\ hi[x] = pos[q]
      BY <1>4, <2>1, <2>2, <2>3
    <3>2. pos[n] < pos[q] /\ Above(pos, lo, hi, n, q) /\ q # n
      BY <1>4, <2>1, <2>2, <3>1, SMTT(30) DEF Above
    <3>3. nx[q] = x
      BY <1>5, <2>2, <2>3, <3>2
    <3> QED
      BY <2>2, <3>2, <3>3 DEF q
  <2>4. CASE r[q] = x
    <3>1. lo[x] = pos[q] /\ hi[x] = hi[q]
      BY <1>4, <2>1, <2>2, <2>4
    <3>2. ~(pos[n] < pos[q]) /\ Above(pos, lo, hi, n, q) /\ q # n
      BY <1>4, <2>1, <2>2, <3>1, SMTT(30) DEF Above
    <3>3. nx[q] = x
      BY <1>5, <2>2, <2>4, <3>2
    <3> QED
      BY <2>2, <3>2, <3>3 DEF q
  <2> QED
    BY <2>2, <2>3, <2>4
<1> DEFINE Bad == {k \in Nat : \E x \in C : k = top - w[x] /\ Last(nx, x) # Last(nx, rt)}
<1>11. \A x \in C : Last(nx, x) = Last(nx, rt)
  <2>1. \A x \in Pointer : w[x] \in Nat /\ w[x] <= top /\ top \in Nat
    BY <1>1, SMTT(30) DEF Ranked
  <2>2. \A x \in C : x \in Node /\ x \in Pointer
    BY <1>3, SMTT(30) DEF Node, Pointer
  <2>3. \A x \in C : top - w[x] \in Nat
    BY <2>1, <2>2, SMTT(30)
  <2> SUFFICES ASSUME NEW z \in C, Last(nx, z) # Last(nx, rt) PROVE FALSE
    OBVIOUS
  <2>4. Bad # {} /\ Bad \in SUBSET Nat
    BY <2>3
  <2>5. PICK m \in Bad : \A k \in Bad : m <= k
    BY <2>4, Least
  <2>6. PICK x \in C : m = top - w[x] /\ Last(nx, x) # Last(nx, rt)
    BY <2>5
  <2>7. pa[x] \in C /\ nx[pa[x]] = x /\ x # 0
    BY <1>9, <2>2, <2>6, SMTT(30) DEF Node
  <2>8. Last(nx, pa[x]) = Last(nx, x)
    BY <1>8, <2>2, <2>7
  <2>9. w[x] < w[pa[x]]
    BY <1>2, <2>2, <2>7 DEF Ranked
  <2>10. top - w[pa[x]] \in Nat /\ ~(m <= top - w[pa[x]])
    BY <2>1, <2>2, <2>6, <2>7, <2>9, SMTT(30)
  <2>11. top - w[pa[x]] \in Bad
    BY <2>6, <2>7, <2>8, <2>10
  <2> QED
    BY <2>5, <2>10, <2>11
<1>12. \A x \in K : Above(pos, lo, hi, n, x) /\ nx[x] = 0 => x = Last(nx, rt)
  <2> SUFFICES ASSUME NEW x \in K, Above(pos, lo, hi, n, x), nx[x] = 0 PROVE x = Last(nx, rt)
    OBVIOUS
  <2>1. x \in C /\ x \in Node
    BY <1>3
  <2> QED
    BY <1>8, <1>11, <2>1
<1>13. n \in K => Last(nx, rt) = n
  <2> SUFFICES ASSUME n \in K PROVE Last(nx, rt) = n
    OBVIOUS
  <2>1. Above(pos, lo, hi, n, n) /\ nx[n] = 0
    BY <1>4, <1>5, SMTT(30) DEF Above
  <2> QED
    BY <1>12, <2>1
<1> QED
  BY <1>7, <1>12, <1>13 DEF EndsAt

Put(f, y, n) == [f EXCEPT ![y] = n]

\* A new leaf n at the side of r of y, which takes up the place of n's position.
LEMMA LeafTree ==
    ASSUME NEW K, NEW rt, NEW l, NEW r, NEW pa, Tree(K, rt, l, r, pa),
           NEW n \in Node \ K, NEW y \in K, r[y] = 0, rt # 0
    PROVE  Tree(K \cup {n}, rt, l, Put(r, y, n), Put(pa, n, y))
<1> DEFINE r2 == [r EXCEPT ![y] = n]
           p2 == [pa EXCEPT ![n] = y]
           J == K \cup {n}
<1>1. /\ K \subseteq Node /\ rt \in K /\ n \in Node /\ n \notin K /\ y \in Node /\ n # 0 /\ y # 0
      /\ \A k \in Node : l[k] \in K \cup {0} /\ r[k] \in K \cup {0} /\ pa[k] \in K \cup {0}
      /\ pa[rt] = 0 /\ l[n] = 0 /\ r[n] = 0
      /\ \A k \in K : /\ pa[k] = 0 => k = rt
                      /\ pa[k] # 0 => l[pa[k]] = k \/ r[pa[k]] = k
                      /\ l[k] # 0 => pa[l[k]] = k
                      /\ r[k] # 0 => pa[r[k]] = k
      /\ \A k \in Node \ K : l[k] = 0 /\ r[k] = 0
  BY SMTT(30) DEF Tree, Node
<1>2. /\ l \in [Node -> J \cup {0}] /\ r2 \in [Node -> J \cup {0}] /\ p2 \in [Node -> J \cup {0}]
      /\ \A k \in Node : /\ r2[k] = IF k = y THEN n ELSE r[k]
                         /\ p2[k] = IF k = n THEN y ELSE pa[k]
  BY SMTT(30) DEF Tree
<1> HIDE DEF r2, p2
<1>3. \A k \in J : /\ p2[k] = 0 => k = rt
                   /\ p2[k] # 0 => l[p2[k]] = k \/ r2[p2[k]] = k
  <2>1. p2[n] = y /\ r2[y] = n /\ y # 0
    BY <1>1, <1>2
  <2>2. \A k \in K : k \in Node /\ k # 0 /\ k # n /\ p2[k] = pa[k] /\ pa[k] \in K \cup {0}
    BY <1>1, <1>2, SMTT(30) DEF Node
  <2>3. \A k \in K : r2[k] = r[k] \/ k = y
    BY <1>2, <2>2
  <2>4. \A k \in K : p2[k] # 0 => l[p2[k]] = k \/ r2[p2[k]] = k
    <3> SUFFICES ASSUME NEW k \in K, pa[k] # 0 PROVE l[pa[k]] = k \/ r2[pa[k]] = k
      BY <2>2
    <3>1. pa[k] \in K /\ (l[pa[k]] = k \/ r[pa[k]] = k)
      BY <1>1, <2>2
    <3>2. pa[k] = y => r[pa[k]] # k
      BY <2>2, r[y] = 0
    <3> QED
      BY <2>3, <3>1, <3>2
  <2> QED
    BY <1>1, <2>1, <2>2, <2>4
<1>4. \A k \in J : /\ l[k] # 0 => p2[l[k]] = k
                   /\ r2[k] # 0 => p2[r2[k]] = k
  BY <1>1, <1>2, SMTT(30)
<1>5. /\ J \subseteq Node /\ rt \in J \cup {0} /\ p2[rt] = 0
      /\ \A k \in Node \ J : l[k] = 0 /\ r2[k] = 0
  BY <1>1, <1>2, SMTT(30)
<1>6. Tree(J, rt, l, r2, p2)
  BY <1>2, <1>3, <1>4, <1>5, rt # 0 DEF Tree
<1> QED
  BY <1>6 DEF r2, p2, Put

\* The intervals with the new leaf.
LEMMA LeafSpans ==
    ASSUME NEW K, NEW rt, NEW l, NEW r, NEW pa, Tree(K, rt, l, r, pa), rt # 0,
           NEW pos, NEW A, NEW B, NEW lo, NEW hi, Spans(K, rt, l, r, pos, lo, hi, A, B),
           NEW n \in Node \ K, NEW y \in K, r[y] = 0, pos[y] < pos[n], pos[n] < hi[y],
           \A x \in K : l[x] = 0 => ~(lo[x] < pos[n] /\ pos[n] < pos[x]),
           \A x \in K \ {y} : r[x] = 0 => ~(pos[x] < pos[n] /\ pos[n] < hi[x])
    PROVE  Spanned(K \cup {n}, rt, l, Put(r, y, n), pos, A, B)
<1> DEFINE r2 == [r EXCEPT ![y] = n]
           lo2 == [lo EXCEPT ![n] = pos[y]]
           hi2 == [hi EXCEPT ![n] = hi[y]]
           J == K \cup {n}
<1>1. /\ K \subseteq Node /\ rt \in K /\ n \in Node /\ n \notin K /\ y \in Node /\ n # 0 /\ y # 0
      /\ \A k \in Node : l[k] \in K \cup {0} /\ r[k] \in K \cup {0}
      /\ l[n] = 0 /\ r[n] = 0
  BY SMTT(30) DEF Tree, Node
<1>2. /\ A \in Int /\ B \in Int /\ pos \in [Node -> Int]
      /\ lo2 \in [Node -> Int] /\ hi2 \in [Node -> Int]
      /\ \A k \in Node : /\ r2[k] = IF k = y THEN n ELSE r[k]
                         /\ lo2[k] = IF k = n THEN pos[y] ELSE lo[k]
                         /\ hi2[k] = IF k = n THEN hi[y] ELSE hi[k]
                         /\ lo[k] \in Int /\ hi[k] \in Int /\ pos[k] \in Int
  BY <1>1, SMTT(30) DEF Tree, Spans
<1> HIDE DEF r2, lo2, hi2
<1>3. /\ \A x \in K : A <= lo[x] /\ lo[x] < pos[x] /\ pos[x] < hi[x] /\ hi[x] <= B
      /\ \A x \in K : l[x] # 0 => lo[l[x]] = lo[x] /\ hi[l[x]] = pos[x]
      /\ \A x \in K : r[x] # 0 => lo[r[x]] = pos[x] /\ hi[r[x]] = hi[x]
      /\ \A x, k \in K : l[x] = 0 => ~(lo[x] < pos[k] /\ pos[k] < pos[x])
      /\ \A x, k \in K : r[x] = 0 => ~(pos[x] < pos[k] /\ pos[k] < hi[x])
      /\ rt # 0 => lo[rt] = A /\ hi[rt] = B
  BY DEF Spans
<1>4. \A x \in J : A <= lo2[x] /\ lo2[x] < pos[x] /\ pos[x] < hi2[x] /\ hi2[x] <= B
  BY <1>1, <1>2, <1>3, SMTT(30)
<1>5. \A x \in J : l[x] # 0 => lo2[l[x]] = lo2[x] /\ hi2[l[x]] = pos[x]
  BY <1>1, <1>2, <1>3, SMTT(30)
<1>6. \A x \in J : r2[x] # 0 => lo2[r2[x]] = pos[x] /\ hi2[r2[x]] = hi2[x]
  BY <1>1, <1>2, <1>3, SMTT(30)
<1>7. \A x, k \in J : l[x] = 0 => ~(lo2[x] < pos[k] /\ pos[k] < pos[x])
  BY <1>1, <1>2, <1>3, SMTT(30)
<1>8. \A x, k \in J : r2[x] = 0 => ~(pos[x] < pos[k] /\ pos[k] < hi2[x])
  BY <1>1, <1>2, <1>3, SMTT(30)
<1>9. rt # 0 => lo2[rt] = A /\ hi2[rt] = B
  BY <1>1, <1>2, <1>3
<1>10. Spans(J, rt, l, r2, pos, lo2, hi2, A, B)
  BY <1>2, <1>4, <1>5, <1>6, <1>7, <1>8, <1>9 DEF Spans
<1> QED
  BY <1>10 DEF Spanned, r2, Put

-----------------------------------------------------------------------------
(* Walking a tree. *)

\* A step of the walk.
LEMMA WalkStep ==
    ASSUME NEW l, NEW r, NEW w, NEW top, Ranked(l, r, w, top)
    PROVE  /\ InOrder(l, r, 0) = <<>>
           /\ \A x \in Node : InOrder(l, r, x) = InOrder(l, r, l[x]) \o <<x>> \o InOrder(l, r, r[x])
<1>0. /\ 0 \in Pointer /\ 0 \notin Node /\ Pointer = Node \cup {0}
      /\ \A y \in Node : l[y] \in Pointer /\ r[y] \in Pointer
  BY SMTT(30) DEF Ranked, Pointer, Node
<1> DEFINE V == Seq(Node)
           c == [t \in V \X Node \X V |-> t[1] \o <<t[2]>> \o t[3]]
           Eq(f) == f = [y \in Pointer |-> IF y = 0 THEN <<>> ELSE f[l[y]] \o <<y>> \o f[r[y]]]
<1>1. PICK f \in [Pointer -> V] : Recurs(l, r, <<>>, c, f)
  <2>1. <<>> \in V /\ \A s, u \in V : \A x \in Node : s \o <<x>> \o u \in V
    BY SMTT(30)
  <2> HIDE DEF V
  <2>2. c \in [V \X Node \X V -> V]
    BY <2>1
  <2> HIDE DEF c
  <2> QED
    BY <2>1, <2>2, TreeRecursion
<1> HIDE DEF V
<1>2. \A y \in Node : f[y] = f[l[y]] \o <<y>> \o f[r[y]]
  <2> TAKE y \in Node
  <2>1. <<f[l[y]], y, f[r[y]]>> \in V \X Node \X V
    BY <1>0
  <2>2. c[<<f[l[y]], y, f[r[y]]>>] = f[l[y]] \o <<y>> \o f[r[y]]
    BY <2>1
  <2> HIDE DEF c
  <2> QED
    BY <1>1, <2>2 DEF Recurs
<1>3. f[0] = <<>>
  <2> HIDE DEF c
  <2> QED
    BY <1>1 DEF Recurs
<1> HIDE DEF c
<1>4. [y \in Pointer |-> f[y]] = [y \in Pointer |-> IF y = 0 THEN <<>> ELSE f[l[y]] \o <<y>> \o f[r[y]]]
  BY <1>0, <1>2, <1>3
<1>5. Eq(f)
  BY <1>4
<1>6. Eq(CHOOSE h : Eq(h))
  BY <1>5
<1> DEFINE g == CHOOSE h : Eq(h)
<1>7. \A x : InOrder(l, r, x) = g[x]
  BY DEF InOrder
<1>8. \A y \in Pointer : g[y] = IF y = 0 THEN <<>> ELSE g[l[y]] \o <<y>> \o g[r[y]]
  BY <1>6
<1> HIDE DEF g
<1> QED
  BY <1>0, <1>7, <1>8

\* s lists the nodes between the positions a and b, in the order of their positions.
Lists(K, pos, a, b, s) ==
    /\ s \in Seq(K)
    /\ \A i \in 1..Len(s) : a < pos[s[i]] /\ pos[s[i]] < b
    /\ \A k \in K : a < pos[k] /\ pos[k] < b => \E i \in 1..Len(s) : s[i] = k
    /\ \A i, j \in 1..Len(s) : i < j => pos[s[i]] < pos[s[j]]

\* What a walk puts together from those of the children of x.
LEMMA Joined ==
    ASSUME NEW K \in SUBSET Node, NEW pos \in [Node -> Int], NEW a \in Int, NEW b \in Int,
           NEW x \in K, a < pos[x], pos[x] < b, \A k \in K : pos[k] = pos[x] => k = x,
           NEW s, NEW t, Lists(K, pos, a, pos[x], s), Lists(K, pos, pos[x], b, t)
    PROVE  Lists(K, pos, a, b, s \o <<x>> \o t)
<1> DEFINE u == s \o <<x>> \o t
           m == Len(s)
           d == Len(t)
<1>1. /\ u \in Seq(K) /\ m \in Nat /\ d \in Nat /\ Len(u) = m + 1 + d
      /\ \A i \in 1..Len(u) : u[i] = IF i <= m THEN s[i] ELSE IF i = m + 1 THEN x ELSE t[i - (m + 1)]
  <2>1. s \in Seq(K) /\ t \in Seq(K)
    BY DEF Lists
  <2> QED
    BY <2>1, SMTT(30)
<1>2. /\ \A i \in 1..m : s[i] \in K /\ a < pos[s[i]] /\ pos[s[i]] < pos[x]
      /\ \A i \in 1..d : t[i] \in K /\ pos[x] < pos[t[i]] /\ pos[t[i]] < b
      /\ \A k \in K : a < pos[k] /\ pos[k] < pos[x] => \E i \in 1..m : s[i] = k
      /\ \A k \in K : pos[x] < pos[k] /\ pos[k] < b => \E i \in 1..d : t[i] = k
      /\ \A i, j \in 1..m : i < j => pos[s[i]] < pos[s[j]]
      /\ \A i, j \in 1..d : i < j => pos[t[i]] < pos[t[j]]
  <2>1. \A i \in 1..m : s[i] \in K
    BY SMTT(30) DEF Lists
  <2>2. \A i \in 1..d : t[i] \in K
    BY SMTT(30) DEF Lists
  <2> QED
    BY <2>1, <2>2 DEF Lists
<1>3. \A k \in K : pos[k] \in Int
  OBVIOUS
<1> HIDE DEF u, m, d
<1>4. \A i \in 1..Len(u) : \/ i \in 1..m /\ u[i] = s[i]
                           \/ i = m + 1 /\ u[i] = x
                           \/ i - (m + 1) \in 1..d /\ u[i] = t[i - (m + 1)]
  BY <1>1, SMTT(30)
<1>5. /\ \A i \in 1..m : i \in 1..Len(u) /\ u[i] = s[i]
      /\ m + 1 \in 1..Len(u) /\ u[m + 1] = x
      /\ \A i \in 1..d : i + m + 1 \in 1..Len(u) /\ u[i + m + 1] = t[i]
  BY <1>1, SMTT(30)
<1>6. \A i \in 1..Len(u) : a < pos[u[i]] /\ pos[u[i]] < b
  <2> TAKE i \in 1..Len(u)
  <2>1. CASE i \in 1..m /\ u[i] = s[i]
    BY <1>2, <1>3, <2>1, SMTT(30)
  <2>2. CASE i = m + 1 /\ u[i] = x
    BY <2>2
  <2>3. CASE i - (m + 1) \in 1..d /\ u[i] = t[i - (m + 1)]
    <3>1. t[i - (m + 1)] \in K /\ pos[x] < pos[t[i - (m + 1)]] /\ pos[t[i - (m + 1)]] < b
      BY <1>2, <2>3
    <3> QED
      BY <1>3, <2>3, <3>1, SMTT(30)
  <2> QED
    BY <1>4, <2>1, <2>2, <2>3
<1>7. \A k \in K : a < pos[k] /\ pos[k] < b => \E i \in 1..Len(u) : u[i] = k
  <2> SUFFICES ASSUME NEW k \in K, a < pos[k], pos[k] < b PROVE \E i \in 1..Len(u) : u[i] = k
    OBVIOUS
  <2>1. pos[k] < pos[x] \/ k = x \/ pos[x] < pos[k]
    BY <1>3, SMTT(30)
  <2>2. CASE pos[k] < pos[x]
    <3>1. PICK i \in 1..m : s[i] = k
      BY <1>2, <2>2
    <3> QED
      BY <1>5, <3>1
  <2>3. CASE k = x
    BY <1>5, <2>3
  <2>4. CASE pos[x] < pos[k]
    <3>1. PICK i \in 1..d : t[i] = k
      BY <1>2, <2>4
    <3>2. i + m + 1 \in 1..Len(u) /\ u[i + m + 1] = k
      BY <1>5, <3>1
    <3> QED
      BY <3>2
  <2> QED
    BY <2>1, <2>2, <2>3, <2>4
<1>8. \A i, j \in 1..Len(u) : i < j => pos[u[i]] < pos[u[j]]
  <2> SUFFICES ASSUME NEW i \in 1..Len(u), NEW j \in 1..Len(u), i < j PROVE pos[u[i]] < pos[u[j]]
    OBVIOUS
  <2>1. CASE j \in 1..m /\ u[j] = s[j]
    <3>1. i \in 1..m /\ u[i] = s[i]
      BY <1>1, <1>5, <2>1, SMTT(30)
    <3> QED
      BY <1>2, <2>1, <3>1
  <2>2. CASE j = m + 1 /\ u[j] = x
    <3>1. i \in 1..m /\ u[i] = s[i]
      BY <1>1, <1>5, <2>2, SMTT(30)
    <3> QED
      BY <1>2, <2>2, <3>1
  <2>3. CASE j - (m + 1) \in 1..d /\ u[j] = t[j - (m + 1)]
    <3>1. pos[x] < pos[u[j]] /\ u[j] \in K
      BY <1>2, <2>3
    <3>2. CASE i \in 1..m /\ u[i] = s[i]
      <4>1. pos[u[i]] < pos[x] /\ u[i] \in K
        BY <1>2, <3>2
      <4> QED
        BY <1>3, <3>1, <4>1, SMTT(30)
    <3>3. CASE i = m + 1 /\ u[i] = x
      BY <3>1, <3>3
    <3>4. CASE i - (m + 1) \in 1..d /\ u[i] = t[i - (m + 1)]
      <4>1. i - (m + 1) < j - (m + 1)
        BY <1>1, SMTT(30)
      <4> QED
        BY <1>2, <2>3, <3>4, <4>1
    <3> QED
      BY <1>4, <3>2, <3>3, <3>4
  <2> QED
    BY <1>4, <2>1, <2>2, <2>3
<1>9. Lists(K, pos, a, b, u)
  BY <1>1, <1>6, <1>7, <1>8 DEF Lists
<1> QED
  BY <1>9 DEF u

\* The walk lists the nodes of the tree in the order of their positions.
LEMMA WalkLists ==
    ASSUME NEW K, NEW rt, NEW l, NEW r, NEW pa, Tree(K, rt, l, r, pa),
           NEW pos, NEW A, NEW B, Spanned(K, rt, l, r, pos, A, B),
           \A x, y \in K : pos[x] = pos[y] => x = y
    PROVE  Lists(K, pos, A, B, InOrder(l, r, rt))
<1>1. PICK w, top : Ranked(l, r, w, top)
  BY TreeRanked
<1>2. PICK lo, hi : Spans(K, rt, l, r, pos, lo, hi, A, B)
  BY DEF Spanned
<1>3. /\ K \in SUBSET Node /\ rt \in K \cup {0} /\ 0 \notin K /\ (rt = 0 => K = {})
      /\ \A x \in K : l[x] \in K \cup {0} /\ r[x] \in K \cup {0}
  BY SMTT(30) DEF Tree, Node
<1>4. /\ pos \in [Node -> Int]
      /\ \A x \in K : lo[x] \in Int /\ hi[x] \in Int /\ pos[x] \in Int
      /\ \A x \in K : lo[x] < pos[x] /\ pos[x] < hi[x]
      /\ \A x \in K : l[x] # 0 => lo[l[x]] = lo[x] /\ hi[l[x]] = pos[x]
      /\ \A x \in K : r[x] # 0 => lo[r[x]] = pos[x] /\ hi[r[x]] = hi[x]
      /\ \A x, k \in K : l[x] = 0 => ~(lo[x] < pos[k] /\ pos[k] < pos[x])
      /\ \A x, k \in K : r[x] = 0 => ~(pos[x] < pos[k] /\ pos[k] < hi[x])
      /\ rt # 0 => lo[rt] = A /\ hi[rt] = B
  BY <1>2, <1>3 DEF Spans
<1>5. /\ InOrder(l, r, 0) = <<>>
      /\ \A x \in Node : InOrder(l, r, x) = InOrder(l, r, l[x]) \o <<x>> \o InOrder(l, r, r[x])
  BY <1>1, WalkStep
<1>6. \A a, b : (\A k \in K : ~(a < pos[k] /\ pos[k] < b)) => Lists(K, pos, a, b, InOrder(l, r, 0))
  <2>1. <<>> \in Seq(K) /\ 1..Len(<<>>) = {}
    BY SMTT(30)
  <2> QED
    BY <1>5, <2>1 DEF Lists
<1> DEFINE Good(x) == Lists(K, pos, lo[x], hi[x], InOrder(l, r, x))
           Bad == {k \in Nat : \E x \in K : w[x] = k /\ ~Good(x)}
<1>7. \A x \in K : (l[x] # 0 => Good(l[x])) /\ (r[x] # 0 => Good(r[x])) => Good(x)
  <2> SUFFICES ASSUME NEW x \in K, l[x] # 0 => Good(l[x]), r[x] # 0 => Good(r[x]) PROVE Good(x)
    OBVIOUS
  <2>1. Lists(K, pos, lo[x], pos[x], InOrder(l, r, l[x]))
    BY <1>4, <1>6
  <2>2. Lists(K, pos, pos[x], hi[x], InOrder(l, r, r[x]))
    BY <1>4, <1>6
  <2>3. Lists(K, pos, lo[x], hi[x], InOrder(l, r, l[x]) \o <<x>> \o InOrder(l, r, r[x]))
    <3>1. lo[x] \in Int /\ hi[x] \in Int /\ lo[x] < pos[x] /\ pos[x] < hi[x]
      BY <1>4
    <3>2. \A k \in K : pos[k] = pos[x] => k = x
      OBVIOUS
    <3> QED
      BY <1>3, <1>4, <2>1, <2>2, <3>1, <3>2, Joined
  <2> QED
    BY <1>3, <1>5, <2>3
<1> HIDE DEF Good
<1>8. Bad = {}
  <2> SUFFICES ASSUME Bad # {} PROVE FALSE
    OBVIOUS
  <2>1. PICK m \in Bad : \A k \in Bad : m <= k
    <3>1. Bad \in SUBSET Nat
      OBVIOUS
    <3> QED
      BY <3>1, Least
  <2>2. PICK x \in K : w[x] = m /\ ~Good(x)
    BY <2>1
  <2>3. /\ w[l[x]] \in Nat /\ ~(m <= w[l[x]])
        /\ w[r[x]] \in Nat /\ ~(m <= w[r[x]])
    <3>1. l[x] \in Pointer /\ r[x] \in Pointer /\ w[l[x]] < w[x] /\ w[r[x]] < w[x]
      BY <1>1, <1>3, <2>2 DEF Ranked
    <3>2. w[l[x]] \in Nat /\ w[r[x]] \in Nat /\ m \in Nat
      BY <1>1, <3>1, SMTT(30) DEF Ranked
    <3> QED
      BY <2>2, <3>1, <3>2, SMTT(30)
  <2>4. (l[x] # 0 => Good(l[x])) /\ (r[x] # 0 => Good(r[x]))
    BY <1>3, <2>1, <2>3
  <2> QED
    BY <1>7, <2>2, <2>4
<1>9. \A x \in K : Good(x)
  <2>1. \A x \in K : w[x] \in Nat
    BY <1>1, <1>3, SMTT(30) DEF Ranked, Node, Pointer
  <2> QED
    BY <1>8, <2>1
<1>10. CASE rt = 0
  BY <1>3, <1>6, <1>10
<1>11. CASE rt # 0
  BY <1>3, <1>4, <1>9, <1>11 DEF Good
<1> QED
  BY <1>10, <1>11

-----------------------------------------------------------------------------
(* The red-black trees. *)

Itself == [x \in Node |-> x]

\* The nodes of a key are inserted in the order of their names.
InTurn == equal => \A x \in keys, z \in Node : z < x /\ KeyOf(z) = KeyOf(x) => z \in keys

ShapeInv ==
    /\ equal \in BOOLEAN /\ p \in keys \cup {0} /\ red \in [Node -> BOOLEAN]
    /\ Tree(keys, root, left, right, parent)
    /\ Spanned(keys, root, left, right, Itself, 0, MaxNode + 1)
    /\ \A x \in Node \ keys : parent[x] = 0 /\ ~red[x]
    /\ InTurn

\* Only the node at which the repair is may have a red right child, or be red and have
\* a red left child.
ColourInv ==
    /\ root # 0 => ~red[root]
    /\ \A x \in keys \ {p} : ~rbtree_is_red(right[x]) /\ (red[x] => ~rbtree_is_red(left[x]))
    /\ p # 0 /\ LeftRed /\ RightRed => ~red[p]
    /\ Balanced(keys, left, right, red)

\* Keys are in the order of the names of their nodes.
LEMMA KeyOrder ==
    ASSUME NEW x \in Node, NEW y \in Node, x <= y
    PROVE  KeyOf(x) \in Int /\ KeyOf(y) \in Int /\ KeyOf(x) <= KeyOf(y)
<1>1. Copies \in Nat /\ Copies > 0 /\ x \in Int /\ y \in Int
  BY CopiesAssumption, SMTT(30) DEF Node
<1>2. (x + Copies - 1) \div Copies <= (y + Copies - 1) \div Copies
  BY <1>1, SMTT(60)
<1>3. (x + Copies - 1) \div Copies \in Int /\ (y + Copies - 1) \div Copies \in Int
  BY <1>1, SMTT(30)
<1> QED
  BY <1>1, <1>2, <1>3 DEF KeyOf

\* Names of nodes lie between the ends of the tree and are different positions.
LEMMA Names ==
    /\ Itself \in [Node -> Int] /\ 0 \in Int /\ MaxNode + 1 \in Int
    /\ \A x \in Node : Itself[x] = x /\ x \in Int /\ 0 < Itself[x] /\ Itself[x] < MaxNode + 1 /\ x # 0
BY SMTT(30) DEF Itself, Node

\* The keys of nodes of the tree compare with that of a node looked for or inserted
\* as the names do.
LEMMA KeysAgree ==
    ASSUME ShapeInv, NEW n \in Node, equal => Unused(n)
    PROVE  \A x \in keys : x # n => (KeyOf(n) < KeyOf(x) <=> n < x)
<1> SUFFICES ASSUME NEW x \in keys, x # n PROVE KeyOf(n) < KeyOf(x) <=> n < x
  OBVIOUS
<1>1. x \in Node /\ x \in Int /\ n \in Int
  BY Names DEF ShapeInv, Tree
<1>2. CASE x < n
  <2>1. KeyOf(x) <= KeyOf(n) /\ KeyOf(x) \in Int /\ KeyOf(n) \in Int
    BY <1>1, <1>2, KeyOrder, SMTT(30)
  <2> QED
    BY <1>1, <1>2, <2>1, SMTT(30)
<1>3. CASE n < x
  <2>1. KeyOf(n) <= KeyOf(x) /\ KeyOf(x) \in Int /\ KeyOf(n) \in Int
    BY <1>1, <1>3, KeyOrder, SMTT(30)
  <2>2. KeyOf(n) # KeyOf(x)
    <3>1. CASE equal
      BY <1>3, <3>1 DEF ShapeInv, InTurn, Unused
    <3>2. CASE ~equal
      BY <1>1, <1>3, <3>2, SMTT(30) DEF KeyOf
    <3> QED
      BY <3>1, <3>2
  <2> QED
    BY <1>1, <1>3, <2>1, <2>2, SMTT(30)
<1> QED
  BY <1>1, <1>2, <1>3, SMTT(30)

\* The loops of rbtree_insert and rbtree_search go towards the position of the node.
LEMMA TowardSeeks ==
    ASSUME ShapeInv, NEW n \in Node, equal => Unused(n)
    PROVE  Seeks(keys, left, right, Itself, n, Toward(n))
<1>1. /\ keys \subseteq Node /\ Node \subseteq Int /\ 0 \in Pointer /\ Node \subseteq Pointer
      /\ left \in [Node -> Pointer] /\ right \in [Node -> Pointer]
  <2>1. Node \subseteq Int /\ 0 \in Pointer /\ Node \subseteq Pointer
    BY SMTT(30) DEF Node, Pointer
  <2>2. /\ keys \subseteq Node
        /\ left \in [Node -> keys \cup {0}] /\ right \in [Node -> keys \cup {0}]
    BY DEF ShapeInv, Tree
  <2>3. keys \cup {0} \subseteq Pointer
    BY <2>1, <2>2
  <2> QED
    BY <2>1, <2>2, <2>3
<1>2. \A x \in keys : x # n => (KeyOf(n) < KeyOf(x) <=> n < x)
  BY KeysAgree
<1>3. \A x \in Node : Itself[x] = x
  BY DEF Itself
<1>4. \A x \in Node : Toward(n)[x] = IF x = n THEN 0 ELSE IF KeyOf(n) < KeyOf(x) THEN left[x] ELSE right[x]
  BY DEF Toward
<1>5. Toward(n) \in [Node -> Pointer]
  BY <1>1 DEF Toward
<1> HIDE DEF Toward
<1>6. \A x \in Node : Toward(n)[x] \in {0, left[x], right[x]}
  BY <1>4
<1>7. \A x \in keys : Toward(n)[x] = IF x = n THEN 0 ELSE IF Itself[n] < Itself[x] THEN left[x] ELSE right[x]
  BY <1>1, <1>2, <1>3, <1>4
<1> QED
  BY <1>5, <1>6, <1>7 DEF Seeks

\* What a rotation of a red child to the left does.
LEMMA LeftTurn ==
    ASSUME ShapeInv, NEW x \in keys, right[x] # 0, rbtree_left_rotate(x)
    PROVE  /\ Turns(x, right[x], root, left, right, parent, root', left', right', parent')
           /\ red' = [red EXCEPT ![right[x]] = red[x], ![x] = TRUE] /\ p' = right[x]
           /\ Recolours(x, right[x], red, red')
<1> DEFINE y == right[x]
<1>1. /\ x \in Node /\ y \in Node /\ x # y /\ y # left[y] /\ x # left[y]
      /\ left \in [Node -> keys \cup {0}] /\ right \in [Node -> keys \cup {0}]
  <2>1. Tree(keys, root, left, right, parent) /\ Spanned(keys, root, left, right, Itself, 0, MaxNode + 1)
    BY DEF ShapeInv
  <2>2. Distinct(left, right, parent, x)
    BY <2>1, Apart
  <2>3. y \in keys /\ parent[y] = x /\ left \in [Node -> keys \cup {0}] /\ right \in [Node -> keys \cup {0}]
    BY <2>1, <2>2 DEF Tree, Distinct
  <2>4. Distinct(left, right, parent, y)
    BY <2>1, <2>3, Apart
  <2> QED
    BY <2>2, <2>3, <2>4 DEF Distinct
<1>2. /\ root' = IF parent[x] = 0 THEN y ELSE root
      /\ parent' = Parents(x, y, left[y]) /\ red' = [red EXCEPT ![y] = red[x], ![x] = TRUE] /\ p' = y
      /\ right' = [Below(right, x, y) EXCEPT ![x] = left[y]]
      /\ left' = [Below(left, x, y) EXCEPT ![y] = x]
  BY DEF rbtree_left_rotate, Replaces, Recoloured
<1> HIDE DEF y
<1>3. parent' = [k \in Node |-> IF k = y THEN parent[x] ELSE IF k = x THEN y ELSE IF k = left[y] THEN x ELSE parent[k]]
  BY <1>1, <1>2, SMTT(30) DEF Parents
<1>4. right' = [k \in Node |-> IF k = x THEN left[y] ELSE IF k = parent[x] /\ right[k] = x THEN y ELSE right[k]]
  <2> DEFINE b == Below(right, x, y)
  <2>1. /\ b = [k \in Node |-> b[k]]
        /\ \A k \in Node : b[k] = IF k = parent[x] /\ right[k] = x THEN y ELSE right[k]
    BY DEF Below
  <2>2. right' = [b EXCEPT ![x] = left[y]]
    BY <1>2
  <2> HIDE DEF b
  <2>3. [b EXCEPT ![x] = left[y]] = [k \in Node |-> IF k = x THEN left[y] ELSE b[k]]
    BY <1>1, <2>1
  <2>4. [k \in Node |-> IF k = x THEN left[y] ELSE b[k]]
          = [k \in Node |-> IF k = x THEN left[y] ELSE IF k = parent[x] /\ right[k] = x THEN y ELSE right[k]]
    BY <2>1
  <2> QED
    BY <2>2, <2>3, <2>4
<1>5. left' = [k \in Node |-> IF k = y THEN x ELSE IF k = parent[x] /\ left[k] = x THEN y ELSE left[k]]
  <2> DEFINE b == Below(left, x, y)
  <2>1. /\ b = [k \in Node |-> b[k]]
        /\ \A k \in Node : b[k] = IF k = parent[x] /\ left[k] = x THEN y ELSE left[k]
    BY DEF Below
  <2>2. left' = [b EXCEPT ![y] = x]
    BY <1>2
  <2> HIDE DEF b
  <2>3. [b EXCEPT ![y] = x] = [k \in Node |-> IF k = y THEN x ELSE b[k]]
    BY <1>1, <2>1
  <2>4. [k \in Node |-> IF k = y THEN x ELSE b[k]]
          = [k \in Node |-> IF k = y THEN x ELSE IF k = parent[x] /\ left[k] = x THEN y ELSE left[k]]
    BY <2>1
  <2> QED
    BY <2>2, <2>3, <2>4
<1>6. Turns(x, y, root, left, right, parent, root', left', right', parent')
  BY <1>2, <1>3, <1>4, <1>5 DEF Turns
<1>7. Recolours(x, y, red, red')
  <2>1. red \in [Node -> BOOLEAN]
    BY DEF ShapeInv
  <2> QED
    BY <1>1, <1>2, <2>1 DEF Recolours
<1> QED
  BY <1>2, <1>6, <1>7 DEF y

\* What a rotation of a red child to the right does: the same in the tree turned round.
LEMMA RightTurn ==
    ASSUME ShapeInv, NEW x \in keys, left[x] # 0, rbtree_right_rotate(x)
    PROVE  /\ Turns(x, left[x], root, right, left, parent, root', right', left', parent')
           /\ red' = [red EXCEPT ![left[x]] = red[x], ![x] = TRUE] /\ p' = left[x]
           /\ Recolours(x, left[x], red, red')
<1> DEFINE y == left[x]
<1>1. /\ x \in Node /\ y \in Node /\ x # y /\ y # right[y] /\ x # right[y]
      /\ left \in [Node -> keys \cup {0}] /\ right \in [Node -> keys \cup {0}]
  <2>1. Tree(keys, root, left, right, parent) /\ Spanned(keys, root, left, right, Itself, 0, MaxNode + 1)
    BY DEF ShapeInv
  <2>2. Distinct(left, right, parent, x)
    BY <2>1, Apart
  <2>3. y \in keys /\ parent[y] = x /\ left \in [Node -> keys \cup {0}] /\ right \in [Node -> keys \cup {0}]
    BY <2>1, <2>2 DEF Tree, Distinct
  <2>4. Distinct(left, right, parent, y)
    BY <2>1, <2>3, Apart
  <2> QED
    BY <2>2, <2>3, <2>4 DEF Distinct
<1>2. /\ root' = IF parent[x] = 0 THEN y ELSE root
      /\ parent' = Parents(x, y, right[y]) /\ red' = [red EXCEPT ![y] = red[x], ![x] = TRUE] /\ p' = y
      /\ left' = [Below(left, x, y) EXCEPT ![x] = right[y]]
      /\ right' = [Below(right, x, y) EXCEPT ![y] = x]
  BY DEF rbtree_right_rotate, Replaces, Recoloured
<1> HIDE DEF y
<1>3. parent' = [k \in Node |-> IF k = y THEN parent[x] ELSE IF k = x THEN y ELSE IF k = right[y] THEN x ELSE parent[k]]
  BY <1>1, <1>2, SMTT(30) DEF Parents
<1>4. left' = [k \in Node |-> IF k = x THEN right[y] ELSE IF k = parent[x] /\ left[k] = x THEN y ELSE left[k]]
  <2> DEFINE b == Below(left, x, y)
  <2>1. /\ b = [k \in Node |-> b[k]]
        /\ \A k \in Node : b[k] = IF k = parent[x] /\ left[k] = x THEN y ELSE left[k]
    BY DEF Below
  <2>2. left' = [b EXCEPT ![x] = right[y]]
    BY <1>2
  <2> HIDE DEF b
  <2>3. [b EXCEPT ![x] = right[y]] = [k \in Node |-> IF k = x THEN right[y] ELSE b[k]]
    BY <1>1, <2>1
  <2>4. [k \in Node |-> IF k = x THEN right[y] ELSE b[k]]
          = [k \in Node |-> IF k = x THEN right[y] ELSE IF k = parent[x] /\ left[k] = x THEN y ELSE left[k]]
    BY <2>1
  <2> QED
    BY <2>2, <2>3, <2>4
<1>5. right' = [k \in Node |-> IF k = y THEN x ELSE IF k = parent[x] /\ right[k] = x THEN y ELSE right[k]]
  <2> DEFINE b == Below(right, x, y)
  <2>1. /\ b = [k \in Node |-> b[k]]
        /\ \A k \in Node : b[k] = IF k = parent[x] /\ right[k] = x THEN y ELSE right[k]
    BY DEF Below
  <2>2. right' = [b EXCEPT ![y] = x]
    BY <1>2
  <2> HIDE DEF b
  <2>3. [b EXCEPT ![y] = x] = [k \in Node |-> IF k = y THEN x ELSE b[k]]
    BY <1>1, <2>1
  <2>4. [k \in Node |-> IF k = y THEN x ELSE b[k]]
          = [k \in Node |-> IF k = y THEN x ELSE IF k = parent[x] /\ right[k] = x THEN y ELSE right[k]]
    BY <2>1
  <2> QED
    BY <2>2, <2>3, <2>4
<1>6. Turns(x, y, root, right, left, parent, root', right', left', parent')
  BY <1>2, <1>3, <1>4, <1>5 DEF Turns
<1>7. Recolours(x, y, red, red')
  <2>1. red \in [Node -> BOOLEAN]
    BY DEF ShapeInv
  <2> QED
    BY <1>1, <1>2, <2>1 DEF Recolours
<1> QED
  BY <1>2, <1>6, <1>7 DEF y

\* A repair inserts nothing.
LEMMA InTurnKept ==
    ASSUME ShapeInv, UNCHANGED <<equal, keys>>
    PROVE  InTurn'
BY DEF ShapeInv, InTurn, KeyOf

\* Both rotations keep the tree and its order.
LEMMA RotationShape ==
    ASSUME ShapeInv, NEW x \in keys, UNCHANGED <<equal, keys>>,
           \/ right[x] # 0 /\ rbtree_left_rotate(x)
           \/ left[x] # 0 /\ rbtree_right_rotate(x)
    PROVE  ShapeInv'
<1>1. /\ Tree(keys, root, left, right, parent)
      /\ Spanned(keys, root, left, right, Itself, 0, MaxNode + 1)
      /\ red \in [Node -> BOOLEAN] /\ keys \subseteq Node
      /\ \A k \in Node : left[k] \in keys \cup {0} /\ right[k] \in keys \cup {0}
  BY DEF ShapeInv, Tree
<1>2. Tree(keys, root', left', right', parent') /\ Spanned(keys, root', left', right', Itself, 0, MaxNode + 1)
  <2>1. CASE right[x] # 0 /\ rbtree_left_rotate(x)
    <3>1. Turns(x, right[x], root, left, right, parent, root', left', right', parent')
      BY <2>1, LeftTurn
    <3> QED
      BY <1>1, <2>1, <3>1, TurnedTree, TurnedSpans
  <2>2. CASE left[x] # 0 /\ rbtree_right_rotate(x)
    <3>1. Turns(x, left[x], root, right, left, parent, root', right', left', parent')
      BY <2>2, RightTurn
    <3>2. Tree(keys, root, right, left, parent)
      BY <1>1, TreeTurned
    <3>3. Spanned(keys, root, right, left, Negative(Itself), 0 - (MaxNode + 1), 0 - 0)
      BY <1>1, SpansTurned
    <3>4. Tree(keys, root', right', left', parent')
      BY <2>2, <3>1, <3>2, <3>3, TurnedTree
    <3>5. Spanned(keys, root', right', left', Negative(Itself), 0 - (MaxNode + 1), 0 - 0)
      BY <2>2, <3>1, <3>2, <3>3, TurnedSpans
    <3>6. Tree(keys, root', left', right', parent')
      BY <3>4, TreeTurned
    <3> QED
      BY <3>5, <3>6, TurnedBack, Names
  <2> QED
    BY <2>1, <2>2
<1>3. \E y \in keys : /\ p' = y /\ red' = [red EXCEPT ![y] = red[x], ![x] = TRUE]
                      /\ \A k \in Node \ keys : parent'[k] = parent[k]
  <2>1. CASE right[x] # 0 /\ rbtree_left_rotate(x)
    <3>1. right[x] \in keys /\ left[right[x]] \in keys \cup {0}
      BY <1>1, <2>1
    <3>2. \A k \in Node \ keys : parent'[k] = parent[k]
      <4>1. parent' = [k \in Node |-> IF k = right[x] THEN parent[x] ELSE IF k = x THEN right[x]
                                       ELSE IF k = left[right[x]] THEN x ELSE parent[k]]
        BY <2>1, LeftTurn DEF Turns
      <4>2. \A k \in Node \ keys : k # right[x] /\ k # x /\ k # left[right[x]]
        BY <3>1, Names
      <4> QED
        BY <4>1, <4>2
    <3> QED
      BY <2>1, <3>1, <3>2, LeftTurn
  <2>2. CASE left[x] # 0 /\ rbtree_right_rotate(x)
    <3>1. left[x] \in keys /\ right[left[x]] \in keys \cup {0}
      BY <1>1, <2>2
    <3>2. \A k \in Node \ keys : parent'[k] = parent[k]
      <4>1. parent' = [k \in Node |-> IF k = left[x] THEN parent[x] ELSE IF k = x THEN left[x]
                                       ELSE IF k = right[left[x]] THEN x ELSE parent[k]]
        BY <2>2, RightTurn DEF Turns
      <4>2. \A k \in Node \ keys : k # left[x] /\ k # x /\ k # right[left[x]]
        BY <3>1, Names
      <4> QED
        BY <4>1, <4>2
    <3> QED
      BY <2>2, <3>1, <3>2, RightTurn
  <2> QED
    BY <2>1, <2>2
<1>4. /\ p' \in keys \cup {0} /\ red' \in [Node -> BOOLEAN]
      /\ \A k \in Node \ keys : parent'[k] = 0 /\ ~red'[k]
  BY <1>1, <1>3, SMTT(30) DEF ShapeInv
<1>5. InTurn'
  BY InTurnKept
<1> QED
  BY <1>2, <1>4, <1>5 DEF ShapeInv

\* Both rotations of a red child keep the black heights.
LEMMA RotationHeights ==
    ASSUME ShapeInv, Balanced(keys, left, right, red), NEW x \in keys, UNCHANGED <<equal, keys>>,
           \/ right[x] # 0 /\ red[right[x]] /\ rbtree_left_rotate(x)
           \/ left[x] # 0 /\ red[left[x]] /\ rbtree_right_rotate(x)
    PROVE  Balanced(keys, left, right, red)'
<1>1. /\ Tree(keys, root, left, right, parent)
      /\ Spanned(keys, root, left, right, Itself, 0, MaxNode + 1)
      /\ red \in [Node -> BOOLEAN]
  BY DEF ShapeInv
<1>a. \A k \in keys : Distinct(left, right, parent, k)
  BY <1>1, Apart
<1>b. \A k \in keys : Distinct(right, left, parent, k)
  BY <1>a DEF Distinct
<1>2. CASE right[x] # 0 /\ red[right[x]] /\ rbtree_left_rotate(x)
  <2>1. /\ Turns(x, right[x], root, left, right, parent, root', left', right', parent')
        /\ Recolours(x, right[x], red, red')
    BY <1>2, LeftTurn
  <2>2. Balanced(keys, left', right', red')
    BY <1>1, <1>a, <1>2, <2>1, TurnedHeights
  <2> QED
    BY <2>2
<1>3. CASE left[x] # 0 /\ red[left[x]] /\ rbtree_right_rotate(x)
  <2>1. /\ Turns(x, left[x], root, right, left, parent, root', right', left', parent')
        /\ Recolours(x, left[x], red, red')
    BY <1>3, RightTurn
  <2>2. Tree(keys, root, right, left, parent)
    BY <1>1, TreeTurned
  <2>4. Balanced(keys, right, left, red)
    BY SMTT(30) DEF Balanced, Heights
  <2>5. Balanced(keys, right', left', red')
    BY <1>1, <1>b, <1>3, <2>1, <2>2, <2>4, TurnedHeights
  <2>6. Balanced(keys, left', right', red')
    BY <2>5, SMTT(30) DEF Balanced, Heights
  <2> QED
    BY <2>6
<1> QED
  BY <1>2, <1>3

\* The links, node by node.
LEMMA ShapeFacts ==
    ASSUME ShapeInv
    PROVE  /\ keys \subseteq Node /\ 0 \notin keys /\ root \in keys \cup {0} /\ p \in keys \cup {0}
           /\ (root = 0 => keys = {}) /\ (root # 0 => parent[root] = 0)
           /\ \A x \in keys : /\ left[x] \in keys \cup {0} /\ right[x] \in keys \cup {0}
                              /\ parent[x] \in keys \cup {0} /\ red[x] \in BOOLEAN
                              /\ parent[x] = 0 => x = root
                              /\ parent[x] # 0 => left[parent[x]] = x \/ right[parent[x]] = x
                              /\ left[x] # 0 => parent[left[x]] = x
                              /\ right[x] # 0 => parent[right[x]] = x
                              /\ Distinct(left, right, parent, x)
<1>1. \A x \in keys : Distinct(left, right, parent, x)
  BY Apart DEF ShapeInv
<1>2. Tree(keys, root, left, right, parent) /\ p \in keys \cup {0} /\ red \in [Node -> BOOLEAN]
  BY DEF ShapeInv
<1>3. 0 \notin Node
  BY Names
<1> QED
  BY <1>1, <1>2, <1>3 DEF Tree

\* The rotation that brings a red right child up.
LEMMA LeftColours ==
    ASSUME ShapeInv, ColourInv, p # 0, ~LeftRed, RightRed, rbtree_left_rotate(p), UNCHANGED <<equal, keys>>
    PROVE  ShapeInv' /\ ColourInv'
<1> DEFINE y == right[p]
           R == {k \in keys : red[k]}
           R2 == {k \in keys : red'[k]}
<1>0. p \in keys /\ y # 0 /\ red[y] /\ y \in keys /\ y # p
  BY ShapeFacts DEF RightRed, rbtree_is_red, Distinct
<1>1. ShapeInv'
  BY <1>0, RotationShape
<1>2. Balanced(keys, left, right, red)'
  BY <1>0, RotationHeights DEF ColourInv
<1>3. /\ Turns(p, y, root, left, right, parent, root', left', right', parent')
      /\ Recolours(p, y, red, red') /\ p' = y
  BY <1>0, LeftTurn
<1>4. \A k \in keys : /\ left'[k] = IF k = y THEN p ELSE IF k = parent[p] /\ left[k] = p THEN y ELSE left[k]
                      /\ right'[k] = IF k = p THEN left[y] ELSE IF k = parent[p] /\ right[k] = p THEN y ELSE right[k]
                      /\ k \in R2 <=> k = p \/ (k = y /\ p \in R) \/ (k # p /\ k # y /\ k \in R)
  <2>1. keys \subseteq Node
    BY DEF ShapeInv, Tree
  <2> QED
    BY <1>0, <1>3, <2>1 DEF Turns, Recolours
<1>5. root' = IF parent[p] = 0 THEN y ELSE root
  BY <1>3 DEF Turns
<1>6. /\ root \notin R /\ y \in R /\ left[p] \notin R
      /\ \A k \in keys \ {p} : right[k] \notin R /\ (k \in R => left[k] \notin R)
  BY <1>0, ShapeFacts DEF ColourInv, rbtree_is_red, LeftRed
<1>a. /\ keys \subseteq Node /\ 0 \notin keys /\ root \in keys \cup {0} /\ R \subseteq keys /\ R2 \subseteq keys
      /\ root # 0 => parent[root] = 0
      /\ \A k \in keys : /\ left[k] \in keys \cup {0} /\ right[k] \in keys \cup {0}
                         /\ parent[k] \in keys \cup {0} /\ k # 0
                         /\ parent[k] = 0 => k = root
                         /\ left[k] # 0 => parent[left[k]] = k
                         /\ right[k] # 0 => parent[right[k]] = k
                         /\ left[k] # k /\ right[k] # k /\ parent[k] # k
                         /\ left[k] # 0 => left[k] # right[k] /\ left[k] # parent[k]
                         /\ right[k] # 0 => left[k] # right[k] /\ right[k] # parent[k]
  BY ShapeFacts DEF Distinct
<1> HIDE DEF y, R, R2
<1>7. root' \notin R2
  BY <1>0, <1>4, <1>5, <1>6, <1>a, SMTT(30)
<1>8. \A k \in keys \ {y} : right'[k] \notin R2
  BY <1>0, <1>4, <1>6, <1>a, SMTT(30) DEF y
<1>9. \A k \in keys \ {y} : k \in R2 => left'[k] \notin R2
  BY <1>0, <1>4, <1>6, <1>a, SMTT(30) DEF y
<1>10. right'[y] \notin R2
  BY <1>0, <1>4, <1>6, <1>a, SMTT(30) DEF y
<1>11. ColourInv'
  <2>1. /\ root' \in keys \cup {0} /\ p' = y /\ keys' = keys
        /\ \A k \in keys : left'[k] \in keys \cup {0} /\ right'[k] \in keys \cup {0}
    BY <1>1, <1>3 DEF ShapeInv, Tree
  <2>2. root' # 0 => ~red'[root']
    BY <2>1, <1>7 DEF R2
  <2>3. \A k \in keys \ {y} : /\ ~(right'[k] # 0 /\ red'[right'[k]])
                              /\ red'[k] => ~(left'[k] # 0 /\ red'[left'[k]])
    BY <2>1, <1>8, <1>9 DEF R2
  <2>4. ~(right'[y] # 0 /\ red'[right'[y]])
    BY <1>0, <2>1, <1>10 DEF R2
  <2> QED
    BY <1>2, <2>1, <2>2, <2>3, <2>4 DEF ColourInv, rbtree_is_red, LeftRed, RightRed
<1> QED
  BY <1>1, <1>11

\* The rotation that brings up the middle one of two red nodes in a row.
LEMMA RightColours ==
    ASSUME ShapeInv, ColourInv, p # 0, LeftRed, ~RightRed, InThreeNode,
           rbtree_right_rotate(parent[p]), UNCHANGED <<equal, keys>>
    PROVE  ShapeInv' /\ ColourInv'
<1> DEFINE x == parent[p]
           R == {k \in keys : red[k]}
           R2 == {k \in keys : red'[k]}
<1>0. p \in keys /\ red[p] /\ x \in keys /\ left[x] = p /\ x # p
  BY ShapeFacts DEF InThreeNode, Distinct
<1>1. ShapeInv'
  BY <1>0, RotationShape
<1>2. Balanced(keys, left, right, red)'
  BY <1>0, RotationHeights DEF ColourInv
<1>3. /\ Turns(x, p, root, right, left, parent, root', right', left', parent')
      /\ Recolours(x, p, red, red') /\ p' = p
  BY <1>0, RightTurn
<1>4. \A k \in keys : /\ right'[k] = IF k = p THEN x ELSE IF k = parent[x] /\ right[k] = x THEN p ELSE right[k]
                      /\ left'[k] = IF k = x THEN right[p] ELSE IF k = parent[x] /\ left[k] = x THEN p ELSE left[k]
                      /\ k \in R2 <=> k = x \/ (k = p /\ x \in R) \/ (k # x /\ k # p /\ k \in R)
  <2>1. keys \subseteq Node
    BY DEF ShapeInv, Tree
  <2> QED
    BY <1>0, <1>3, <2>1 DEF Turns, Recolours
<1>5. root' = IF parent[x] = 0 THEN p ELSE root
  BY <1>3 DEF Turns
<1>6. /\ root \notin R /\ p \in R /\ right[p] \notin R
      /\ \A k \in keys \ {p} : right[k] \notin R /\ (k \in R => left[k] \notin R)
  BY <1>0, ShapeFacts DEF ColourInv, rbtree_is_red, RightRed
<1>a. /\ keys \subseteq Node /\ 0 \notin keys /\ root \in keys \cup {0} /\ R \subseteq keys /\ R2 \subseteq keys
      /\ root # 0 => parent[root] = 0
      /\ \A k \in keys : /\ left[k] \in keys \cup {0} /\ right[k] \in keys \cup {0}
                         /\ parent[k] \in keys \cup {0} /\ k # 0
                         /\ parent[k] = 0 => k = root
                         /\ left[k] # 0 => parent[left[k]] = k
                         /\ right[k] # 0 => parent[right[k]] = k
                         /\ left[k] # k /\ right[k] # k /\ parent[k] # k
                         /\ left[k] # 0 => left[k] # right[k] /\ left[k] # parent[k]
                         /\ right[k] # 0 => left[k] # right[k] /\ right[k] # parent[k]
  BY ShapeFacts DEF Distinct
<1> HIDE DEF x, R, R2
<1>7. x \notin R
  BY <1>0, <1>6
<1>8. root' \notin R2
  BY <1>0, <1>4, <1>5, <1>6, <1>7, <1>a, SMTT(30)
<1>9. \A k \in keys \ {p} : right'[k] \notin R2
  BY <1>0, <1>4, <1>6, <1>7, <1>a, SMTT(30) DEF x
<1>10. \A k \in keys \ {p} : k \in R2 => left'[k] \notin R2
  BY <1>0, <1>4, <1>6, <1>7, <1>a, SMTT(30) DEF x
<1>11. p \notin R2
  BY <1>0, <1>4, <1>7
<1>12. ColourInv'
  <2>1. /\ root' \in keys \cup {0} /\ p' = p /\ keys' = keys
        /\ \A k \in keys : left'[k] \in keys \cup {0} /\ right'[k] \in keys \cup {0}
    BY <1>1, <1>3 DEF ShapeInv, Tree
  <2>2. root' # 0 => ~red'[root']
    BY <2>1, <1>8 DEF R2
  <2>3. \A k \in keys \ {p} : /\ ~(right'[k] # 0 /\ red'[right'[k]])
                              /\ red'[k] => ~(left'[k] # 0 /\ red'[left'[k]])
    BY <2>1, <1>9, <1>10 DEF R2
  <2>4. ~red'[p]
    BY <1>0, <2>1, <1>11 DEF R2
  <2> QED
    BY <1>2, <2>1, <2>2, <2>3, <2>4 DEF ColourInv, rbtree_is_red, LeftRed, RightRed
<1> QED
  BY <1>1, <1>12

\* A flip of the colours below a black node.
LEMMA FlipColours ==
    ASSUME ShapeInv, ColourInv, p # 0, LeftRed, RightRed, rbtree_flipcolor(p), UNCHANGED <<equal, keys>>
    PROVE  ShapeInv' /\ ColourInv'
<1> DEFINE a == left[p]
           b == right[p]
           R == {k \in keys : red[k]}
           R2 == {k \in keys : red'[k]}
<1>0. p \in keys /\ a \in keys /\ b \in keys /\ a # b /\ a # p /\ b # p /\ p \notin R
  BY ShapeFacts DEF LeftRed, RightRed, rbtree_is_red, Distinct, ColourInv
<1>1. /\ red' = [red EXCEPT ![p] = parent[p] # 0, ![a] = FALSE, ![b] = FALSE]
      /\ p' = parent[p] /\ UNCHANGED <<root, left, right, parent, equal, keys>>
  BY DEF rbtree_flipcolor, FlipsTo
<1>2. red \in [Node -> BOOLEAN] /\ keys \subseteq Node
  BY DEF ShapeInv, Tree
<1>3. /\ red' \in [Node -> BOOLEAN]
      /\ \A k \in Node : red'[k] <=> IF k = b \/ k = a THEN FALSE ELSE IF k = p THEN parent[p] # 0 ELSE red[k]
  <2> HIDE DEF a, b
  <2>1. p \in Node /\ a \in Node /\ b \in Node
    BY <1>0, <1>2
  <2> QED
    BY <1>0, <1>1, <1>2, <2>1
<1>4. ShapeInv'
  <2>1. \A k \in Node \ keys : ~red'[k] /\ parent'[k] = 0
    BY <1>0, <1>1, <1>3 DEF ShapeInv
  <2>2. p' \in keys \cup {0}
    BY <1>0, <1>1, ShapeFacts
  <2>3. InTurn'
    BY InTurnKept
  <2> QED
    BY <1>1, <1>3, <2>1, <2>2, <2>3 DEF ShapeInv
<1>5. /\ keys \subseteq Node /\ 0 \notin keys /\ root \in keys \cup {0} /\ R \subseteq keys /\ R2 \subseteq keys
      /\ root # 0 => parent[root] = 0
      /\ \A k \in keys : /\ left[k] \in keys \cup {0} /\ right[k] \in keys \cup {0}
                         /\ parent[k] \in keys \cup {0} /\ k # 0
                         /\ left[k] # 0 => parent[left[k]] = k
                         /\ right[k] # 0 => parent[right[k]] = k
                         /\ left[k] # 0 => left[k] # right[k]
                         /\ parent[k] # k
  BY ShapeFacts DEF Distinct
<1>6. \A k \in keys : k \in R2 <=> (k = p /\ parent[p] # 0) \/ (k # p /\ k # a /\ k # b /\ k \in R)
  BY <1>0, <1>2, <1>3
<1>7. /\ root \notin R
      /\ \A k \in keys \ {p} : right[k] \notin R /\ (k \in R => left[k] \notin R)
  BY ShapeFacts DEF ColourInv, rbtree_is_red
<1>8. Balanced(keys, left, right, red')
  <2>1. PICK h : Heights(keys, left, right, red, h)
    BY DEF ColourInv, Balanced
  <2>2. /\ h \in [Pointer -> Nat] /\ h[0] = 0 /\ keys \cup {0} \subseteq Pointer
        /\ \A k \in keys : h[left[k]] = h[right[k]] /\ h[k] = h[left[k]] + (IF red[k] THEN 0 ELSE 1)
    BY <1>2, <2>1, SMTT(30) DEF Heights, Node, Pointer
  <2> DEFINE g == [k \in Pointer |-> IF k = a \/ k = b THEN h[k] + 1
                                     ELSE IF k = p /\ parent[p] = 0 THEN h[k] + 1 ELSE h[k]]
  <2>3. g \in [Pointer -> Nat]
    BY <2>2, SMTT(30)
  <2>4. \A k \in keys \cup {0} : g[k] = IF k = a \/ k = b THEN h[k] + 1
                                       ELSE IF k = p /\ parent[p] = 0 THEN h[k] + 1 ELSE h[k]
    BY <2>2
  <2> HIDE DEF g, a, b, R, R2
  <2>5. \A k \in keys \cup {0} : h[k] \in Nat
    BY <2>2
  <2>6. red[a] /\ red[b] /\ ~red[p]
    BY <1>0 DEF LeftRed, RightRed, rbtree_is_red, R, a, b
  <2>7. g[0] = 0
    BY <1>0, <1>5, <2>2, <2>4
  <2>8. \A k \in keys : g[left[k]] = g[right[k]] /\ g[k] = g[left[k]] + (IF red'[k] THEN 0 ELSE 1)
    <3> TAKE k \in keys
    <3>0. k \in Node /\ h[left[k]] = h[right[k]] /\ h[k] = h[left[k]] + (IF red[k] THEN 0 ELSE 1)
      BY <1>2, <2>2
    <3>1. CASE k = p
      <4>1. h[a] = h[b] /\ h[p] = h[a] + 1 /\ h[a] \in Nat
        BY <2>5, <2>6, <3>0, <3>1, <1>0 DEF a, b
      <4>2. g[a] = h[a] + 1 /\ g[b] = h[b] + 1 /\ g[p] = IF parent[p] = 0 THEN h[p] + 1 ELSE h[p]
        BY <1>0, <2>4
      <4>3. red'[p] <=> parent[p] # 0
        BY <1>0, <1>2, <1>3
      <4>4. g[p] = g[a] + (IF red'[p] THEN 0 ELSE 1)
        <5>1. CASE parent[p] = 0
          <6>1. (IF red'[p] THEN 0 ELSE 1) = 1
            BY <4>3, <5>1
          <6> QED
            BY <4>1, <4>2, <5>1, <6>1, SMTT(30)
        <5>2. CASE parent[p] # 0
          <6>1. (IF red'[p] THEN 0 ELSE 1) = 0
            BY <4>3, <5>2
          <6> QED
            BY <4>1, <4>2, <5>2, <6>1, SMTT(30)
        <5> QED
          BY <5>1, <5>2
      <4> QED
        BY <3>1, <4>1, <4>2, <4>4 DEF a, b
    <3>2. CASE k = a \/ k = b
      <4>1. red[k] /\ ~red'[k] /\ h[k] = h[left[k]] + 0
        BY <1>0, <1>2, <1>3, <2>6, <3>0, <3>2
      <4>2. g[k] = h[k] + 1
        BY <2>4, <3>2
      <4>3. /\ left[k] \in keys \cup {0} /\ left[k] # a /\ left[k] # b /\ left[k] # p
            /\ right[k] \in keys \cup {0} /\ right[k] # a /\ right[k] # b /\ right[k] # p
        <5>1. parent[a] = p /\ parent[b] = p /\ p # a /\ p # b
          BY <1>0, <1>5 DEF a, b
        <5>2. left[k] # p /\ right[k] # p
          <6>1. parent[p] # a /\ parent[p] # b
            BY <1>0, <1>5, ShapeFacts DEF a, b, Distinct
          <6> QED
            BY <1>0, <1>5, <3>2, <6>1
        <5>3. k \in keys /\ k # p /\ 0 \notin keys
          BY <1>0, <3>2, <5>1, ShapeFacts
        <5>4. /\ left[k] \in keys \cup {0} /\ right[k] \in keys \cup {0}
              /\ left[k] # 0 => parent[left[k]] = k
              /\ right[k] # 0 => parent[right[k]] = k
          BY <5>3, ShapeFacts
        <5>5. a # 0 /\ b # 0
          BY <1>0, <5>3
        <5> QED
          BY <5>1, <5>2, <5>3, <5>4, <5>5
      <4>4. g[left[k]] = h[left[k]] /\ g[right[k]] = h[right[k]]
        BY <2>4, <4>3
      <4>5. h[left[k]] \in Nat
        BY <2>5, <4>3
      <4>6. (IF red'[k] THEN 0 ELSE 1) = 1
        BY <4>1
      <4> QED
        BY <3>0, <4>1, <4>2, <4>4, <4>5, <4>6, SMTT(30)
    <3>3. CASE k # p /\ k # a /\ k # b
      <4>1. (red'[k] <=> red[k]) /\ g[k] = h[k]
        BY <1>3, <2>4, <3>0, <3>3
      <4>2. /\ left[k] \in keys \cup {0} /\ left[k] # a /\ left[k] # b /\ (left[k] = p => parent[p] # 0)
            /\ right[k] \in keys \cup {0} /\ right[k] # a /\ right[k] # b /\ (right[k] = p => parent[p] # 0)
        <5>1. parent[a] = p /\ parent[b] = p /\ p # 0 /\ a # 0 /\ b # 0
          BY <1>0, <1>5 DEF a, b
        <5> QED
          BY <1>5, <3>3, <5>1
      <4>3. g[left[k]] = h[left[k]] /\ g[right[k]] = h[right[k]]
        BY <2>4, <4>2
      <4> QED
        BY <3>0, <4>1, <4>3
    <3> QED
      BY <3>1, <3>2, <3>3
  <2>9. Heights(keys, left, right, red', g)
    BY <2>3, <2>7, <2>8 DEF Heights
  <2> QED
    BY <2>9 DEF Balanced
<1>9. parent[a] = p /\ parent[b] = p /\ left[p] = a /\ right[p] = b
  BY <1>0, <1>5
<1> HIDE DEF a, b, R, R2
<1>10. root \notin R2
  BY <1>5, <1>6, <1>7, SMTT(30)
<1>11. \A k \in keys \ {parent[p]} : right[k] \notin R2 /\ (k \in R2 => left[k] \notin R2)
  BY <1>0, <1>5, <1>6, <1>7, <1>9, SMTT(30)
<1>12. parent[p] # 0 /\ left[parent[p]] \in R2 /\ right[parent[p]] \in R2 => parent[p] \notin R2
  BY <1>0, <1>5, <1>6, <1>7, <1>9, SMTT(30)
<1>13. ColourInv'
  <2>1. root # 0 => ~red'[root]
    BY <1>5, <1>10 DEF R2
  <2>2. \A k \in keys \ {parent[p]} : /\ ~(right[k] # 0 /\ red'[right[k]])
                                      /\ red'[k] => ~(left[k] # 0 /\ red'[left[k]])
    BY <1>5, <1>11 DEF R2
  <2>3. ASSUME parent[p] # 0, left[parent[p]] # 0, red'[left[parent[p]]],
               right[parent[p]] # 0, red'[right[parent[p]]]
        PROVE  ~red'[parent[p]]
    <3>1. parent[p] \in keys /\ left[parent[p]] \in keys /\ right[parent[p]] \in keys
      BY <1>0, <1>5, <2>3
    <3> QED
      BY <1>12, <2>3, <3>1 DEF R2
  <2> QED
    BY <1>1, <1>8, <2>1, <2>2, <2>3 DEF ColourInv, rbtree_is_red, LeftRed, RightRed
<1> QED
  BY <1>4, <1>13

\* When nothing is to be done at a node, the repair is over.
LEMMA RepairEnds ==
    ASSUME ShapeInv, ColourInv, p # 0, ~(LeftRed /\ RightRed), ~(LeftRed /\ InThreeNode),
           ~(~LeftRed /\ RightRed), p' = 0, UNCHANGED <<root, left, right, parent, red, equal, keys>>
    PROVE  ShapeInv' /\ ColourInv'
<1>1. InTurn'
  BY InTurnKept
<1>2. ShapeInv'
  BY <1>1 DEF ShapeInv
<1>3. p \in keys /\ ~RightRed /\ (red[p] => ~LeftRed)
  <2>1. p \in keys /\ ~RightRed
    BY ShapeFacts
  <2>2. red[p] => parent[p] # 0 /\ right[parent[p]] # p
    <3>1. /\ parent[p] \in keys \cup {0} /\ Distinct(left, right, parent, p)
          /\ parent[p] = 0 => p = root
      BY <2>1, ShapeFacts
    <3>2. red[p] => parent[p] # 0
      BY <3>1 DEF ColourInv
    <3>3. parent[p] # 0 => parent[p] \in keys \ {p}
      BY <3>1 DEF Distinct
    <3>4. parent[p] # 0 => ~rbtree_is_red(right[parent[p]])
      BY <3>3 DEF ColourInv
    <3> QED
      BY <3>2, <3>4 DEF rbtree_is_red
  <2>3. red[p] => InThreeNode
    BY <2>1, <2>2, ShapeFacts DEF InThreeNode
  <2> QED
    BY <2>1, <2>3
<1>4. \A x \in keys : ~rbtree_is_red(right[x]) /\ (red[x] => ~rbtree_is_red(left[x]))
  BY <1>3 DEF ColourInv, LeftRed, RightRed
<1> QED
  BY <1>2, <1>4 DEF ColourInv, rbtree_is_red, LeftRed, RightRed

\* One step of a repair.
LEMMA RepairStep ==
    ASSUME ShapeInv, ColourInv, repair
    PROVE  ShapeInv' /\ ColourInv'
<1>1. CASE LeftRed /\ RightRed
  BY <1>1, FlipColours DEF repair
<1>2. CASE ~(LeftRed /\ RightRed) /\ LeftRed /\ InThreeNode
  BY <1>2, RightColours DEF repair
<1>3. CASE ~LeftRed /\ RightRed
  BY <1>3, LeftColours DEF repair
<1>4. CASE ~(LeftRed /\ RightRed) /\ ~(LeftRed /\ InThreeNode) /\ ~(~LeftRed /\ RightRed)
  BY <1>4, RepairEnds DEF repair
<1> QED
  BY <1>1, <1>2, <1>3, <1>4

\* Where the loop of rbtree_insert ends for a new node: the only place for it.
LEMMA PlaceFound ==
    ASSUME ShapeInv, root # 0, NEW n \in Node, equal => Unused(n), NEW lo, NEW hi,
           Spans(keys, root, left, right, Itself, lo, hi, 0, MaxNode + 1)
    PROVE  LET y == Last(Toward(n), root)
           IN  /\ y \in keys /\ (n \in keys => y = n)
               /\ y # n => /\ n \notin keys /\ lo[y] < n /\ n < hi[y]
                           /\ IF n < y THEN left[y] = 0 ELSE right[y] = 0
                           /\ \A x \in keys : left[x] = 0 /\ lo[x] < n /\ n < x => x = y
                           /\ \A x \in keys : right[x] = 0 /\ x < n /\ n < hi[x] => x = y
<1> DEFINE nx == Toward(n)
           y == Last(nx, root)
<1>1. Tree(keys, root, left, right, parent) /\ keys \subseteq Node
  BY DEF ShapeInv, Tree
<1>2. Seeks(keys, left, right, Itself, n, nx)
  BY TowardSeeks
<1>3. /\ Itself[n] = n /\ 0 < Itself[n] /\ Itself[n] < MaxNode + 1
      /\ \A x \in keys : Itself[x] = Itself[n] => x = n
      /\ \A x \in keys : Itself[x] = x
  BY <1>1, Names
<1> HIDE DEF nx
<1>4. /\ y \in keys /\ nx[y] = 0 /\ Above(Itself, lo, hi, n, y)
      /\ \A x \in keys : Above(Itself, lo, hi, n, x) /\ nx[x] = 0 => x = y
      /\ n \in keys => y = n
  <2>1. EndsAt(keys, Itself, lo, hi, n, nx, Last(nx, root))
    BY <1>1, <1>2, <1>3, SearchEnds
  <2> QED
    BY <2>1 DEF EndsAt
<1> HIDE DEF y
<1>5. \A x \in keys : nx[x] = IF x = n THEN 0 ELSE IF n < x THEN left[x] ELSE right[x]
  BY <1>2, <1>3 DEF Seeks
<1>6. \A x \in keys : lo[x] \in Int /\ hi[x] \in Int /\ x \in Int /\ lo[x] < x /\ x < hi[x] /\ n \in Int
  <2>1. \A x \in keys : /\ lo[x] \in Int /\ hi[x] \in Int /\ lo[x] < Itself[x] /\ Itself[x] < hi[x]
    BY <1>1 DEF Spans
  <2> QED
    BY <1>1, <1>3, <2>1, Names
<1>7. \A x \in keys : Above(Itself, lo, hi, n, x) <=> lo[x] < n /\ n < hi[x]
  BY <1>3 DEF Above
<1>8. \A x \in keys : left[x] = 0 /\ lo[x] < n /\ n < x => x = y
  <2> SUFFICES ASSUME NEW x \in keys, left[x] = 0, lo[x] < n, n < x PROVE x = y
    OBVIOUS
  <2>1. n < hi[x]
    BY <1>6, SMTT(30)
  <2> QED
    BY <1>4, <1>5, <1>7, <2>1
<1>9. \A x \in keys : right[x] = 0 /\ x < n /\ n < hi[x] => x = y
  <2> SUFFICES ASSUME NEW x \in keys, right[x] = 0, x < n, n < hi[x] PROVE x = y
    OBVIOUS
  <2>1. lo[x] < n /\ ~(n < x)
    BY <1>6, SMTT(30)
  <2> QED
    BY <1>4, <1>5, <1>7, <2>1
<1>10. y # n => n \notin keys /\ lo[y] < n /\ n < hi[y] /\ IF n < y THEN left[y] = 0 ELSE right[y] = 0
  BY <1>4, <1>5, <1>7
<1> QED
  BY <1>4, <1>8, <1>9, <1>10 DEF y, nx

\* A new leaf keeps the tree and its order.
LEMMA HangShape ==
    ASSUME ShapeInv, root # 0, NEW n \in Node, equal => Unused(n), NEW y, y = Last(Toward(n), root),
           y # n, Hang(n, y), keys' = keys \cup {n}, equal' = equal
    PROVE  /\ ShapeInv' /\ y \in keys /\ n \notin keys
           /\ \/ left[y] = 0 /\ left' = Put(left, y, n) /\ right' = right
              \/ right[y] = 0 /\ right' = Put(right, y, n) /\ left' = left
<1>1. PICK lo, hi : Spans(keys, root, left, right, Itself, lo, hi, 0, MaxNode + 1)
  BY DEF ShapeInv, Spanned
<1>2. /\ y \in keys /\ n \notin keys /\ lo[y] < n /\ n < hi[y]
      /\ IF n < y THEN left[y] = 0 ELSE right[y] = 0
      /\ \A x \in keys : left[x] = 0 /\ lo[x] < n /\ n < x => x = y
      /\ \A x \in keys : right[x] = 0 /\ x < n /\ n < hi[x] => x = y
  BY <1>1, PlaceFound
<1>3. KeyOf(n) < KeyOf(y) <=> n < y
  BY <1>2, KeysAgree
<1>4. /\ parent' = Put(parent, n, y) /\ root' = root /\ p' = y /\ red' = [red EXCEPT ![n] = TRUE]
      /\ IF n < y THEN left' = Put(left, y, n) /\ right' = right
         ELSE right' = Put(right, y, n) /\ left' = left
  BY <1>3 DEF Hang, Put
<1>5. /\ Tree(keys, root, left, right, parent) /\ keys \subseteq Node
      /\ Spanned(keys, root, left, right, Itself, 0, MaxNode + 1) /\ red \in [Node -> BOOLEAN]
      /\ \A x \in Node \ keys : parent[x] = 0 /\ ~red[x]
  BY DEF ShapeInv, Tree
<1>6. /\ \A x \in keys : Itself[x] = x /\ lo[x] \in Int /\ hi[x] \in Int /\ x \in Int /\ x \in Node
      /\ Itself[n] = n /\ n \in Int /\ lo \in [Node -> Int] /\ hi \in [Node -> Int]
      /\ \A x \in keys : lo[x] < x /\ x < hi[x]
  <2>1. /\ lo \in [Node -> Int] /\ hi \in [Node -> Int]
        /\ \A x \in keys : lo[x] < Itself[x] /\ Itself[x] < hi[x]
    BY <1>1 DEF Spans
  <2> QED
    BY <1>5, <2>1, Names
<1>7. Tree(keys', root', left', right', parent') /\ Spanned(keys', root', left', right', Itself, 0, MaxNode + 1)
  <2>1. CASE ~(n < y)
    <3>1. right[y] = 0 /\ right' = Put(right, y, n) /\ left' = left
      BY <1>2, <1>4, <2>1
    <3>2. Tree(keys', root', left', right', parent')
      BY <1>2, <1>4, <1>5, <3>1, LeafTree
    <3>3. y < n
      BY <1>2, <1>6, <2>1, y # n, SMTT(30)
    <3>4. \A x \in keys : left[x] = 0 => ~(lo[x] < Itself[n] /\ Itself[n] < Itself[x])
      BY <1>2, <1>6, <2>1
    <3>5. \A x \in keys \ {y} : right[x] = 0 => ~(Itself[x] < Itself[n] /\ Itself[n] < hi[x])
      BY <1>2, <1>6
    <3>6. Itself[y] < Itself[n] /\ Itself[n] < hi[y]
      BY <1>2, <1>6, <3>3
    <3>7. Spanned(keys', root', left', right', Itself, 0, MaxNode + 1)
      BY <1>1, <1>2, <1>4, <1>5, <3>1, <3>4, <3>5, <3>6, LeafSpans
    <3> QED
      BY <3>2, <3>7
  <2>2. CASE n < y
    <3>1. left[y] = 0 /\ left' = Put(left, y, n) /\ right' = right
      BY <1>2, <1>4, <2>2
    <3>2. Tree(keys, root, right, left, parent)
      BY <1>5, TreeTurned
    <3>3. Tree(keys', root', right', left', parent')
      BY <1>2, <1>4, <3>1, <3>2, LeafTree
    <3> DEFINE np == Negative(Itself)
               nl == Negative(lo)
               nh == Negative(hi)
    <3>4. Spans(keys, root, right, left, np, nh, nl, 0 - (MaxNode + 1), 0 - 0)
      BY <1>1, <1>5, SpansNegated
    <3>5. /\ \A x \in keys : np[x] = 0 - x /\ nl[x] = 0 - lo[x] /\ nh[x] = 0 - hi[x]
          /\ np[n] = 0 - n
      BY <1>6, Names DEF Negative
    <3> HIDE DEF np, nl, nh
    <3>6. \A x \in keys : right[x] = 0 => ~(nh[x] < np[n] /\ np[n] < np[x])
      <4> SUFFICES ASSUME NEW x \in keys, right[x] = 0, nh[x] < np[n], np[n] < np[x] PROVE FALSE
        OBVIOUS
      <4>1. x < n /\ n < hi[x]
        BY <1>6, <3>5, SMTT(30)
      <4>2. x = y
        BY <1>2, <4>1
      <4> QED
        BY <1>6, <2>2, <4>1, <4>2, SMTT(30)
    <3>7. \A x \in keys \ {y} : left[x] = 0 => ~(np[x] < np[n] /\ np[n] < nl[x])
      <4> SUFFICES ASSUME NEW x \in keys \ {y}, left[x] = 0, np[x] < np[n], np[n] < nl[x] PROVE FALSE
        OBVIOUS
      <4>1. n < x /\ lo[x] < n
        BY <1>6, <3>5, SMTT(30)
      <4> QED
        BY <1>2, <4>1
    <3>8. np[y] < np[n] /\ np[n] < nl[y]
      BY <1>2, <1>6, <2>2, <3>5, SMTT(30)
    <3>9. Spanned(keys', root', right', left', np, 0 - (MaxNode + 1), 0 - 0)
      BY <1>2, <1>4, <3>1, <3>2, <3>4, <3>6, <3>7, <3>8, LeafSpans
    <3>10. Tree(keys', root', left', right', parent')
      BY <3>3, TreeTurned
    <3>11. Spanned(keys', root', left', right', Itself, 0, MaxNode + 1)
      BY <3>9, <3>10, TurnedBack, Names DEF np
    <3> QED
      BY <3>10, <3>11
  <2> QED
    BY <2>1, <2>2
<1>8. /\ p' \in keys' \cup {0} /\ red' \in [Node -> BOOLEAN] /\ equal' \in BOOLEAN
      /\ \A x \in Node \ keys' : parent'[x] = 0 /\ ~red'[x]
  <2>1. parent \in [Node -> keys \cup {0}]
    BY <1>5 DEF Tree
  <2>2. \A x \in Node \ keys' : parent'[x] = parent[x]
    BY <1>4, <2>1, SMTT(30) DEF Put
  <2>3. red' \in [Node -> BOOLEAN] /\ \A x \in Node \ keys' : red'[x] = red[x]
    BY <1>4, <1>5
  <2> QED
    BY <1>2, <1>4, <1>5, <2>2, <2>3 DEF ShapeInv
<1>9. InTurn'
  <2> SUFFICES ASSUME equal, NEW x \in keys', NEW z \in Node, z < x, KeyOf(z) = KeyOf(x) PROVE z \in keys'
    BY DEF InTurn, KeyOf
  <2>1. CASE x \in keys
    BY <2>1 DEF ShapeInv, InTurn
  <2>2. CASE x = n
    <3>1. z \notin keys => n <= z
      BY <2>2 DEF Unused
    <3>2. ~(n <= z)
      BY <2>2, SMTT(30) DEF Node
    <3> QED
      BY <3>1, <3>2
  <2> QED
    BY <2>1, <2>2
<1>10. ShapeInv'
  BY <1>7, <1>8, <1>9 DEF ShapeInv
<1> QED
  BY <1>2, <1>4, <1>10

\* A red leaf below a node of a red-black tree.
LEMMA HangColours ==
    ASSUME ShapeInv, ColourInv, p = 0, root # 0, NEW n \in Node, equal => Unused(n),
           NEW y, y = Last(Toward(n), root), y # n, Hang(n, y), keys' = keys \cup {n}, equal' = equal
    PROVE  ShapeInv' /\ ColourInv'
<1>1. /\ ShapeInv' /\ y \in keys /\ n \notin keys
      /\ \/ left[y] = 0 /\ left' = Put(left, y, n) /\ right' = right
         \/ right[y] = 0 /\ right' = Put(right, y, n) /\ left' = left
  BY HangShape
<1>2. root' = root /\ p' = y /\ red' = [red EXCEPT ![n] = TRUE]
  BY DEF Hang
<1> DEFINE R == {k \in keys : red[k]}
           R2 == {k \in keys' : red'[k]}
<1>3. /\ keys \subseteq Node /\ 0 \notin keys /\ n # 0 /\ root \in keys /\ red \in [Node -> BOOLEAN]
      /\ left \in [Node -> keys \cup {0}] /\ right \in [Node -> keys \cup {0}]
      /\ left[n] = 0 /\ right[n] = 0
      /\ \A k \in keys : left[k] # 0 => left[k] # right[k]
  <2>1. Tree(keys, root, left, right, parent) /\ red \in [Node -> BOOLEAN]
    BY DEF ShapeInv
  <2>2. \A k \in keys : left[k] # 0 => left[k] # right[k]
    BY ShapeFacts DEF Distinct
  <2> QED
    BY <1>1, <2>1, <2>2, ShapeFacts, Names DEF Tree
<1>4. /\ R2 = R \cup {n} /\ R \subseteq keys
      /\ \A k \in Node : red'[k] <=> red[k] \/ k = n
  BY <1>1, <1>2, <1>3
<1>5. /\ \A k \in keys' : /\ left'[k] = left[k] \/ (k = y /\ left[y] = 0 /\ left'[k] = n)
                          /\ right'[k] = right[k] \/ (k = y /\ right[y] = 0 /\ right'[k] = n)
      /\ left'[y] # n \/ right'[y] # n
  <2>1. keys' \subseteq Node /\ y \in Node
    BY <1>1, <1>3
  <2>2. CASE left[y] = 0 /\ left' = Put(left, y, n) /\ right' = right
    BY <1>1, <1>3, <2>1, <2>2, SMTT(30) DEF Put
  <2>3. CASE right[y] = 0 /\ right' = Put(right, y, n) /\ left' = left
    BY <1>1, <1>3, <2>1, <2>3, SMTT(30) DEF Put
  <2> QED
    BY <1>1, <2>2, <2>3
<1>6. /\ root \notin R
      /\ \A k \in keys : right[k] \notin R /\ (k \in R => left[k] \notin R)
  BY <1>3 DEF ColourInv, rbtree_is_red
<1>7. \A k \in keys : left[k] \in keys \cup {0} /\ right[k] \in keys \cup {0}
  BY <1>3
<1> HIDE DEF R, R2
<1>8. root \notin R2
  BY <1>1, <1>3, <1>4, <1>6
<1>9. \A k \in keys' \ {y} : right'[k] \notin R2 /\ (k \in R2 => left'[k] \notin R2)
  <2> TAKE k \in keys' \ {y}
  <2>1. left'[k] = left[k] /\ right'[k] = right[k]
    BY <1>5
  <2>2. CASE k = n
    BY <1>3, <1>4, <2>1, <2>2
  <2>3. CASE k \in keys
    BY <1>1, <1>3, <1>4, <1>6, <1>7, <2>1, <2>3
  <2> QED
    BY <2>2, <2>3
<1>10. left'[y] \in R2 /\ right'[y] \in R2 => y \notin R2
  <2> SUFFICES ASSUME left'[y] \in R2, right'[y] \in R2, y \in R2 PROVE FALSE
    OBVIOUS
  <2>1. y \in R /\ left[y] \notin R2 /\ right[y] \notin R2
    BY <1>1, <1>3, <1>4, <1>6, <1>7
  <2>2. left'[y] = n /\ right'[y] = n
    BY <1>1, <1>5, <2>1
  <2> QED
    BY <1>5, <2>2
<1>11. Balanced(keys', left', right', red')
  <2>1. PICK h : Heights(keys, left, right, red, h)
    BY DEF ColourInv, Balanced
  <2>2. /\ h \in [Pointer -> Nat] /\ h[0] = 0 /\ keys \cup {0} \subseteq Pointer /\ n \in Pointer
        /\ \A k \in keys : h[left[k]] = h[right[k]] /\ h[k] = h[left[k]] + (IF red[k] THEN 0 ELSE 1)
    BY <1>3, <2>1, SMTT(30) DEF Heights, Node, Pointer
  <2> DEFINE g == [k \in Pointer |-> IF k = n THEN 0 ELSE h[k]]
  <2>3. g \in [Pointer -> Nat] /\ g[0] = 0
    BY <2>2, SMTT(30)
  <2>4. g[n] = 0 /\ \A k \in keys \cup {0} : g[k] = h[k]
    BY <1>1, <1>3, <2>2
  <2> HIDE DEF g
  <2>5. \A k \in keys : g[left'[k]] = h[left[k]] /\ g[right'[k]] = h[right[k]]
    <3> TAKE k \in keys
    <3>1. g[left[k]] = h[left[k]] /\ g[right[k]] = h[right[k]]
      BY <1>7, <2>4
    <3>2. g[left'[k]] = h[left[k]]
      BY <1>1, <1>5, <2>2, <2>4, <3>1
    <3>3. g[right'[k]] = h[right[k]]
      BY <1>1, <1>5, <2>2, <2>4, <3>1
    <3> QED
      BY <3>2, <3>3
  <2>6. \A k \in keys' : g[left'[k]] = g[right'[k]] /\ g[k] = g[left'[k]] + (IF red'[k] THEN 0 ELSE 1)
    <3> TAKE k \in keys'
    <3>1. CASE k = n
      <4>1. left'[n] = 0 /\ right'[n] = 0 /\ red'[n]
        BY <1>1, <1>3, <1>4, <1>5, <3>1
      <4>2. (IF red'[n] THEN 0 ELSE 1) = 0
        BY <4>1
      <4> QED
        BY <2>3, <2>4, <3>1, <4>1, <4>2, SMTT(30)
    <3>2. CASE k \in keys
      <4>1. red'[k] <=> red[k]
        BY <1>1, <1>3, <1>4, <3>2
      <4> QED
        BY <2>2, <2>4, <2>5, <3>2, <4>1
    <3> QED
      BY <3>1, <3>2
  <2>7. Heights(keys', left', right', red', g)
    BY <2>3, <2>6 DEF Heights
  <2> QED
    BY <2>7 DEF Balanced
<1>12. ColourInv'
  <2>1. /\ \A k \in keys' : left'[k] \in keys' \cup {0} /\ right'[k] \in keys' \cup {0}
        /\ y \in keys'
    <3>1. Tree(keys, root, left, right, parent)'
      BY <1>1 DEF ShapeInv
    <3>2. /\ keys' \subseteq Node
          /\ left' \in [Node -> keys' \cup {0}] /\ right' \in [Node -> keys' \cup {0}]
      BY <3>1 DEF Tree
    <3>3. y \in keys'
      BY <1>1
    <3> QED
      BY <3>2, <3>3
  <2>2. ~red'[root]
    BY <1>3, <1>8 DEF R2
  <2>3. \A k \in keys' \ {y} : /\ ~(right'[k] # 0 /\ red'[right'[k]])
                               /\ red'[k] => ~(left'[k] # 0 /\ red'[left'[k]])
    BY <2>1, <1>9 DEF R2
  <2>4. ASSUME left'[y] # 0, red'[left'[y]], right'[y] # 0, red'[right'[y]]
        PROVE  ~red'[y]
    <3>1. left'[y] \in R2 /\ right'[y] \in R2
      BY <2>1, <2>4 DEF R2
    <3> QED
      BY <1>10, <2>1, <3>1 DEF R2
  <2> QED
    BY <1>2, <1>11, <2>2, <2>3, <2>4 DEF ColourInv, rbtree_is_red, LeftRed, RightRed
<1> QED
  BY <1>1, <1>12

\* The first node.
LEMMA FirstNode ==
    ASSUME ShapeInv, ColourInv, p = 0, root = 0, NEW n \in Node, equal => Unused(n),
           MakesRoot(n), keys' = keys \cup {n}, equal' = equal
    PROVE  ShapeInv' /\ ColourInv'
<1>1. /\ keys = {} /\ left \in [Node -> {0}] /\ right \in [Node -> {0}] /\ parent \in [Node -> {0}]
      /\ red \in [Node -> BOOLEAN] /\ (\A x \in Node : ~red[x]) /\ n # 0
  BY Names DEF ShapeInv, Tree
<1>2. root' = n /\ keys' = {n} /\ UNCHANGED <<left, right, parent, red, p, equal>>
  BY <1>1 DEF MakesRoot
<1>3. Tree(keys', root', left', right', parent')
  <2>1. \A x \in Node : left[x] = 0 /\ right[x] = 0 /\ parent[x] = 0
    BY <1>1
  <2>2. left \in [Node -> {n, 0}] /\ right \in [Node -> {n, 0}] /\ parent \in [Node -> {n, 0}] /\ {n, 0} = {n} \cup {0}
    BY <1>1
  <2> QED
    BY <1>1, <1>2, <2>1, <2>2 DEF Tree
<1>4. Spanned(keys', root', left', right', Itself, 0, MaxNode + 1)
  <2> DEFINE lo == [x \in Node |-> 0]
             hi == [x \in Node |-> MaxNode + 1]
  <2>1. lo \in [Node -> Int] /\ hi \in [Node -> Int] /\ lo[n] = 0 /\ hi[n] = MaxNode + 1
    BY Names
  <2> HIDE DEF lo, hi
  <2>2. left[n] = 0 /\ right[n] = 0 /\ 0 <= lo[n] /\ hi[n] <= MaxNode + 1
    BY <1>1, <2>1, SMTT(30)
  <2>3. ~(Itself[n] < Itself[n])
    BY Names, SMTT(30)
  <2>4. Spans(keys', root', left', right', Itself, lo, hi, 0, MaxNode + 1)
    BY <1>2, <2>1, <2>2, <2>3, Names DEF Spans
  <2> QED
    BY <2>4 DEF Spanned
<1>5. InTurn'
  <2> SUFFICES ASSUME equal, NEW x \in keys', NEW z \in Node, z < x, KeyOf(z) = KeyOf(x) PROVE z \in keys'
    BY DEF InTurn, KeyOf
  <2>1. n <= z /\ x = n
    BY <1>1, <1>2 DEF Unused
  <2> QED
    BY <2>1, SMTT(30) DEF Node
<1>6. ShapeInv'
  BY <1>1, <1>2, <1>3, <1>4, <1>5 DEF ShapeInv
<1>7. Balanced(keys', left', right', red')
  <2> DEFINE h == [x \in Pointer |-> IF x = 0 THEN 0 ELSE 1]
  <2>1. h \in [Pointer -> Nat] /\ h[0] = 0 /\ h[n] = 1
    BY SMTT(30) DEF Pointer, Node
  <2> HIDE DEF h
  <2>2. left[n] = 0 /\ right[n] = 0 /\ (IF red[n] THEN 0 ELSE 1) = 1
    BY <1>1
  <2>3. 0 + 1 = 1
    BY SMTT(30)
  <2>4. Heights(keys', left', right', red', h)
    BY <1>2, <2>1, <2>2, <2>3 DEF Heights
  <2> QED
    BY <2>4 DEF Balanced
<1>8. ColourInv'
  BY <1>1, <1>2, <1>7 DEF ColourInv, rbtree_is_red
<1> QED
  BY <1>6, <1>8

\* An insertion, up to its repair.
LEMMA InsertStep ==
    ASSUME ShapeInv, ColourInv, NEW n \in Node, equal => Unused(n), rbtree_insert(n)
    PROVE  ShapeInv' /\ ColourInv'
<1> DEFINE y == Last(Toward(n), root)
<1>1. p = 0 /\ keys' = keys \cup {n} /\ equal' = equal
  BY DEF rbtree_insert
<1>2. CASE root = 0
  BY <1>1, <1>2, FirstNode DEF rbtree_insert
<1>3. CASE root # 0 /\ y = n
  <2>1. UNCHANGED <<links, red, p>>
    BY <1>3 DEF rbtree_insert
  <2>2. n \in keys
    <3>1. PICK lo, hi : Spans(keys, root, left, right, Itself, lo, hi, 0, MaxNode + 1)
      BY DEF ShapeInv, Spanned
    <3> QED
      BY <1>3, <3>1, PlaceFound
  <2>3. UNCHANGED <<root, left, right, parent, red, p, equal, keys>>
    BY <1>1, <2>1, <2>2 DEF links
  <2>4. InTurn'
    BY <2>3, InTurnKept
  <2> QED
    BY <2>3, <2>4 DEF ShapeInv, ColourInv, rbtree_is_red, LeftRed, RightRed
<1>4. CASE root # 0 /\ y # n
  <2>1. Hang(n, y)
    BY <1>4 DEF rbtree_insert
  <2> QED
    BY <1>1, <1>4, <2>1, HangColours
<1> QED
  BY <1>2, <1>3, <1>4

\* The tree, its order and its colours are kept by every step of the insertions of
\* rb_tree.cpp and test_rb_tree.cpp.
LEMMA TreeInvariant == TreeSpec => [](ShapeInv /\ ColourInv)
<1>1. TreeInit => ShapeInv /\ ColourInv
  <2> SUFFICES ASSUME TreeInit PROVE ShapeInv /\ ColourInv
    OBVIOUS
  <2>1. /\ equal \in BOOLEAN /\ root = 0 /\ p = 0 /\ keys = {}
        /\ left \in [Node -> {0}] /\ right \in [Node -> {0}]
        /\ parent \in [Node -> {0}] /\ red \in [Node -> BOOLEAN] /\ \A x \in Node : ~red[x]
    BY DEF TreeInit
  <2>2. \A x \in Node : left[x] = 0 /\ right[x] = 0 /\ parent[x] = 0
    BY <2>1
  <2>3. Tree(keys, root, left, right, parent)
    <3>1. {} \cup {0} = {0}
      OBVIOUS
    <3> QED
      BY <2>1, <2>2, <3>1 DEF Tree
  <2>4. Spans(keys, root, left, right, Itself, Itself, Itself, 0, MaxNode + 1)
    BY <2>1, Names DEF Spans
  <2>5. ShapeInv
    BY <2>1, <2>2, <2>3, <2>4 DEF ShapeInv, Spanned, InTurn
  <2>6. Balanced(keys, left, right, red)
    <3> DEFINE h == [x \in Pointer |-> 0]
    <3>1. h \in [Pointer -> Nat] /\ h[0] = 0
      BY SMTT(30) DEF Pointer
    <3> HIDE DEF h
    <3>2. Heights(keys, left, right, red, h)
      BY <2>1, <3>1 DEF Heights
    <3> QED
      BY <3>2 DEF Balanced
  <2> QED
    BY <2>1, <2>5, <2>6 DEF ColourInv
<1>2. ShapeInv /\ ColourInv /\ [TreeNext]_treeVars => (ShapeInv /\ ColourInv)'
  <2> SUFFICES ASSUME ShapeInv, ColourInv, [TreeNext]_treeVars PROVE (ShapeInv /\ ColourInv)'
    OBVIOUS
  <2>1. CASE repair
    BY <2>1, RepairStep
  <2>2. ASSUME NEW n \in Node, equal => Unused(n), rbtree_insert(n)
        PROVE  (ShapeInv /\ ColourInv)'
    BY <2>2, InsertStep
  <2>3. CASE UNCHANGED treeVars
    <3>1. UNCHANGED <<root, left, right, parent, red, p, equal, keys>>
      BY <2>3 DEF treeVars, links
    <3>2. InTurn'
      BY <3>1, InTurnKept
    <3> QED
      BY <3>1, <3>2 DEF ShapeInv, ColourInv, rbtree_is_red, LeftRed, RightRed
  <2> QED
    BY <2>1, <2>2, <2>3 DEF TreeNext
<1> QED
  BY <1>1, <1>2, PTL DEF TreeSpec

\* In every tree that the invariant allows, links agree, walk and search are right.
LEMMA ShapeOrdered ==
    ASSUME ShapeInv
    PROVE  Ordered
<1>1. Linked
  <2>1. \A x, y \in Node : Child(x, y) <=> parent[y] = x
    <3> TAKE x, y \in Node
    <3>1. x # 0 /\ y # 0
      BY Names
    <3>2. x \in keys \/ (left[x] = 0 /\ right[x] = 0)
      BY DEF ShapeInv, Tree
    <3>3. y \in keys \/ parent[y] = 0
      BY DEF ShapeInv
    <3> QED
      BY <3>1, <3>2, <3>3, ShapeFacts DEF Child
  <2> QED
    BY <2>1 DEF Linked, ShapeInv, Tree
<1>2. Listed
  <2> DEFINE s == rbtree_inorder_walk(root)
  <2>1. Lists(keys, Itself, 0, MaxNode + 1, s)
    <3>1. \A x, y \in keys : Itself[x] = Itself[y] => x = y
      <4>1. keys \subseteq Node
        BY ShapeFacts
      <4> QED
        BY <4>1, Names
    <3> QED
      BY <3>1, WalkLists DEF ShapeInv, rbtree_inorder_walk
  <2> HIDE DEF s
  <2>2. /\ s \in Seq(keys) /\ \A k \in keys : \E i \in 1..Len(s) : s[i] = k
        /\ \A i, j \in 1..Len(s) : i < j => Itself[s[i]] < Itself[s[j]]
    BY <2>1, Names, ShapeFacts DEF Lists
  <2>3. DOMAIN s = 1..Len(s) /\ (\A i \in 1..Len(s) : s[i] \in keys) /\ Len(s) \in Nat
    BY <2>2, SMTT(30)
  <2>4. {s[k] : k \in DOMAIN s} = keys
    BY <2>2, <2>3
  <2>5. \A k \in 1..(Len(s) - 1) : s[k] < s[k + 1]
    <3> TAKE k \in 1..(Len(s) - 1)
    <3>1. k \in 1..Len(s) /\ k + 1 \in 1..Len(s) /\ k < k + 1
      BY <2>3, SMTT(30)
    <3>2. Itself[s[k]] < Itself[s[k + 1]]
      BY <2>2, <3>1
    <3>3. Itself[s[k]] = s[k] /\ Itself[s[k + 1]] = s[k + 1]
      BY <2>3, <3>1, Names, ShapeFacts
    <3> QED
      BY <3>2, <3>3
  <2> QED
    BY <2>4, <2>5 DEF Listed, s
<1>3. ~equal => \A n \in Node : rbtree_search(n) = IF n \in keys THEN n ELSE 0
  <2> SUFFICES ASSUME ~equal, NEW n \in Node PROVE rbtree_search(n) = IF n \in keys THEN n ELSE 0
    OBVIOUS
  <2>1. CASE root = 0
    BY <2>1, ShapeFacts DEF rbtree_search
  <2>2. CASE root # 0
    <3>1. PICK lo, hi : Spans(keys, root, left, right, Itself, lo, hi, 0, MaxNode + 1)
      BY DEF ShapeInv, Spanned
    <3>2. Last(Toward(n), root) \in keys /\ (n \in keys => Last(Toward(n), root) = n)
      BY <2>2, <3>1, PlaceFound
    <3> QED
      BY <2>2, <3>2 DEF rbtree_search
  <2> QED
    BY <2>1, <2>2
<1> QED
  BY <1>1, <1>2, <1>3 DEF Ordered

\* In every state of an insertion into the trees of rb_tree.cpp and test_rb_tree.cpp,
\* parents and children agree, the walk lists the nodes in order and rbtree_search
\* finds exactly the keys inserted, for any number of nodes.
THEOREM TreeOrdered == TreeSpec => []Ordered
BY TreeInvariant, ShapeOrdered, PTL

\* The black nodes below a node in terms of those below its children.
Counted(a, x, b) == IF a = -1 \/ a # b THEN -1 ELSE a + (IF red[x] THEN 0 ELSE 1)

\* A step of the count.
LEMMA BlacksStep ==
    ASSUME ShapeInv
    PROVE  Blacks[0] = 0 /\ \A x \in Node : Blacks[x] = Counted(Blacks[left[x]], x, Blacks[right[x]])
<1>1. PICK w, top : Ranked(left, right, w, top)
  BY TreeRanked DEF ShapeInv
<1>0. /\ 0 \in Pointer /\ 0 \notin Node /\ Pointer = Node \cup {0}
      /\ \A y \in Node : left[y] \in Pointer /\ right[y] \in Pointer
  BY <1>1, SMTT(30) DEF Ranked, Pointer, Node
<1> DEFINE c == [t \in Int \X Node \X Int |-> Counted(t[1], t[2], t[3])]
           Eq(f) == f = [x \in Pointer |->
                           CASE x = 0 -> 0
                             [] x # 0 /\ (f[left[x]] = -1 \/ f[left[x]] # f[right[x]]) -> -1
                             [] OTHER -> f[left[x]] + (IF red[x] THEN 0 ELSE 1)]
<1>2. PICK f \in [Pointer -> Int] : Recurs(left, right, 0, c, f)
  <2>1. \A a, b \in Int : \A x \in Node : Counted(a, x, b) \in Int
    BY SMTT(30) DEF Counted
  <2>2. c \in [Int \X Node \X Int -> Int]
    BY <2>1
  <2>3. 0 \in Int
    BY SMTT(30)
  <2> HIDE DEF c
  <2> QED
    BY <1>1, <2>2, <2>3, TreeRecursion
<1>3. \A y \in Node : f[y] = Counted(f[left[y]], y, f[right[y]])
  <2> TAKE y \in Node
  <2>1. <<f[left[y]], y, f[right[y]]>> \in Int \X Node \X Int
    BY <1>0
  <2>2. c[<<f[left[y]], y, f[right[y]]>>] = Counted(f[left[y]], y, f[right[y]])
    BY <2>1
  <2> HIDE DEF c
  <2> QED
    BY <1>2, <2>2 DEF Recurs
<1>4. f[0] = 0
  <2> HIDE DEF c
  <2> QED
    BY <1>2 DEF Recurs
<1> HIDE DEF c
<1>5. \A x \in Pointer : f[x] = CASE x = 0 -> 0
                                  [] x # 0 /\ (f[left[x]] = -1 \/ f[left[x]] # f[right[x]]) -> -1
                                  [] OTHER -> f[left[x]] + (IF red[x] THEN 0 ELSE 1)
  BY <1>0, <1>3, <1>4 DEF Counted
<1>6. Eq(f)
  BY <1>5
<1>7. Blacks = CHOOSE f2 : Eq(f2)
  BY DEF Blacks
<1>8. Eq(Blacks)
  <2> HIDE DEF Eq
  <2> QED
    BY <1>6, <1>7
<1> DEFINE g == Blacks
<1>9. g = [x \in Pointer |-> CASE x = 0 -> 0
                               [] x # 0 /\ (g[left[x]] = -1 \/ g[left[x]] # g[right[x]]) -> -1
                               [] OTHER -> g[left[x]] + (IF red[x] THEN 0 ELSE 1)]
  BY <1>8
<1> HIDE DEF g
<1>10. \A x \in Pointer : g[x] = CASE x = 0 -> 0
                                   [] x # 0 /\ (g[left[x]] = -1 \/ g[left[x]] # g[right[x]]) -> -1
                                   [] OTHER -> g[left[x]] + (IF red[x] THEN 0 ELSE 1)
  BY <1>9
<1>11. g[0] = 0 /\ \A x \in Node : g[x] = Counted(g[left[x]], x, g[right[x]])
  BY <1>0, <1>10 DEF Counted
<1> QED
  BY <1>11 DEF g

\* Where the invariant says that ways have as many black nodes, counting finds so.
LEMMA BlacksAgree ==
    ASSUME ShapeInv, ColourInv
    PROVE  Blacks[root] # -1
<1>1. PICK w, top : Ranked(left, right, w, top)
  BY TreeRanked DEF ShapeInv
<1>2. PICK h : Heights(keys, left, right, red, h)
  BY DEF ColourInv, Balanced
<1>3. Blacks[0] = 0 /\ \A x \in Node : Blacks[x] = Counted(Blacks[left[x]], x, Blacks[right[x]])
  BY BlacksStep
<1>4. /\ keys \subseteq Node /\ root \in keys \cup {0}
      /\ \A x \in keys : left[x] \in keys \cup {0} /\ right[x] \in keys \cup {0}
  BY ShapeFacts
<1>5. /\ h[0] = 0 /\ \A x \in keys \cup {0} : h[x] \in Nat /\ x \in Pointer
      /\ \A x \in keys : h[left[x]] = h[right[x]] /\ h[x] = h[left[x]] + (IF red[x] THEN 0 ELSE 1)
  <2>1. keys \cup {0} \subseteq Pointer
    BY <1>4, SMTT(30) DEF Node, Pointer
  <2> QED
    BY <1>2, <2>1 DEF Heights
<1> DEFINE Bad == {k \in Nat : \E x \in keys \cup {0} : w[x] = k /\ Blacks[x] # h[x]}
<1>6. \A x \in keys : Blacks[left[x]] = h[left[x]] /\ Blacks[right[x]] = h[right[x]] => Blacks[x] = h[x]
  <2> SUFFICES ASSUME NEW x \in keys, Blacks[left[x]] = h[left[x]], Blacks[right[x]] = h[right[x]]
               PROVE  Blacks[x] = h[x]
    OBVIOUS
  <2>1. h[left[x]] # -1
    BY <1>4, <1>5, SMTT(30)
  <2>2. Blacks[x] = Counted(Blacks[left[x]], x, Blacks[right[x]])
    BY <1>3, <1>4
  <2> QED
    BY <1>5, <2>1, <2>2 DEF Counted
<1>7. Bad = {}
  <2> SUFFICES ASSUME Bad # {} PROVE FALSE
    OBVIOUS
  <2>1. PICK m \in Bad : \A k \in Bad : m <= k
    <3>1. Bad \in SUBSET Nat
      OBVIOUS
    <3> QED
      BY <3>1, Least
  <2>2. PICK x \in keys \cup {0} : w[x] = m /\ Blacks[x] # h[x]
    BY <2>1
  <2>3. x \in keys
    BY <1>3, <1>5, <2>2
  <2>4. /\ w[left[x]] \in Nat /\ ~(m <= w[left[x]])
        /\ w[right[x]] \in Nat /\ ~(m <= w[right[x]])
    <3>1. left[x] \in Pointer /\ right[x] \in Pointer /\ w[left[x]] < w[x] /\ w[right[x]] < w[x]
      BY <1>1, <1>4, <2>3 DEF Ranked
    <3>2. w[left[x]] \in Nat /\ w[right[x]] \in Nat /\ m \in Nat
      BY <1>1, <3>1, SMTT(30) DEF Ranked
    <3> QED
      BY <2>2, <3>1, <3>2, SMTT(30)
  <2>5. Blacks[left[x]] = h[left[x]] /\ Blacks[right[x]] = h[right[x]]
    BY <1>4, <2>1, <2>3, <2>4
  <2> QED
    BY <1>6, <2>2, <2>3, <2>5
<1>8. w[root] \in Nat
  BY <1>1, <1>4, <1>5, SMTT(30) DEF Ranked
<1>9. Blacks[root] = h[root]
  BY <1>4, <1>7, <1>8
<1> QED
  BY <1>4, <1>5, <1>9, SMTT(30)

\* Between insertions the trees of rb_tree.cpp and test_rb_tree.cpp are red-black, for
\* any number of nodes: the rotations and flips of rbtree_insert repair them all the
\* way up.
THEOREM TreeRedBlack == TreeSpec => []RedBlack
<1>1. ShapeInv /\ ColourInv => RedBlack
  <2> SUFFICES ASSUME ShapeInv, ColourInv, p = 0 PROVE RedBlack
    BY DEF RedBlack
  <2>1. Blacks[root] # -1
    BY BlacksAgree
  <2>2. 0 \notin keys
    BY ShapeFacts
  <2> QED
    BY <2>1, <2>2 DEF RedBlack, ColourInv, rbtree_is_red
<1> QED
  BY <1>1, TreeInvariant, PTL
=============================================================================
