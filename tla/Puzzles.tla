------------------------------ MODULE Puzzles --------------------------------
(***************************************************************************)
(* Algorithms that are one function each: rebuilding a tree and searching  *)
(* an ordered square (jzoffer), rod cutting (dynamic_programming.cpp), the *)
(* choice of activities (16.c), the radix tree, the number triangle and    *)
(* the falling balls (9787302356288.c).  A behaviour takes one input and   *)
(* computes the answer.                                                    *)
(***************************************************************************)
EXTENDS Integers, Sequences, SequencesExt, FiniteSetsExt

CONSTANTS NKey,      \* nodes of the tree that is rebuilt
          NRow,      \* rows of the square and of the triangle
          Prices,    \* prices of a rod, and the numbers of square and triangle
          RodLen,    \* length of the rod
          Time,      \* activities lie in 0..Time
          NActivity, \* number of them
          BitLen,    \* bits of a radix key, 8 in the code
          TreeDepth      \* of the tree the balls fall through

VARIABLES question,  \* <<function, argument>>
          answer     \* <<>> before the call

vars == <<question, answer>>

-----------------------------------------------------------------------------
(* jzoffer *)

\* A tree is <<>> or <<left, key, right>>.
RECURSIVE construct_btr_pre_in(_, _)
construct_btr_pre_in(pre, in) ==
    IF pre = <<>> THEN <<>>
    ELSE LET leftn == Min({k \in DOMAIN in : in[k] = pre[1]}) - 1
         IN  <<construct_btr_pre_in(SubSeq(pre, 2, leftn + 1), SubSeq(in, 1, leftn)), pre[1],
               construct_btr_pre_in(SubSeq(pre, leftn + 2, Len(pre)), SubSeq(in, leftn + 2, Len(in)))>>

\* From the upper right corner of a square.  j is unsigned: one step past the first
\* column is the element stored before the row, and before the first row that is
\* outside the array.  1 is "found", 0 "not found".
UB == -1

RECURSIVE Search2d(_, _, _, _)
Search2d(a, key, i, j) ==
    LET m == Len(a)
        at == i * m + j
        x == a[(at \div m) + 1][(at % m) + 1]
    IN  CASE i = m -> 0
          [] i < m /\ at < 0 -> UB
          [] i < m /\ at >= 0 /\ key = x -> 1
          [] i < m /\ at >= 0 /\ key < x -> Search2d(a, key, i, j - 1)
          [] OTHER -> Search2d(a, key, i + 1, j)

ordered_2d_array_search(a, key) == Search2d(a, key, 0, Len(a) - 1)

-----------------------------------------------------------------------------
(* Rods, activities, triangles, balls *)

NotAdded(p, r, i) == Max({p[i], r[Len(r) - i + 1]})

\* Of a first piece i and the best of the rest, r having the best of the shorter rods.
Price(p, r, i) == p[i] + r[Len(r) - i + 1]

\* s has the first piece for each length; both grow with j.
RECURSIVE CutFrom(_, _, _)
CutFrom(p, r, s) ==
    LET j == Len(r)
        q == Max({Price(p, r, i) : i \in 1..j})
    IN  IF j > Len(p) THEN [best |-> r[j], s |-> s]
        ELSE CutFrom(p, Append(r, q), Append(s, Min({i \in 1..j : Price(p, r, i) = q})))

bottom_up_cut_rod(p) == CutFrom(p, <<0>>, <<>>)

\* The pieces the test prints: n, n - s[n], ...
RECURSIVE Pieces(_, _)
Pieces(s, n) == IF n = 0 THEN <<>> ELSE <<s[n]>> \o Pieces(s, n - s[n])

\* The first of the longest activities between s and f that are not chosen, 0 if none.
longest_activity(as, chosen, s, f) ==
    LET fits == {k \in DOMAIN as \ chosen : as[k].s >= s /\ as[k].f <= f /\ as[k].f > as[k].s}
        long == {k \in fits : \A l \in fits : as[l].f - as[l].s <= as[k].f - as[k].s}
    IN  IF s = f \/ fits = {} THEN 0 ELSE Min(long)

\* comp_as as a sequence of places in as; the elements of comp_as are the chosen ones.
RECURSIVE max_comp_activity(_, _, _, _)
max_comp_activity(as, s, f, comp_as) ==
    LET k == longest_activity(as, Range(comp_as), s, f)
        with == Append(comp_as, k)
        before == IF as[k].s > s THEN max_comp_activity(as, s, as[k].s, with) ELSE with
    IN  IF k = 0 THEN comp_as
        ELSE IF as[k].f < f THEN max_comp_activity(as, as[k].f, f, before) ELSE before

\* p is a triangle of n rows, with -1 next to its last diagonal.
RECURSIVE solve1_r(_, _, _)
solve1_r(p, i, j) ==
    IF p[i][j] < 0 THEN 0
    ELSE p[i][j] + Max({solve1_r(p, i + 1, j), solve1_r(p, i, j + 1)})

\* d[0][0] is -1 at the call, the other elements are not looked at.
solve2(p) == solve1_r(p, 0, 0)

\* d is filled diagonal by diagonal; d[0][0] is the answer.
RECURSIVE solve3(_, _, _)
solve3(p, n, d) ==
    LET k == n - 1 - Len(d)
        diagonal == [i \in 0..k |->
            IF k = n - 1 THEN p[i][k - i] ELSE p[i][k - i] + Max({d[Len(d)][i + 1], d[Len(d)][i]})]
    IN  IF k < 0 THEN d[Len(d)][0] ELSE solve3(p, n, Append(d, diagonal))

\* One ball: the node it leaves the tree below, and the switches after it.
RECURSIVE Drop(_, _, _)
Drop(n, sw, k) ==
    LET after == [sw EXCEPT ![k] = ~sw[k]]
    IN  IF k > n THEN <<k \div 2, sw>> ELSE Drop(n, after, IF after[k] THEN 2 * k ELSE 2 * k + 1)

RECURSIVE DropAll(_, _, _)
DropAll(n, sw, balls) ==
    LET one == Drop(n, sw, 1) IN IF balls = 1 THEN one[1] ELSE DropAll(n, one[2], balls - 1)

dropping_balls(D, I) == LET n == 2^D - 1 IN DropAll(n, [k \in 1..n |-> FALSE], I)
\* A radix tree: the paths from the root to its nodes, and the keys of those that are on.
\* Bits go from the lowest on; the way ends where the bits so far are the key.
Bit(key, k) == (key \div 2^(k - 1)) % 2

Reached(key, k) == key % 2^k = key

radix_tree_insert(tree, key) ==
    LET ends == {k \in 1..BitLen : Reached(key, k)}
        len == IF ends = {} THEN BitLen ELSE Min(ends)
        path == [k \in 1..len |-> Bit(key, k)]
    IN  [nodes |-> tree.nodes \cup {SubSeq(path, 1, k) : k \in 0..len},
         on |-> IF ends = {} THEN tree.on
                ELSE [x \in DOMAIN tree.on \cup {path} |-> IF x = path THEN key ELSE tree.on[x]],
         failed |-> tree.failed \cup (IF ends = {} THEN {key} ELSE {})]

NoTree == [nodes |-> {}, on |-> <<>>, failed |-> {}]

-----------------------------------------------------------------------------
(* One call *)

\* All trees of the keys in the interval, with their keys in order.
RECURSIVE TreesOf(_, _)
TreesOf(lo, hi) ==
    IF lo > hi THEN {<<>>}
    ELSE UNION {{<<l, k, r>> : l \in TreesOf(lo, k - 1), r \in TreesOf(k + 1, hi)} : k \in lo..hi}

RECURSIVE PreOrder(_)
PreOrder(t) == IF t = <<>> THEN <<>> ELSE <<t[2]>> \o PreOrder(t[1]) \o PreOrder(t[3])

Squares == {a \in [1..NRow -> [1..NRow -> Prices]] :
              \A i, j, k \in 1..NRow : j <= k => a[i][j] <= a[i][k] /\ a[j][i] <= a[k][i]}
Triangles == [{ij \in (0..NRow - 1) \X (0..NRow - 1) : ij[1] + ij[2] < NRow} -> Prices]
Activity == {[s |-> b, f |-> e] : b, e \in 0..Time}

Init ==
    /\ answer = <<>>
    /\ \/ \E t \in TreesOf(1, NKey) : question = <<"rebuild", t>>
       \/ \E a \in Squares, key \in Prices : question = <<"search", a, key>>
       \/ \E p \in [1..RodLen -> Prices] : question = <<"rod", p>>
       \/ \E as \in [1..NActivity -> {a \in Activity : a.s < a.f}] : question = <<"activities", as>>
       \/ \E t \in Triangles : question = <<"triangle", t>>
       \/ \E D \in 1..TreeDepth : \E I \in 1..2^(D - 1) : question = <<"balls", D, I>>
       \/ \E ks \in [1..3 -> 0..2^BitLen] : question = <<"radix", ks>>

\* The array of a triangle, -1 next to its last diagonal.
Table(t) == [i \in 0..NRow |-> [j \in 0..NRow - i |-> IF i + j < NRow THEN t[<<i, j>>] ELSE -1]]

call ==
    /\ answer = <<>>
    /\ LET of == question[2]
       IN  answer' =
             CASE question[1] = "rebuild" ->
                    construct_btr_pre_in(PreOrder(of), [k \in 1..NKey |-> k])
               [] question[1] = "search" -> <<ordered_2d_array_search(of, question[3])>>
               [] question[1] = "rod" ->
                    LET r == bottom_up_cut_rod(of) IN <<r.best, Pieces(r.s, RodLen)>>
               [] question[1] = "activities" -> max_comp_activity(of, 0, Time, <<>>)
               [] question[1] = "triangle" ->
                    <<solve1_r(Table(of), 0, 0), solve2(Table(of)), solve3(Table(of), NRow, <<>>)>>
               [] question[1] = "balls" -> <<dropping_balls(of, question[3])>>
               [] OTHER -> <<FoldLeft(radix_tree_insert, NoTree, of)>>
    /\ UNCHANGED question

Next == call

-----------------------------------------------------------------------------
(* Properties *)

Total(f) == FoldSeq(LAMBDA x, y : x + y, 0, f)

\* All ways to cut a rod of length n.
RECURSIVE Cuts(_)
Cuts(n) == IF n = 0 THEN {<<>>} ELSE UNION {{<<k>> \o c : c \in Cuts(n - k)} : k \in 1..n}

\* A walk takes one number of each diagonal.
Walks == {w \in [0..NRow - 1 -> 0..NRow - 1] :
            w[0] = 0 /\ \A k \in 1..NRow - 1 : w[k] \in {w[k - 1], w[k - 1] + 1}}

Apart(a, b) == a.f <= b.s \/ b.f <= a.s

\* The leaf of the I-th ball: it goes left if I is odd, and is the (I+1)/2-th there.
RECURSIVE Leaf(_, _, _)
Leaf(D, I, k) ==
    IF D = 1 THEN k ELSE Leaf(D - 1, (I + 1) \div 2, IF I % 2 = 1 THEN 2 * k ELSE 2 * k + 1)

\* construct_btr_pre_in gives back the tree whose walks it got; the search in an ordered
\* square finds exactly the values in it and stays inside for keys not below the first;
\* no way to cut brings more than bottom_up_cut_rod's, whose plan brings that much; the
\* activities chosen are compatible, and no other is compatible with all of them (there
\* may be a larger compatible set, the one that 16.c:30 asks for: the longest activity
\* comes first and can take the place of several); the three triangle solvers find the
\* best walk; a ball ends where parity says; and each key below 2^8 has its own
\* radix node, a larger one changes no key.
Answered ==
    answer # <<>> =>
        LET of == question[2]
        IN  CASE question[1] = "rebuild" -> answer = of
              [] question[1] = "search" ->
                    question[3] >= of[1][1] =>
                        answer[1] = IF \E i, j \in 1..NRow : of[i][j] = question[3] THEN 1 ELSE 0
              [] question[1] = "rod" ->
                    LET price(c) == Total([k \in DOMAIN c |-> of[c[k]]])
                    IN  /\ answer[2] \in Cuts(RodLen) /\ price(answer[2]) = answer[1]
                        /\ \A c \in Cuts(RodLen) : price(c) <= answer[1]
              [] question[1] = "activities" ->
                    /\ \A k, l \in DOMAIN answer : k # l => Apart(of[answer[k]], of[answer[l]])
                    /\ \A i \in DOMAIN of \ Range(answer) :
                          \E k \in DOMAIN answer : ~Apart(of[i], of[answer[k]])
              [] question[1] = "triangle" ->
                    LET sum(w) == Total([k \in 1..NRow |-> of[<<w[k - 1], k - 1 - w[k - 1]>>]])
                    IN  answer = [k \in 1..3 |-> Max({sum(w) : w \in Walks})]
              [] question[1] = "balls" -> answer[1] = Leaf(of, question[3], 1)
              [] OTHER ->
                    LET tree == answer[1]
                        keys == {key \in Range(of) : key < 2^BitLen}
                    IN  /\ Range(tree.on) = keys /\ Cardinality(DOMAIN tree.on) = Cardinality(keys)
                        /\ tree.failed = Range(of) \ keys
                        /\ \A x \in tree.nodes : x = <<>> \/ Front(x) \in tree.nodes
                        /\ DOMAIN tree.on \subseteq tree.nodes
=============================================================================
