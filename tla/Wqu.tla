-------------------------------- MODULE Wqu ---------------------------------
(***************************************************************************)
(* The weighted quick-union of algs/algorithms4th/1.5.c: a forest of       *)
(* sites over the array ids, where a root points to itself, grown when a   *)
(* larger site is named.  blocks is the partition of the sites that the    *)
(* unions asked for so far generate, kept to compare the forest with.      *)
(***************************************************************************)
EXTENDS Integers, FiniteSets

CONSTANT MaxSite        \* the largest site that is named

ASSUME SiteAssumption == MaxSite \in Nat

VARIABLES ids, sz,      \* of wqu_s; the capacity of both arrays is their length
          maxid,
          blocks        \* the sets of connected sites

unionVars == <<ids, sz, maxid, blocks>>

Site == 0..MaxSite
Larger(p, q) == IF p > q THEN p ELSE q

Block(p) == CHOOSE b \in blocks : p \in b

UnionInit ==
    /\ ids = [s \in {0} |-> 0] /\ sz = [s \in {0} |-> 1]
    /\ maxid = 0 /\ blocks = {{s} : s \in Site}

StartsAgain(a, fresh) == fresh

\* The array with the values it had, and fresh ones for the new sites.
Extended(a, fresh) ==
    [s \in DOMAIN a \cup DOMAIN fresh |-> IF s \in DOMAIN a THEN a[s] ELSE fresh[s]]

wqu_grow(n) ==
    IF Cardinality(DOMAIN ids) < n
    THEN [ids |-> Extended(ids, [s \in 0..(n - 1) |-> s]),
          sz |-> Extended(sz, [s \in 0..(n - 1) |-> 1]),
          maxid |-> n - 1]
    ELSE [ids |-> ids, sz |-> sz, maxid |-> maxid]

\* The sites that the loop of wqu_find comes to from p: those that are in every set
\* with p and, with a site, the one that the array a gives for it.
Closed(a, S) == \A x \in S : a[x] \in S
Visited(a, p) == {x \in DOMAIN a :
                     \A S \in SUBSET DOMAIN a : p \in S /\ Closed(a, S) => x \in S}

\* The loop stops at the site that points to itself.
wqu_find(a, p) == CHOOSE r \in Visited(a, p) : a[r] = r

Unweighted(size, r, s) == TRUE

\* Whether the tree of s goes under r.
UnderFirst(size, r, s) == size[r] >= size[s]

wqu_union(p, q) ==
    LET g == wqu_grow(Larger(p, q) + 1)
        r == wqu_find(g.ids, p)
        s == wqu_find(g.ids, q)
        top == IF UnderFirst(g.sz, r, s) THEN r ELSE s
        low == IF UnderFirst(g.sz, r, s) THEN s ELSE r
    IN  /\ maxid' = g.maxid
        /\ ids' = IF r = s THEN g.ids ELSE [g.ids EXCEPT ![low] = top]
        /\ sz' = IF r = s THEN g.sz ELSE [g.sz EXCEPT ![top] = @ + g.sz[low]]
        /\ blocks' = (blocks \ {Block(p), Block(q)}) \cup {Block(p) \cup Block(q)}

\* Grows the arrays as well.
wqu_is_connected(p, q) ==
    LET g == wqu_grow(Larger(p, q) + 1)
    IN  ids' = g.ids /\ sz' = g.sz /\ maxid' = g.maxid /\ UNCHANGED blocks

UnionNext == \E p, q \in Site : wqu_union(p, q) \/ wqu_is_connected(p, q)

UnionSpec == UnionInit /\ [][UnionNext]_unionVars

-----------------------------------------------------------------------------
(* Properties *)

\* wqu_find gives two sites the same root exactly when the unions asked for connect
\* them: connectivity is the equivalence that the pairs generate.
Partition ==
    \A p, q \in DOMAIN ids :
        wqu_find(ids, p) = wqu_find(ids, q) <=> q \in Block(p)

Tree(r) == {s \in DOMAIN ids : wqu_find(ids, s) = r}

\* The smaller tree always goes under the larger one: the size of a root is that of
\* its tree, and a link leads to a site at least twice the size, so that a tree of n
\* sites is at most log2(n) deep.
Balanced ==
    /\ DOMAIN sz = DOMAIN ids /\ DOMAIN ids = 0..maxid
    /\ \A s \in DOMAIN ids : IF ids[s] = s THEN sz[s] = Cardinality(Tree(s))
                            ELSE 2 * sz[s] <= sz[ids[s]]

\* Union-find: two sites have the same root exactly when unions connect them, and a
\* tree of n sites is at most log2(n) deep.
Unions == Partition /\ Balanced
=============================================================================
