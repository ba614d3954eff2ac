-------------------------------- MODULE Cti ---------------------------------
(***************************************************************************)
(* The algorithms of algs/cti/test_cti.cpp, test_cti_heap.cpp and          *)
(* test_cti_bstree.cpp: merge sort with sentinels, insertion sort,         *)
(* quicksort, heap sort, the binary heap, the binary search tree, largest  *)
(* subarray, binary search, the greatest common divisor and the towers of  *)
(* Hanoi.                                                                  *)
(* Position i of an array is i + 1 here.                                   *)
(***************************************************************************)
EXTENDS Integers, Sequences, SequencesExt, FiniteSetsExt

CONSTANTS MaxLen,    \* arrays have up to MaxLen elements
          MaxInt,    \* of values from -MaxInt to MaxInt, below the INT_MAX of the code
          MaxDisk    \* disks of the towers

VARIABLES input,     \* the array
          out        \* what the algorithms made of it, <<>> before

vars == <<input, out>>

Ints == -MaxInt..MaxInt

Init == (\E n \in 0..MaxLen : input \in [1..n -> Ints]) /\ out = <<>>

UB == -1    \* the outcome of undefined behaviour

Swap(a, i, j) == [a EXCEPT ![i] = a[j], ![j] = a[i]]

-----------------------------------------------------------------------------
(* Sorting *)

INT_MAX == MaxInt + 1

\* The loop of my_merge: k elements are left, i and j are the next of L and R, which
\* end in a sentinel.
RECURSIVE my_merge(_, _, _)
my_merge(L, R, k) ==
    CASE k = 0 -> <<>>
      [] k > 0 /\ Head(L) <= Head(R) -> <<Head(L)>> \o my_merge(Tail(L), R, k - 1)
      [] OTHER -> <<Head(R)>> \o my_merge(L, Tail(R), k - 1)

RECURSIVE merge_sort(_)
merge_sort(a) ==
    LET q == Len(a) \div 2
    IN  IF Len(a) < 2 THEN a
        ELSE my_merge(Append(merge_sort(SubSeq(a, 1, q)), INT_MAX),
                      Append(merge_sort(SubSeq(a, q + 1, Len(a))), INT_MAX), Len(a))

StopsEarly(a, i, key) == i > 1 /\ a[i] > key

MovesUp(a, i, key) == i >= 1 /\ a[i] > key

\* Larger elements before the j-th move up by one, and the key takes the hole.
RECURSIVE Insert(_, _, _)
Insert(a, i, key) ==
    IF MovesUp(a, i, key) THEN Insert([a EXCEPT ![i + 1] = a[i]], i - 1, key)
    ELSE [a EXCEPT ![i + 1] = key]

RECURSIVE InsertFrom(_, _)
InsertFrom(a, j) == IF j > Len(a) THEN a ELSE InsertFrom(Insert(a, j - 1, a[j]), j + 1)

insertion_sort(a) == IF Len(a) < 2 THEN a ELSE InsertFrom(a, 2)

\* The array and the place of the pivot a[r], with j the next to look at.
RECURSIVE quicksort_partition(_, _, _, _)
quicksort_partition(a, i, j, r) ==
    CASE j = r -> <<Swap(a, i + 1, r), i + 1>>
      [] j # r /\ a[j] <= a[r] -> quicksort_partition(Swap(a, i + 1, j), i + 1, j + 1, r)
      [] OTHER -> quicksort_partition(a, i, j + 1, r)

RECURSIVE quicksort(_, _, _)
quicksort(a, p, r) ==
    LET q == quicksort_partition(a, p - 1, p, r)
    IN  IF p < r THEN quicksort(quicksort(q[1], p, q[2] - 1), q[2] + 1, r) ELSE a

\* i counts from 0 here as in the code: 2 * i and 2 * i + 1 are the children of i, so
\* that the root 0 is its own first child.
RECURSIVE max_heapify(_, _, _)
max_heapify(a, size, i) ==
    LET below == {k \in {i, 2 * i, 2 * i + 1} : k < size}
        largest == Min({k \in below : \A l \in below : a[k + 1] >= a[l + 1]})
        at == IF a[largest + 1] > a[i + 1] THEN largest ELSE i
    IN  IF at = i THEN a ELSE max_heapify(Swap(a, at + 1, i + 1), size, at)

build_max_heap(a) ==
    FoldLeft(LAMBDA b, i : max_heapify(b, Len(a), i), a,
             Reverse([k \in 1..Len(a) \div 2 |-> k - 1]))

heap_sort(a) ==
    FoldLeft(LAMBDA b, i : max_heapify(Swap(b, i + 1, 1), i, 0), build_max_heap(a),
             Reverse(SubSeq([k \in DOMAIN a |-> k - 1], 2, Len(a))))

\* A BinaryHeap is array_ without array_[0], which holds 0 and stops the way up of
\* elements that are not negative.
RECURSIVE PercolateUp(_, _, _)
PercolateUp(a, i, x) ==
    IF i > 1 /\ a[i \div 2] > x THEN PercolateUp([a EXCEPT ![i] = a[i \div 2]], i \div 2, x)
    ELSE [a EXCEPT ![i] = x]

insert(a, x) == PercolateUp(Append(a, x), Len(a) + 1, x)

RECURSIVE percolateDown(_, _)
percolateDown(a, i) ==
    LET child == IF a[2 * i] < a[2 * i + 1] THEN 2 * i ELSE 2 * i + 1
    IN  IF 2 * i + 1 <= Len(a) THEN percolateDown([a EXCEPT ![i] = a[child]], child)
        ELSE [a EXCEPT ![i] = Last(a)]

deleteMin(a) == IF a = <<>> THEN a ELSE Front(percolateDown(a, 1))

-----------------------------------------------------------------------------
(* BinarySearchTree: a tree is its left subtree, element and right subtree, <<>> is     *)
(* the null pointer.                                                                    *)

RECURSIVE tree_insert(_, _)
tree_insert(t, x) ==
    CASE t = <<>> -> <<<<>>, x, <<>>>>
      [] t # <<>> /\ x < t[2] -> [t EXCEPT ![1] = tree_insert(@, x)]
      [] t # <<>> /\ x > t[2] -> [t EXCEPT ![3] = tree_insert(@, x)]
      [] OTHER -> t

RECURSIVE contains(_, _)
contains(x, t) ==
    t # <<>> /\ CASE x < t[2] -> contains(x, t[1])
                  [] x > t[2] -> contains(x, t[3])
                  [] OTHER -> TRUE

RECURSIVE findMin(_)
findMin(t) == IF t[1] = <<>> THEN t[2] ELSE findMin(t[1])

\* The child that takes the place of t: of two the right one is lost.
OnlyChild(t) == IF t[1] # <<>> THEN t[1] ELSE t[3]

\* The case marked "2 children" is that of none, where a null pointer is followed.
RECURSIVE remove(_, _)
remove(x, t) ==
    CASE t = <<>> -> t
      [] t # <<>> /\ x < t[2] -> [t EXCEPT ![1] = remove(x, @)]
      [] t # <<>> /\ x > t[2] -> [t EXCEPT ![3] = remove(x, @)]
      [] OTHER -> IF t[1] = <<>> /\ t[3] = <<>> THEN UB ELSE OnlyChild(t)

RECURSIVE printTree(_)
printTree(t) == IF t = <<>> THEN <<>> ELSE printTree(t[1]) \o <<t[2]>> \o printTree(t[3])

RECURSIVE height(_)
height(t) == IF t = <<>> THEN -1 ELSE 1 + Max({height(t[1]), height(t[3])})

-----------------------------------------------------------------------------
(* Sums and searches *)

\* maxSum after the elements from i on, b being the best sum that ends before i.
RECURSIVE maximun_subarray(_, _, _, _)
maximun_subarray(a, i, b, maxSum) ==
    LET here == IF b < 0 THEN a[i] ELSE b + a[i]
    IN  IF i > Len(a) THEN maxSum
        ELSE maximun_subarray(a, i + 1, here, IF maxSum < here THEN here ELSE maxSum)

\* The same with the place where it ends.
RECURSIVE SumAndHigh(_, _, _, _, _)
SumAndHigh(a, i, thisSum, maxSum, high) ==
    LET here == thisSum + a[i]
    IN  CASE i > Len(a) -> <<maxSum, high>>
          [] i <= Len(a) /\ here > maxSum -> SumAndHigh(a, i + 1, here, here, i)
          [] OTHER -> SumAndHigh(a, i + 1, IF here < 0 THEN 0 ELSE here, maxSum, high)

\* Back from the end until the sum is used up.
RECURSIVE Low(_, _, _)
Low(a, i, rest) == IF rest = 0 THEN i + 1 ELSE Low(a, i - 1, rest - a[i])

maximun_subarray2(a) ==
    LET r == SumAndHigh(a, 1, 0, 0, 1)
    IN  [maxSum |-> r[1], high |-> r[2], low |-> Low(a, r[2], r[1])]

\* The place of val, 0 if it is not found.  The loop starts with high one too far, at
\* an element past the end: reading it is undefined.
RECURSIVE binary_search(_, _, _, _)
binary_search(a, val, low, high) ==
    LET mid == (low + high) \div 2
    IN  CASE low > high -> 0
          [] low <= high /\ mid >= Len(a) -> UB
          [] OTHER -> LET x == a[mid + 1]
                      IN  CASE x < val -> binary_search(a, val, mid + 1, high)
                            [] x > val -> binary_search(a, val, low, mid - 1)
                            [] OTHER -> mid + 1

RECURSIVE Euclid(_, _)
Euclid(m, n) == IF n = 0 THEN m ELSE Euclid(n, m % n)

gcd(m, n) == IF n > m THEN Euclid(n, m) ELSE Euclid(m, n)

\* The moves <<disk, from, to>>.
RECURSIVE Hanoi(_, _, _, _)
Hanoi(a, b, c, n) ==
    IF n = 1 THEN <<<<1, a, c>>>>
    ELSE Hanoi(a, c, b, n - 1) \o <<<<n, a, c>>>> \o Hanoi(b, a, c, n - 1)

-----------------------------------------------------------------------------
\* The heap of the elements, shifted so that none is negative.
HeapInserted == FoldLeft(insert, <<>>, [k \in DOMAIN input |-> input[k] + MaxInt])

run ==
    /\ out = <<>>
    /\ out' = [merge |-> merge_sort(input), insertion |-> insertion_sort(input),
               quick |-> quicksort(input, 1, Len(input)),
               heap |-> heap_sort(input),
               queue |-> HeapInserted, less |-> deleteMin(HeapInserted),
               tree |-> FoldLeft(tree_insert, <<>>, input),
               sum |-> maximun_subarray(input, 1, 0, 0),
               sum2 |-> IF input = <<>> THEN <<>> ELSE maximun_subarray2(input)]
    /\ UNCHANGED input

Next == run

Spec == Init /\ [][Next]_vars

-----------------------------------------------------------------------------
(* Properties *)

Count(a, v) == Cardinality({i \in DOMAIN a : a[i] = v})

SameElements(a) == \A v \in Ints : Count(a, v) = Count(input, v)

InOrder(a) == SameElements(a) /\ \A i \in 1..Len(a) - 1 : a[i] <= a[i + 1]

HeapOrder(a) == \A i \in 2..Len(a) : a[i \div 2] <= a[i]

\* Every element of the array is in the heap, none above a smaller one, and deleteMin
\* takes out a smallest one and nothing else.  In which order it leaves the others is
\* HeapOrdered's question.
HeapOf(a) ==
    /\ HeapOrder(a)
    /\ \A v \in Ints : Count(a, v + MaxInt) = Count(input, v)
    /\ a # <<>> => \A v \in 0..2 * MaxInt :
          Count(out.less, v) = Count(a, v) - (IF v = Min(Range(a)) THEN 1 ELSE 0)

\* The subtree of t with element x.
RECURSIVE Subtree(_, _)
Subtree(t, x) ==
    IF t[2] = x THEN t ELSE Subtree(IF x < t[2] THEN t[1] ELSE t[3], x)

Increasing(a) == \A i \in 1..Len(a) - 1 : a[i] < a[i + 1]

\* The tree lists every element once and in order, contains finds those and no others,
\* a tree is at least as high as its subtrees and below its number of elements.  Removing
\* an element with one child takes out this element and no other, removing one with two
\* the elements of its right subtree as well, and removing a leaf is undefined.
TreeOf(t) ==
    /\ Range(printTree(t)) = Range(input) /\ Increasing(printTree(t))
    /\ \A x \in Ints : contains(x, t) <=> x \in Range(input)
    /\ t # <<>> => findMin(t) = Min(Range(input))
    /\ \A x \in Range(input) :
          LET b == Subtree(t, x)
              rest == printTree(remove(x, t))    \* not looked at where remove is undefined
          IN  /\ height(t) >= height(b) /\ height(b) < Cardinality(Range(printTree(b)))
              /\ (b[1] # <<>> \/ b[3] # <<>>) =>
                    /\ Increasing(rest)
                    /\ Range(rest) = Range(input) \
                          ({x} \cup IF b[1] = <<>> THEN {} ELSE Range(printTree(b[3])))

SumOf(i, j) == FoldSeq(LAMBDA x, y : x + y, 0, SubSeq(input, i, j))

Divides(d, n) == \E k \in 0..n : d * k = n

\* Where the disks are after k moves; a move takes the smallest disk of a tower to one
\* that has only larger ones.
RECURSIVE Towers(_, _)
Towers(moves, k) ==
    IF k = 0 THEN [disk \in 1..MaxDisk |-> "A"]
    ELSE [Towers(moves, k - 1) EXCEPT ![moves[k][1]] = moves[k][3]]

LegalMove(t, move) ==
    t[move[1]] = move[2] /\ \A disk \in 1..move[1] - 1 : t[disk] \notin {move[2], move[3]}

\* merge_sort, insertion_sort and quicksort order every array and keep its elements;
\* heap_sort keeps the elements, and orders an array of even length; of one of odd length
\* build_max_heap does not look at the last element, and no order is claimed.  insert keeps the heap ordered, and the
\* first deleteMin takes out a smallest element.  The search tree holds the elements, and
\* remove does to it what TreeOf says, which is a removal only of an element with one
\* child.  Both versions find the largest sum of neighbours, and the second a place where
\* it is; binary search finds every value of the sorted array, and reads nothing past the
\* end on the way; gcd is the greatest common divisor, Hanoi moves the tower by legal moves.
Computed ==
    out # <<>> =>
        /\ InOrder(out.merge) /\ InOrder(out.insertion) /\ InOrder(out.quick)
        /\ SameElements(out.heap) /\ (Len(input) % 2 = 0 => InOrder(out.heap))
        /\ HeapOf(out.queue) /\ TreeOf(out.tree)
        /\ out.sum = Max({0} \cup {SumOf(i, j) : i, j \in DOMAIN input})
        /\ input # <<>> => /\ out.sum2.maxSum = out.sum
                           /\ SumOf(out.sum2.low, out.sum2.high) = out.sum
        /\ \A i \in DOMAIN input :
              LET k == binary_search(out.merge, input[i], 0, Len(input))
              IN  k \notin {0, UB} /\ out.merge[k] = input[i]
        /\ input = <<>> =>
              /\ \A m, n \in 1..12 : /\ Divides(gcd(m, n), m) /\ Divides(gcd(m, n), n)
                                     /\ \A d \in 1..12 : Divides(d, m) /\ Divides(d, n) => d <= gcd(m, n)
              /\ LET moves == Hanoi("A", "B", "C", MaxDisk)
                 IN  /\ \A k \in 1..Len(moves) : LegalMove(Towers(moves, k - 1), moves[k])
                     /\ Towers(moves, Len(moves)) = [disk \in 1..MaxDisk |-> "C"]

\* What test_cti_heap.h:16 says of a BinaryHeap, without exception: for every node X, the
\* key of X's parent is at most that of X.  Here after the inserts and after the first
\* deleteMin.
HeapOrdered == out # <<>> => HeapOrder(out.queue) /\ HeapOrder(out.less)
=============================================================================
