----------------------------- MODULE ArraySort ------------------------------
(***************************************************************************)
(* The recursive merge sort of arrays of algs/algorithms4th/sort.c.  The   *)
(* array is a sequence; position i of the code is i + 1 here.              *)
(***************************************************************************)
EXTENDS Integers, Sequences, SequencesExt

CONSTANTS MaxLen,    \* arrays have up to MaxLen elements
          Values     \* the values of elements

VARIABLES arr, desc, \* the arguments of algs_msort
          given,     \* the array it was called with
          sorted     \* it has returned

vars == <<arr, desc, given, sorted>>

Init ==
    /\ desc \in BOOLEAN /\ sorted = FALSE
    /\ \E len \in 0..MaxLen : given \in [1..len -> Values]
    /\ arr = given

-----------------------------------------------------------------------------
\* Whether the next element comes from the first run, aux[1..m]: the second is used
\* up, or has no smaller element.
FromFirst(aux, i, j, m) == i <= m /\ (j > Len(aux) \/ ~(aux[i] > aux[j]))

\* The rest of the merge, from i in the first run and j in the second.
RECURSIVE Merge(_, _, _, _)
Merge(aux, i, j, m) ==
    CASE i > m /\ j > Len(aux) -> <<>>
      [] FromFirst(aux, i, j, m) -> <<aux[i]>> \o Merge(aux, i + 1, j, m)
      [] OTHER -> <<aux[j]>> \o Merge(aux, i, j + 1, m)

algs_msort_merge(a, m) == Merge(a, 1, m + 1, m)

RECURSIVE algs_msort_r(_)
algs_msort_r(a) ==
    LET m == Len(a) \div 2
    IN  IF Len(a) <= 1 THEN a
        ELSE algs_msort_merge(algs_msort_r(SubSeq(a, 1, m))
                                \o algs_msort_r(SubSeq(a, m + 1, Len(a))), m)

\* swap(i, n - 1 - i) for the first half.
algs_msort_desc(a) == Reverse(a)

algs_msort ==
    /\ ~sorted /\ sorted' = TRUE
    /\ arr' = IF desc THEN algs_msort_desc(algs_msort_r(arr)) ELSE algs_msort_r(arr)
    /\ UNCHANGED <<desc, given>>

Next == algs_msort

Spec == Init /\ [][Next]_vars

-----------------------------------------------------------------------------
(* Properties *)

Count(a, v) == Len(SelectSeq(a, LAMBDA w : w = v))

\* algs_msort orders the array as asked for and keeps its elements.
Sorted ==
    sorted =>
        /\ \A v \in Values : Count(arr, v) = Count(given, v)
        /\ \A i \in 1..(Len(arr) - 1) :
              IF desc THEN arr[i] >= arr[i + 1] ELSE arr[i] <= arr[i + 1]
=============================================================================
