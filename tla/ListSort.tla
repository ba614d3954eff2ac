------------------------------ MODULE ListSort ------------------------------
(***************************************************************************)
(* The bottom-up merge sort of linked lists of                             *)
(* algs/merge_sort_link_list/merge_sort_link_list.c, which relinks the     *)
(* elements of a singly or doubly linked, straight or circular list.       *)
(* Elements are numbered as they stand in the list at first; 0 is NULL.    *)
(***************************************************************************)
EXTENDS Integers, Sequences

CONSTANTS MaxLen,            \* lists have 1 to MaxLen elements
          Values             \* the values of elements

ASSUME ListAssumption == MaxLen \in Nat /\ Values \subseteq Int

\* cmp returns a->i - b->i: the sign of the difference is that of the comparison only
\* where the difference is an int.
ASSUME CmpAssumption == \A a, b \in Values : a - b <= 2147483647

VARIABLES next, prev, val,   \* of each element
          is_circular, is_double,
          list, tail, oldhead, insize, nmerges, psize, qsize,
          lp, lq,            \* p and q: where the two lists to merge go on
          pc                 \* "pass", "merge", "take" or "done"

args == <<val, is_circular, is_double>>
listVars == <<args, next, prev, list, lp, lq, tail, oldhead, insize, nmerges, psize, qsize, pc>>

Length == Len(val)
Element == 1..Length

\* The links of element e of a list as the test sets it up.
FirstNext(e) == IF e < Length THEN e + 1 ELSE IF is_circular THEN 1 ELSE 0
FirstPrev(e) == IF e > 1 THEN e - 1 ELSE IF is_circular THEN Length ELSE 0

ListInit ==
    /\ is_circular \in BOOLEAN /\ is_double \in BOOLEAN
    /\ \E len \in 1..MaxLen : val \in [1..len -> Values]
    /\ next = [e \in Element |-> FirstNext(e)]
    /\ prev = [e \in Element |-> IF is_double THEN FirstPrev(e) ELSE 0]
    /\ list = 1 /\ lp = 0 /\ lq = 0 /\ tail = 0 /\ oldhead = 0
    /\ insize = 1 /\ nmerges = 0 /\ psize = 0 /\ qsize = 0
    /\ pc = "pass"

-----------------------------------------------------------------------------
\* The element after e, or NULL at the end, also of a circular list.
After(e) == IF is_circular /\ next[e] = oldhead THEN 0 ELSE next[e]

\* The top of the outer loop.
pass ==
    /\ pc = "pass"
    /\ lp' = list /\ oldhead' = list /\ list' = 0 /\ tail' = 0 /\ nmerges' = 0
    /\ pc' = "merge"
    /\ UNCHANGED <<args, next, prev, lq, insize, psize, qsize>>

\* Stepping k places along from e, or to the end: the element there and the steps.
Along(e, k) ==
    LET along[i \in 0..k] ==
            IF i = 0 THEN [at |-> e, steps |-> 0]
            ELSE IF along[i - 1].at = 0 THEN along[i - 1]
            ELSE [at |-> After(along[i - 1].at), steps |-> i]
    IN  along[k]

\* The next two runs of insize elements.
merge ==
    LET half == Along(lp, insize)
    IN  /\ pc = "merge" /\ lp # 0
        /\ nmerges' = nmerges + 1
        /\ lq' = half.at /\ psize' = half.steps /\ qsize' = insize
        /\ pc' = "take"
        /\ UNCHANGED <<args, next, prev, list, lp, tail, oldhead, insize>>

PrefersSecond == psize > 0 /\ (qsize = 0 \/ lq = 0 \/ val[lp] < val[lq])

\* Whether the next element of the merge comes from the first list; cmp(p, q) <= 0 is
\* val[lp] <= val[lq] by CmpAssumption.
FromFirst == psize > 0 /\ (qsize = 0 \/ lq = 0 \/ val[lp] <= val[lq])

More == psize > 0 \/ (qsize > 0 /\ lq # 0)

\* One element is moved to the end of the merged list.
take ==
    LET e == IF FromFirst THEN lp ELSE lq
    IN  /\ pc = "take" /\ More
        /\ IF FromFirst THEN lp' = After(lp) /\ psize' = psize - 1 /\ UNCHANGED <<lq, qsize>>
           ELSE lq' = After(lq) /\ qsize' = qsize - 1 /\ UNCHANGED <<lp, psize>>
        /\ next' = IF tail = 0 THEN next ELSE [next EXCEPT ![tail] = e]
        /\ list' = IF tail = 0 THEN e ELSE list
        /\ prev' = IF is_double THEN [prev EXCEPT ![e] = tail] ELSE prev
        /\ tail' = e
        /\ UNCHANGED <<args, oldhead, insize, nmerges, pc>>

merged ==
    /\ pc = "take" /\ ~More
    /\ lp' = lq /\ pc' = "merge"
    /\ UNCHANGED <<args, next, prev, list, lq, tail, oldhead, insize, nmerges, psize, qsize>>

\* The link back from the head of a circular list.
HeadPrev == IF is_circular /\ is_double THEN [prev EXCEPT ![list] = tail] ELSE prev

KeepsSize == insize

NextSize == 2 * insize

\* The end of a pass: the last link, and another pass unless there was one merge.
passed ==
    /\ pc = "merge" /\ lp = 0
    /\ next' = [next EXCEPT ![tail] = IF is_circular THEN list ELSE 0]
    /\ prev' = HeadPrev
    /\ IF nmerges <= 1 THEN pc' = "done" /\ UNCHANGED insize
       ELSE pc' = "pass" /\ insize' = NextSize
    /\ UNCHANGED <<args, list, lp, lq, tail, oldhead, nmerges, psize, qsize>>

ListNext == pass \/ merge \/ take \/ merged \/ passed

ListSpec == ListInit /\ [][ListNext]_listVars /\ WF_listVars(ListNext)

-----------------------------------------------------------------------------
\* The elements from e on, as many as there are, or 0 behind the last one.
Walk(e) ==
    LET walk[k \in Element] ==
            IF k = 1 THEN e ELSE IF walk[k - 1] = 0 THEN 0 ELSE next[walk[k - 1]]
    IN  walk

\* merge_sort_link_list2_main sorts a kernel-style list: element 1 is the list_head
\* itself, which stands in no node, so that its value is whatever precedes it in
\* memory.  The result of listsort is dropped and the nodes are listed from the head.
ListedNodes == Walk(1)

-----------------------------------------------------------------------------
(* Properties *)

Before(e, f) == val[e] < val[f] \/ (val[e] = val[f] /\ e < f)

\* The list s has all elements, in order of their values and equal ones as they stood
\* before.
InOrderOfValues(s) ==
    /\ \A i \in Element : s[i] # 0
    /\ \A i \in 1..(Length - 1) : Before(s[i], s[i + 1])

\* Its links are those print_and_check_list asks for: the last element leads to the
\* head or to NULL, and links back mirror the links forward.
LinksMirrored(s) ==
    /\ next[s[Length]] = IF is_circular THEN list ELSE 0
    /\ is_double => /\ prev[list] = IF is_circular THEN s[Length] ELSE 0
                    /\ \A i \in 1..(Length - 1) : prev[s[i + 1]] = s[i]

\* The second test lists every node once and in order, except that the nodes that
\* belong before the head come after all others: sorted altogether only if the memory
\* before the head happens to hold less, or more, than every node.
ListedFromHead(s) ==
    /\ \A i \in 2..Length : s[i] \notin {0, 1}
    /\ \A i, j \in 2..Length :
          i < j => Before(s[i], s[j]) \/ (Before(1, s[i]) /\ Before(s[j], 1))

\* When listsort returns, the list has all elements in order, equal ones as they stood
\* before, and all links are right, forward and back; a list sorted with its list_head
\* is listed in order from there, the nodes that belong before the list_head last.
Sorted ==
    pc = "done" =>
        /\ InOrderOfValues(Walk(list))
        /\ LinksMirrored(Walk(list))
        /\ is_circular /\ is_double => ListedFromHead(ListedNodes)
=============================================================================
