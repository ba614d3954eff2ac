------------------------------- MODULE Texts --------------------------------
(***************************************************************************)
(* Algorithms on text: the searches of jzoffer/test_string.cpp, the        *)
(* strings and the arithmetic of cti/test_cti.cpp, and the trie of         *)
(* trie_st.cpp.  A text is a sequence of characters.  A behaviour takes    *)
(* one input and computes the answer.                                      *)
(***************************************************************************)
EXTENDS Integers, Sequences, SequencesExt, FiniteSetsExt

CONSTANTS Chars,     \* characters of a text
          TextLen,   \* its greatest length, at most 9
          NOperator, \* operators of an expression
          NPut       \* keys put into the trie

VARIABLES asks,      \* <<function, arguments>>
          gets       \* <<>> before the call

Text(n) == UNION {[1..k -> Chars] : k \in 1..n}

-----------------------------------------------------------------------------
(* Searching; positions count from 0, and the length is "not found". *)

\* The last place where pat would fit is not tried.
RECURSIVE SearchFrom(_, _, _)
SearchFrom(str, pat, i) ==
    CASE i >= Len(str) - Len(pat) -> Len(str)
      [] i < Len(str) - Len(pat) /\ SubSeq(str, i + 1, i + Len(pat)) = pat -> i
      [] OTHER -> SearchFrom(str, pat, i + 1)

str_search_force(str, pat) == SearchFrom(str, pat, 0)


BacksUp(i, j) == i - j

RECURSIVE Search(_, _, _, _)
Search(str, pat, i, j) ==
    IF i = Len(str) \/ j = Len(pat) THEN (IF j = Len(pat) THEN i - j ELSE Len(str))
    ELSE IF str[i + 1] = pat[j + 1] THEN Search(str, pat, i + 1, j + 1)
    ELSE Search(str, pat, BacksUp(i, j) + 1, 0)

str_search_force2(str, pat) == Search(str, pat, 0, 0)

-----------------------------------------------------------------------------
(* Strings *)

\* What dest holds: a character and a count for each run, and if that is not shorter the
\* source written over the beginning of it.  runs is what is written, c and count the run
\* at hand.
RECURSIVE Compress(_, _, _, _)
Compress(src, runs, c, count) ==
    CASE src = <<>> -> runs \o <<c, count>>
      [] src # <<>> /\ Head(src) = c -> Compress(Tail(src), runs, c, count + 1)
      [] OTHER -> Compress(Tail(src), runs \o <<c, count>>, Head(src), 1)

compress_repeat_str(src) ==
    LET dest == Compress(Tail(src), <<>>, Head(src), 1)
    IN  IF Len(dest) >= Len(src) THEN src \o SubSeq(dest, Len(src) + 1, Len(dest)) ELSE dest

RECURSIVE all_diff(_)
all_diff(str) ==
    \/ str = <<>>
    \/ (\A k \in 2..Len(str) : str[k] # str[1]) /\ all_diff(Tail(str))

\* The i-th and the i-th last are exchanged for i below half the length.
my_reverse(str) ==
    FoldLeft(LAMBDA s, i : [s EXCEPT ![i] = s[Len(s) - i + 1], ![Len(s) - i + 1] = s[i]],
             str, [i \in 1..Len(str) \div 2 |-> i])

elements_same(a, b) ==
    LET chars(s) == [c \in Range(s) |-> Cardinality({k \in DOMAIN s : s[k] = c})]
    IN  chars(a) = chars(b)

-----------------------------------------------------------------------------
(* Arithmetic.  Operands are one digit each; a stack is a sequence, top first. *)

Operators == {"+", "-", "*", "/"}

higher_priority(inputOpa, stackOpb) ==
    \/ inputOpa = "(" \/ stackOpb = "("
    \/ inputOpa \in {"*", "/"} /\ stackOpb \in {"+", "-"}

\* The operators on top that go out: up to one of lower priority, or up to "(".
Popped(c, ops) ==
    LET stop == {k \in DOMAIN ops : IF c = ")" THEN ops[k] = "(" ELSE higher_priority(c, ops[k])}
    IN  IF stop = {} THEN Len(ops) ELSE Min(stop) - 1

RECURSIVE Convert(_, _, _)
Convert(infix, ops, postfix) ==
    LET c == Head(infix)
        k == Popped(c, ops)
        out == postfix \o SubSeq(ops, 1, k)
    IN  CASE infix = <<>> -> postfix \o ops
          [] infix # <<>> /\ c \in Operators \cup {"("} ->
                Convert(Tail(infix), <<c>> \o SubSeq(ops, k + 1, Len(ops)), out)
          [] infix # <<>> /\ c = ")" -> Convert(Tail(infix), SubSeq(ops, k + 2, Len(ops)), out)
          [] OTHER -> Convert(Tail(infix), ops, Append(postfix, c))

infix2postfix(infix) == Convert(infix, <<>>, <<>>)

Digits == <<"1", "2", "3", "4">>
Digit(c) == CHOOSE k \in DOMAIN Digits : Digits[k] = c

\* operand1 is the top of the stack, that is the right operand.  Quotients are not
\* integers, and no expression asked has one.
Result(op, operand1, operand2) ==
    CASE op = "+" -> operand1 + operand2
      [] op = "-" -> operand1 - operand2
      [] OTHER -> operand1 * operand2

calc4(expr) ==
    FoldLeft(LAMBDA stack, token :
                IF token \in Operators
                THEN <<Result(token, stack[1], stack[2])>> \o SubSeq(stack, 3, Len(stack))
                ELSE <<Digit(token)>> \o stack,
             <<>>, infix2postfix(expr))[1]

-----------------------------------------------------------------------------
(* The trie: the nodes, named by the way to them, that have an array of next nodes, and *)
(* the values that were set; calloc() made the others 0.                                 *)

NewTrie == [next |-> {}, val |-> <<>>]

ProperPrefixes(key) == {SubSeq(key, 1, k) : k \in 0..Len(key) - 1}

trie_st_put(tr, key, val) ==
    [next |-> tr.next \cup ProperPrefixes(key),
     val |-> [k \in DOMAIN tr.val \cup {key} |-> IF k = key THEN val ELSE tr.val[k]]]

trie_st_get(tr, key) ==
    IF ~(ProperPrefixes(key) \subseteq tr.next) THEN -1
    ELSE IF key \in DOMAIN tr.val THEN tr.val[key] ELSE 0

-----------------------------------------------------------------------------
(* One call *)

\* Expressions of n operators and the digits from first on: <<digit>> or <<left, op, right>>.
RECURSIVE Expressions(_, _)
Expressions(n, first) ==
    IF n = 0 THEN {<<Digits[first]>>}
    ELSE UNION {{<<l, op, r>> : l \in Expressions(k, first), op \in Operators,
                                r \in Expressions(n - 1 - k, first + k + 1)} : k \in 0..n - 1}

Priority(t) == IF Len(t) = 1 THEN 3 ELSE IF t[2] \in {"*", "/"} THEN 2 ELSE 1

\* Written with as few parentheses as its reading from left to right needs, or with all.
RECURSIVE Written(_, _)
Written(t, all) ==
    LET part(u, least) == IF Priority(u) < least THEN <<"(">> \o Written(u, all) \o <<")">>
                          ELSE Written(u, all)
    IN  IF Len(t) = 1 THEN t
        ELSE part(t[1], IF all THEN 3 ELSE Priority(t)) \o <<t[2]>>
             \o part(t[3], IF all THEN 3 ELSE Priority(t) + 1)

Init ==
    /\ gets = <<>>
    /\ \/ \E str \in Text(TextLen), pat \in Text(3) :
              Len(pat) <= Len(str) /\ asks = <<"search", str, pat>>
       \/ \E a \in Text(TextLen) : asks = <<"string", a>>
       \/ \E n \in 1..NOperator : \E t \in Expressions(n, 1), all \in BOOLEAN :
              asks = <<"expression", t, all>>
       \/ \E ks \in [1..NPut -> Text(2)] : asks = <<"trie", ks>>

RECURSIVE HasQuotient(_)
HasQuotient(t) == Len(t) = 3 /\ (t[2] = "/" \/ HasQuotient(t[1]) \/ HasQuotient(t[3]))

call ==
    /\ gets = <<>>
    /\ LET a == asks[2]
       IN  gets' =
             CASE asks[1] = "search" -> <<str_search_force(a, asks[3]), str_search_force2(a, asks[3])>>
               [] asks[1] = "string" -> <<my_reverse(a), compress_repeat_str(a), all_diff(a)>>
               [] asks[1] = "expression" ->
                    LET text == Written(a, asks[3])
                    IN  <<infix2postfix(text), IF HasQuotient(a) THEN 0 ELSE calc4(text)>>
               [] OTHER -> <<FoldLeft(LAMBDA tr, k : trie_st_put(tr, a[k], k), NewTrie,
                                      [k \in DOMAIN a |-> k])>>
    /\ UNCHANGED asks

Next == call

-----------------------------------------------------------------------------
(* Properties *)

\* The characters of each run, repeated.
RECURSIVE Expanded(_)
Expanded(runs) ==
    IF runs = <<>> THEN <<>>
    ELSE [k \in 1..runs[2] |-> runs[1]] \o Expanded(SubSeq(runs, 3, Len(runs)))

Runs(a) == Cardinality({k \in DOMAIN a : k = 1 \/ a[k] # a[k - 1]})

RECURSIVE PostOrder(_)
PostOrder(t) == IF Len(t) = 1 THEN t ELSE PostOrder(t[1]) \o PostOrder(t[3]) \o <<t[2]>>

\* With the operands of - exchanged.
RECURSIVE Value(_)
Value(t) == IF Len(t) = 1 THEN Digit(t[1]) ELSE Result(t[2], Value(t[3]), Value(t[1]))

\* What the functions compute, which for three of them is less than their comments say.
\* str_search_force2 finds the first occurrence, or returns N.  str_search_force does so
\* among the places before the last one, and misses an occurrence at the end of the text,
\* where test_string.cpp:108 promises its index.  The reversed text is the text backwards
\* and has the same elements.  A compressed text that is shorter expands to the text;
\* otherwise the text comes out, followed by what is left of its runs if these are longer,
\* and not the runs that test_cti.h:24 shows.  all_diff tells whether a character repeats.
\* A postfix expression is the tree of the infix one in postorder, and calc4 evaluates it
\* with the operands of - exchanged, which is not the value test_cti.h:57 speaks of.  The
\* trie has the last value put for each key, and -1 or 0 for the other words.
Answered ==
    gets # <<>> =>
        LET a == asks[2]
        IN  CASE asks[1] = "search" ->
                    LET pat == asks[3]
                        at == {i \in 0..Len(a) - Len(pat) : SubSeq(a, i + 1, i + Len(pat)) = pat}
                        first(where) == IF where = {} THEN Len(a) ELSE Min(where)
                    IN  gets[1] = first(at \ {Len(a) - Len(pat)}) /\ gets[2] = first(at)
              [] asks[1] = "string" ->
                    /\ gets[1] = Reverse(a) /\ elements_same(gets[1], a)
                    /\ IF Len(gets[2]) < Len(a) THEN Expanded(gets[2]) = a ELSE IsPrefix(a, gets[2])
                    /\ Len(gets[2]) = 2 * Runs(a)
                    /\ gets[3] <=> Cardinality(Range(a)) = Len(a)
              [] asks[1] = "expression" ->
                    gets[1] = PostOrder(a) /\ (~HasQuotient(a) => gets[2] = Value(a))
              [] OTHER ->
                    \A key \in Text(3) :
                        LET puts == {k \in DOMAIN a : a[k] = key}
                        IN  IF puts # {} THEN trie_st_get(gets[1], key) = Max(puts)
                            ELSE trie_st_get(gets[1], key) \in {-1, 0}
=============================================================================
