------------------------------- MODULE Chess --------------------------------
(***************************************************************************)
(* The gobang board of chess/chess_core.cpp: chess_board_find looks for n  *)
(* stones of one colour in a row.  It walks away from a stone in the eight *)
(* directions at once, one step at a time, and stops at the first of the   *)
(* four lines on which n - 1 further stones were met.                      *)
(***************************************************************************)
EXTENDS Integers, Sequences, FiniteSets

CONSTANTS W, H,        \* of the board
          Ns,          \* how many stones in a row are asked for
          MaxStone     \* at most so many stones are put on the board

\* The test asks for 5 in a row.
ASSUME BoardAssumption == W \in Nat /\ H \in Nat /\ Ns \subseteq Nat \ {0, 1}

VARIABLES hit,         \* hit[c] is 0, 1 for black or 2 for white
          win,         \* the points marked as winning
          asked,       \* n of the last chess_board_find, 0 before it
          result       \* what it returned

boardVars == <<hit, win, asked, result>>

Cell == (0..W - 1) \X (0..H - 1)

BoardInit ==
    /\ hit = [c \in Cell |-> 0] /\ win = {}
    /\ asked = 0 /\ result = -1

-----------------------------------------------------------------------------
\* left-right, top-bottom, left_top-right_bottom, left_bottom-right_top
Lines == << {<<-1, 0>>, <<1, 0>>}, {<<0, -1>>, <<0, 1>>},
            {<<-1, -1>>, <<1, 1>>}, {<<-1, 1>>, <<1, -1>>} >>

At(c, v, d) == <<c[1] + d * v[1], c[2] + d * v[2]>>

Size == IF W > H THEN W ELSE H

AnyColour(c, v, d) == \A e \in 1..d : At(c, v, e) \in Cell /\ hit[At(c, v, e)] # 0

\* The walk from c in direction v is not off after d steps: it is on the board and
\* met only stones of the colour of c.
NotOff(c, v, d) == \A e \in 1..d : At(c, v, e) \in Cell /\ hit[At(c, v, e)] = hit[c]

\* The stones collected on line l within d steps, pts_lr and its like.
Collected(c, l, d) == {At(c, w[1], w[2]) :
                          w \in {u \in Lines[l] \X (1..d) : NotOff(c, u[1], u[2])}}

\* The stones of the first line with n of them, none if there is no such line.
chess_board_find_first(c, n) ==
    LET full == {f \in (1..Size) \X (1..4) : Cardinality(Collected(c, f[2], f[1])) >= n}
        first == CHOOSE f \in full : \A g \in full : 4 * f[1] + f[2] <= 4 * g[1] + g[2]
    IN  IF full = {} THEN {} ELSE Collected(c, first[2], first[1])

chess_board_find(n) ==
    LET index(c) == c[2] * W + c[1]
        found == {c \in Cell : hit[c] # 0 /\ chess_board_find_first(c, n - 1) # {}}
        first == CHOOSE c \in found : \A e \in found : index(c) <= index(e)
    IN  /\ result' = IF found = {} THEN -1 ELSE 0
        /\ win' = IF found = {} THEN win
                  ELSE win \cup {first} \cup chess_board_find_first(first, n - 1)
        /\ UNCHANGED hit

chess_board_reset == hit' = [c \in Cell |-> 0] /\ win' = {}

-----------------------------------------------------------------------------
(* The test puts stones on an empty board and asks. *)

place ==
    /\ asked = 0 /\ Cardinality({c \in Cell : hit[c] # 0}) < MaxStone
    /\ \E c \in Cell, colour \in {1, 2} :
          hit[c] = 0 /\ hit' = [hit EXCEPT ![c] = colour]
    /\ UNCHANGED <<win, asked, result>>

ask ==
    /\ asked = 0
    /\ \E n \in Ns : asked' = n /\ chess_board_find(n)

again ==
    /\ asked # 0 /\ asked' = 0 /\ result' = -1
    /\ chess_board_reset

BoardNext == place \/ ask \/ again

BoardSpec == BoardInit /\ [][BoardNext]_boardVars

-----------------------------------------------------------------------------
(* Properties *)

\* All rows of n stones of one colour, as the rules at the top of chess_core.cpp
\* have them.
Rows(n) ==
    {r \in {{At(c, v, e) : e \in 0..n - 1} :
               c \in Cell, v \in {<<1, 0>>, <<0, 1>>, <<1, 1>>, <<-1, 1>>}} :
        r \subseteq Cell /\ \E colour \in {1, 2} : \A c \in r : hit[c] = colour}

\* chess_board_find returns 0 exactly if there is a row of n stones, and it marks
\* such a row: never more than n points, which would not fit into its arrays, and
\* never points of an earlier game.
FindsRow ==
    IF asked = 0 THEN win = {}
    ELSE /\ result = 0 <=> Rows(asked) # {}
         /\ IF result = 0 THEN win \in Rows(asked) ELSE win = {}
=============================================================================
