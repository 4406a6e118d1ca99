---------------------------- MODULE MCExprTable -----------------------------
(***************************************************************************)
(* The parse table of the repository's own example, ExprParserprs.h:       *)
(*                                                                         *)
(*    1 E -> E + T      3 T -> T * F      5 F -> IntegerLiteral            *)
(*    2 E -> T          4 T -> F          6 F -> ( E )                     *)
(*                                                                         *)
(* The terminals are + * IntegerLiteral ( ) EOF (1 to 6); the nonterminals *)
(* F, T and E follow from 8.  The scope divides rule 6.                    *)
(***************************************************************************)
LOCAL INSTANCE TLC
LOCAL INSTANCE Integers
LOCAL INSTANCE Sequences

FromZero(s) == [i \in 0 .. Len(s) - 1 |-> s[i + 1]]

ExprBaseAction == FromZero(
  <<3, 3, 3, 2, 2, 1, 1, 1, 4, 21, 20, 1, 4, 21, 22, 1, 4, 23, 1, 3, 2, 10, 6, 13, 26, 26>>)

ExprBaseCheck == FromZero(
  <<0, 3, 1, 3, 1, 1, 3, -1, 0, 0, 0, -3, 0, 0, 0, -5, 0, 0, -7, 0, -2, -4, -6, -8, 0>>)

ExprTermCheck == FromZero(<<0, 0, 0, 1, 3, 4, 0, 1, 6, 0, 0, 5, 2, 0, 0, 2, 0, 0, 0, 0, 0>>)

ExprTermAction == FromZero(<<0, 26, 26, 15, 31, 11, 26, 15, 25, 26, 2, 32, 18, 1, 26, 18>>)

(* asr, nasr and inSymb, by state.                                         *)
ExprCandidates ==
  7 :> <<3, 4>> @@ 20 :> <<6, 1>> @@ 11 :> <<3, 4>> @@ 21 :> <<6, 2, 1, 5>> @@
  15 :> <<3, 4>> @@ 22 :> <<1, 5>> @@ 18 :> <<3, 4>> @@ 23 :> <<6, 2, 1, 5>>

ExprNonterminals ==
  7 :> <<2>> @@ 20 :> <<>> @@ 11 :> <<2>> @@ 21 :> <<>> @@ 15 :> <<2>> @@ 22 :> <<>> @@
  18 :> <<1>> @@ 23 :> <<>>

ExprInSymbol ==
  7 :> 0 @@ 20 :> 10 @@ 11 :> 4 @@ 21 :> 9 @@ 15 :> 1 @@ 22 :> 10 @@ 18 :> 2 @@ 23 :> 9

ExprGotos ==
  7 :> {1, 2, 3} @@ 20 :> {} @@ 11 :> {1, 2, 3} @@ 21 :> {} @@ 15 :> {1, 2} @@ 22 :> {} @@
  18 :> {1} @@ 23 :> {}

ExprScopes == <<[prefix |-> <<10, 4>>, suffix |-> <<5>>, lhs |-> 1, la |-> 5,
                 states |-> {18, 15, 11, 7}]>>

ExprName ==
  <<<<"+">>, <<"*">>,
    <<"i", "n", "t", "e", "g", "e", "r", "l", "i", "t", "e", "r", "a", "l">>,
    <<"(">>, <<")">>, <<"e", "o", "f", "_", "t", "o", "k", "e", "n">>,
    <<"e", "r", "r", "o", "r", "_", "t", "o", "k", "e", "n">>>>

(* Every number has seven digits.                                          *)
ExprText ==
  0 :> <<>> @@ 1 :> <<"+">> @@ 2 :> <<"*">> @@ 3 :> <<"1", "2", "3", "4", "5", "6", "7">> @@
  4 :> <<"(">> @@ 5 :> <<")">> @@ 6 :> <<>>
=============================================================================
