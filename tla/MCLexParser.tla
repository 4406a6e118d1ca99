---------------------------- MODULE MCLexParser -----------------------------
(***************************************************************************)
(* Scanning with the table of a small lexical grammar, in the generator's  *)
(* layout:                                                                 *)
(*                                                                         *)
(*    1 Token -> W          7 W -> a        12 R -> R a                    *)
(*    2 Token -> U          8 W -> W a      13 T ->                        *)
(*    3 Token -> X a        9 U -> b        14 E ->                        *)
(*    4 Token -> c R T b   10 X -> b        15 F ->                        *)
(*    5 Token -> d E a b   11 R ->          16 Token -> T                  *)
(*    6 Token -> d F a c                                                   *)
(*                                                                         *)
(* A W ends only where the text seems to end, so every word followed by    *)
(* something takes a second attempt.  A b is reduced on the next           *)
(* character, in a way that depends on it; R and T are empty reductions in *)
(* a row, which grow the stack; E and F take two characters of lookahead.  *)
(* By rule 16 a Token may be empty, which the scanner takes as an error.   *)
(* The characters are a b c d x (1 to 5), EOF is 6.                        *)
(***************************************************************************)
EXTENDS LexParser

FromZero(s) == [k \in 0 .. Len(s) - 1 |-> s[k + 1]]

MCbaseAction == FromZero(
  <<1, 1, 1, 1, 1, 1, 1, 2, 2, 3, 4, 5, 5, 6, 7, 8, 1, 5, 26, 27, 2, 28,
    10, 16, 2, 12, 14, 17, 21, 30, 23, 25, 31, 34, 27, 29, 35, 30, 33, 0>>)

MCbaseCheck == FromZero(
  <<0, 1, 1, 2, 4, 4, 4, 1, 2, 1, 1, 0, 2, 0, 0, 0, 1>>)

MCtermAction == FromZero(
  <<0, 40, 11, 14, 15, 13, 47, 22, 24, 25, 40, 10, 40, 58, 40, 0, 9, 1, 48,
    0, 39, 40, 43, 13, 52, 40, 37, 40, 38, 40, 40, 44, 45, 40, 0, 0, 46, 0,
    0, 0>>)

MCtermCheck == FromZero(
  <<0, 0, 0, 2, 3, 0, 1, 2, 3, 4, 0, 1, 0, 1, 0, 0, 6, 0, 1, 0, 6, 0, 1, 0,
    1, 0, 1, 0, 1, 0, 0, 2, 2, 0, 0, 0, 3, 0, 0, 0>>)

MCasr ==
  17 :> {1, 2, 3, 4, 6} @@ 22 :> {1, 6} @@ 24 :> {1, 2} @@ 25 :> {1} @@
  26 :> {6} @@ 27 :> {1, 6} @@ 28 :> {1} @@ 30 :> {1, 2} @@ 31 :> {1} @@
  34 :> {1} @@ 35 :> {2} @@ 37 :> {2} @@ 38 :> {3}

(* As many terminals and tokens of lookahead as the table has.             *)
MCAutomaton == Automaton(1 .. 6, 2)

As(n) == [k \in 1 .. n |-> 1]

MCWords == {As(n) : n \in 1 .. 8} \cup {<<2>>, <<2, 1>>, <<4, 1, 2>>, <<4, 1, 3>>}
           \cup {<<3>> \o As(n) \o <<2>> : n \in 0 .. 8}

Short(n) == UNION {[1 .. k -> 1 .. 5] : k \in 0 .. n}

Long == {<<3, 1, 1, 2, 2>>, <<4, 1, 3, 4, 1, 2>>, <<3, 1, 1, 5, 1>>, <<4, 1, 4, 1, 1>>,
         <<1, 1, 2, 2, 1, 3>>, <<2, 1, 1, 3, 2, 4>>, <<3, 3, 1, 2>>, <<5, 5, 4, 1>>,
         <<4, 1, 2, 4, 1, 3>>, <<3, 2, 3, 1, 2>>, <<2, 2, 1, 1, 1>>, <<1, 3, 1, 1, 1, 2>>,
         <<4, 1, 1, 4, 1, 5>>, <<3, 1, 4, 1, 3, 2>>}

MCTexts == {Append(t, 6) : t \in Short(3) \cup Long}

Call(by, first, last) == [way |-> by, first |-> first, last |-> last]

MCCalls == {Call("parse", 0, 0), Call("next", 0, 0)}
           \cup {Call("range", f, l) : f \in 0 .. 1, l \in 0 .. 4}
=============================================================================
