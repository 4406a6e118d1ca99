----------------------- MODULE MCDeterministicParser ------------------------
(***************************************************************************)
(* The deterministic parser on the table of a grammar with lists in        *)
(* brackets, in the generator's layout:                                    *)
(*                                                                         *)
(*    1 P -> L           6 S -> O E w u         10 O ->                    *)
(*    2 L -> S           7 S -> O F w v         11 O -> v                  *)
(*    3 L -> L S         8 S -> O ( L )         12 E -> w                  *)
(*    4 S -> O i         9 S -> O ( L error )   13 F -> w                  *)
(*    5 S -> O i u                                                         *)
(*                                                                         *)
(* E and F take two tokens of lookahead.  An i without u is reduced on the *)
(* next token, then S is, and an empty O may follow: three reductions, of  *)
(* which the last one grows the stack again.  An error can be repaired     *)
(* only in brackets.  The terminals are i u v w ( ) EOF error (1 to 8) and *)
(* a marker (9) that opens the entry point for a single S.                 *)
(***************************************************************************)
EXTENDS DeterministicParser

FromZero(s) == [k \in 0 .. Len(s) - 1 |-> s[k + 1]]

MCbaseAction == FromZero(
  <<1, 1, 2, 2, 3, 3, 3, 3, 3, 3, 4, 4, 5, 6, 2, 20, 21, 2, 26, 6, 7, 12,
    27, 26, 3, 26, 20, 22, 8, 23, 26, 30, 34, 28, 32, 38, 2, 26, 34, 33,
    38, 3, 26, 39, 0>>)

MCbaseCheck == FromZero(
  <<0, 1, 1, 2, 2, 3, 4, 4, 4, 5, 0, 1, 1, 1>>)

MCtermAction == FromZero(
  <<0, 45, 10, 12, 13, 56, 10, 45, 4, 56, 50, 19, 45, 10, 44, 56, 10, 10,
    0, 1, 45, 28, 45, 45, 29, 33, 45, 60, 10, 44, 39, 56, 45, 45, 10, 51,
    40, 56, 45, 45, 53, 52, 43, 0, 0, 54, 0, 0, 0>>)

MCtermCheck == FromZero(
  <<0, 0, 0, 2, 3, 3, 0, 0, 0, 3, 2, 9, 0, 1, 7, 3, 4, 5, 0, 7, 0, 1, 0, 0,
    4, 5, 0, 4, 0, 7, 4, 3, 0, 0, 0, 2, 4, 3, 0, 0, 6, 3, 8, 0, 0, 6, 0, 0,
    0>>)

MCasr ==
  14 :> {1, 3, 4, 5, 9} @@ 19 :> {1, 3, 4, 5} @@ 20 :> {7} @@
  21 :> {1, 3, 4, 5, 7} @@ 26 :> {1, 4, 5} @@ 27 :> {7} @@
  28 :> {1, 2, 3, 4, 5, 6, 7, 8} @@ 29 :> {4} @@ 33 :> {1, 3, 4, 5} @@
  30 :> {4} @@ 34 :> {4} @@ 38 :> {1, 3, 4, 5, 6, 8} @@ 39 :> {2} @@
  40 :> {3} @@ 43 :> {6}

MCAutomaton == Automaton(1 .. 9, 2)

Short(n) == UNION {[1 .. k -> 1 .. 6] : k \in 0 .. n}

Long == {<<1, 5, 4, 4, 2, 6, 1>>, <<3, 5, 1, 1, 6, 4, 4, 3>>, <<5, 5, 1, 6, 1, 1>>,
         <<1, 4, 4, 6>>, <<5, 1, 3, 4, 4, 6>>, <<5, 1, 4, 6>>, <<3, 1, 2, 3, 1>>}

MCInputs == {Append(s, 7) : s \in Short(2) \cup Long}
=============================================================================
