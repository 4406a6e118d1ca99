---------------------------- MODULE MCGLRParser -----------------------------
(***************************************************************************)
(* parseEntryNoRepair on an ambiguous grammar, in the generator's layout:  *)
(*                                                                         *)
(*    1 S -> A E B    5 B ->          9 E -> V     13 Q -> L u             *)
(*    2 S -> N u      6 B -> i       10 N -> i     14 Q -> i L +           *)
(*    3 A ->          7 E -> E + E   11 V -> i     15 L -> i               *)
(*    4 A -> i        8 E -> N       12 S -> E u   16 L -> L i             *)
(*                                                                         *)
(* A and B are empty or not, sums associate either way, and an E is a name *)
(* or a variable without a node of its own.  The terminals are i + u EOF   *)
(* (1 to 4) and two markers, that open the entry points for an E (5) and   *)
(* for a Q (6), which begins with a list.                                  *)
(***************************************************************************)
EXTENDS GLRParser

FromZero(s) == [i \in 0 .. Len(s) - 1 |-> s[i + 1]]

MCbaseAction == FromZero(
  <<1, 1, 1, 2, 2, 3, 3, 4, 4, 4, 5, 6, 1, 7, 7, 8, 8, 1, 26, 31, 8, 27,
    34, 9, 3, 12, 14, 17, 39, 8, 9, 15, 41, 42, 21, 43, 8, 9, 25, 30, 35,
    33, 39, 43, 48, 46, 1, 51, 44, 47, 8, 9, 0, 20, 3, 0, 10, 11, 0, 70, 8,
    0, 83, 15, 0, 45, 7, 0>>)

MCbaseCheck == FromZero(
  <<0, 3, 2, 0, 1, 0, 1, 3, 1, 1, 1, 1, 2, 2, 3, 1, 2>>)

MCtermAction == FromZero(
  <<0, 68, 53, 68, 38, 0, 24, 25, 68, 4, 56, 56, 68, 40, 68, 68, 38, 68,
    52, 45, 80, 68, 0, 8, 59, 68, 56, 56, 56, 56, 68, 0, 45, 68, 52, 68,
    62, 52, 15, 68, 84, 0, 81, 5, 74, 45, 68, 38, 68, 84, 82, 68, 7, 65, 7,
    7, 0, 0>>)

MCtermCheck == FromZero(
  <<0, 0, 1, 0, 1, 0, 5, 6, 0, 1, 2, 3, 0, 1, 0, 0, 1, 0, 4, 2, 3, 0, 0, 2,
    3, 0, 1, 2, 3, 4, 0, 0, 2, 0, 4, 0, 1, 4, 3, 0, 1, 0, 3, 0, 1, 2, 0, 1,
    0, 1, 2, 0, 1, 2, 3, 4, 0, 0>>)

MCasr == [i \in {} |-> 0]

MCGrammar ==
  <<<<102, 104, 103>>, <<105, 3>>, <<>>, <<1>>, <<>>, <<1>>, <<104, 2, 104>>, <<105>>,
    <<106>>, <<1>>, <<1>>, <<104, 3>>, <<108, 3>>, <<1, 108, 2>>, <<1>>, <<108, 1>>>>

MCStartSymbol == [m \in {0, 5, 6} |-> CASE m = 0 -> 101 [] m = 5 -> 104 [] m = 6 -> 107]

Short(n) == UNION {[1 .. k -> 1 .. 3] : k \in 0 .. n}

Sums == {<<1, 2, 1, 3>>, <<1, 1, 2, 1>>, <<1, 2, 1, 2, 1>>, <<1, 1, 2, 1, 1>>, <<1, 2, 1, 2, 1, 3>>,
         <<1, 1, 2, 1, 2, 1, 1>>, <<1, 2, 1, 2, 1, 2, 1, 1>>, <<1, 2, 1, 2, 2>>}

(* A list of n, and how it goes on.                                        *)
List(n, kind) == Append([i \in 1 .. n |-> 1], kind)

Streams(set) == {Append(s, EOFT_SYMBOL) : s \in set}

(* A list of 40 is too long for one step.                                  *)
MCInputs ==
  LET common == Short(3) \cup Sums \cup {List(3, 2), List(4, 3)}
  IN  [m \in {0, 5, 6} |-> Streams(IF m = 6 THEN common \cup {List(40, 3)} ELSE common)]

MCAutomaton == Automaton(1 .. 6, 1)
=============================================================================
