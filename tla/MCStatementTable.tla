------------------------- MODULE MCStatementTable ---------------------------
(***************************************************************************)
(* The parse table of a small ambiguous grammar, in the generator's        *)
(* layout, with every kind of action the drivers know:                     *)
(*                                                                         *)
(*    1 P -> S         8 X -> X i       15 S -> A x                        *)
(*    2 P -> P S       9 Y ->           16 S -> ( L )                      *)
(*    3 S -> X u      10 Y -> Y i       17 A -> ( i M M M M                *)
(*    4 S -> Y u      11 S -> E w u     18 M ->                            *)
(*    5 S -> Y v      12 S -> F w v     19 L -> i                          *)
(*    6 S -> error u  13 E -> w         20 L -> L x i                      *)
(*    7 X ->          14 F -> w         21 L -> error                      *)
(*                                                                         *)
(* A statement of i's is an X or a Y and only its end tells which: a       *)
(* conflict of two null reductions.  X u and Y u are ambiguous.  E and F   *)
(* take two tokens of lookahead.  Behind "( i" an x is a conflict: the     *)
(* first alternative reduces a whole A, with four empty M's, before it     *)
(* takes the x; the second one goes on in the list.  The error productions *)
(* make the start of a statement and the list points of recovery.  The     *)
(* terminals are i u v w ( ) x EOF error (1 to 9) and a marker (10) that   *)
(* opens the entry point for a single S.                                   *)
(***************************************************************************)
LOCAL INSTANCE TLC
LOCAL INSTANCE Integers
LOCAL INSTANCE Sequences

FromZero(s) == [i \in 0 .. Len(s) - 1 |-> s[i + 1]]

MCbaseAction == FromZero(
  <<1, 1, 1, 2, 2, 2, 2, 3, 3, 4, 4, 2, 2, 5, 6, 2, 2, 7, 8, 9, 9, 9, 5,
    47, 1, 33, 34, 35, 36, 37, 12, 17, 11, 39, 42, 46, 47, 48, 54, 19, 38,
    55, 33, 34, 35, 36, 37, 29, 52, 2, 33, 34, 35, 36, 37, 27, 59, 62, 53,
    2, 65, 25, 36, 0, 0, 0, 0, 61, 0, 62, 17, 0, 7, 9, 0, 18, 19, 0>>)

MCbaseCheck == FromZero(
  <<0, 1, 2, 2, 2, 2, 2, 0, 2, 0, 2, 3, 3, 1, 1, 2, 3, 6, 0, 1, 3, 1>>)

MCtermAction == FromZero(
  <<0, 78, 18, 13, 14, 78, 72, 72, 9, 30, 31, 78, 78, 84, 32, 39, 101, 78,
    48, 78, 72, 72, 9, 30, 31, 18, 99, 78, 32, 78, 72, 72, 9, 30, 31, 71,
    18, 71, 32, 78, 86, 81, 78, 88, 82, 83, 78, 78, 78, 0, 57, 58, 78, 78,
    78, 93, 90, 0, 19, 75, 94, 60, 78, 0, 89, 78, 98, 0, 0, 0, 0, 0, 0, 0,
    0, 0>>)

MCtermCheck == FromZero(
  <<0, 0, 0, 2, 3, 0, 1, 2, 3, 4, 5, 0, 0, 2, 9, 10, 4, 0, 1, 0, 1, 2, 3,
    4, 5, 0, 9, 0, 9, 0, 1, 2, 3, 4, 5, 8, 0, 8, 9, 0, 1, 2, 0, 1, 2, 3, 0,
    0, 0, 0, 4, 4, 0, 0, 0, 7, 3, 0, 6, 7, 6, 7, 0, 0, 2, 0, 1, 0, 0, 0, 0,
    0, 0, 0, 0, 0>>)

MCasr ==
  22 :> {1, 2, 3, 4, 5, 9, 10} @@ 30 :> {4} @@ 31 :> {1, 9} @@
  32 :> {2} @@ 39 :> {1, 2, 3, 4, 5, 9} @@ 47 :> {1, 2, 3, 4, 5, 8, 9} @@
  33 :> {1, 2} @@ 34 :> {1, 2, 3} @@ 35 :> {4} @@ 36 :> {4} @@
  37 :> {7} @@ 48 :> {6, 7} @@ 38 :> {6, 7} @@ 55 :> {8} @@ 57 :> {2} @@
  58 :> {3} @@ 59 :> {7} @@ 60 :> {1} @@ 61 :> {7} @@ 62 :> {7}
=============================================================================
