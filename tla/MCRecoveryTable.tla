-------------------------- MODULE MCRecoveryTable ---------------------------
(***************************************************************************)
(* The parse table of a grammar with constructs to complete, in the        *)
(* generator's layout:                                                     *)
(*                                                                         *)
(*    1 P -> Ps             6 D -> K ; S          11 E -> ( E )            *)
(*    2 Ps ->               7 Ms ->               12 E -> ( T ) E          *)
(*    3 Ps -> Ps D          8 Ms -> Ms a          13 T -> i                *)
(*    4 D -> E ;            9 B -> { Ps }         14 K -> k                *)
(*    5 D -> Ms c i B      10 E -> i              15 S -> { Ps }           *)
(*                                                                         *)
(* Behind "( i" a ) is a conflict.  The scopes divide the rules 12, 11, 9, *)
(* 5, 6 and 4.  The terminals are i ( ) ; { } c a k EOF (1 to 10) and the  *)
(* marker of the entry point for an E (11); the nonterminals follow, from  *)
(* 101.                                                                    *)
(***************************************************************************)
LOCAL INSTANCE TLC
LOCAL INSTANCE Integers
LOCAL INSTANCE Sequences

FromZero(s) == [i \in 0 .. Len(s) - 1 |-> s[i + 1]]

MCbaseAction == FromZero(
  <<1, 1, 2, 2, 3, 3, 3, 4, 4, 5, 6, 6, 6, 7, 8, 9, 1, 20, 23, 2, 5, 13,
    14, 9, 20, 21, 3, 22, 6, 24, 25, 30, 27, 28, 33, 36, 32, 33, 36, 37,
    26, 40, 49, 0, 0, 12, 5, 6, 42, 46, 56, 0, 3, 22, 0, 24, 56, 30, 0, 3,
    22, 0, 24, 0, 30, 0, 10, 13, 0>>)

MCbaseCheck == FromZero(
  <<0, 1, 0, 2, 2, 4, 3, 0, 2, 3, 1, 3, 4, 1, 1, 3, -1, 1, 2, -2, -3, -4,
    -5, -6, -7, 6, 3, 4, -8, 6, -9, 8, -10, -11, 6, 7, -12, -13, -14, -15,
    -16, -17, 2, 0, 0, 6, 5, 9, -18, -19, 2, 0, 3, 4, 0, 6, -20, 8, 0, 3,
    4, 0, 6, 0, 8, 0, 0, 0, 0, 0, 0, 0, 0, 0, 0>>)

MCtermAction == FromZero(
  <<0, 2, 69, 79, 28, 69, 69, 32, 28, 69, 79, 28, 19, 69, 69, 65, 7, 7, 83,
    1, 69, 37, 77, 65, 73, 69, 2, 69, 69, 38, 66, 80, 69, 69, 41, 39, 69,
    69, 79, 28, 69, 40, 2, 0, 0, 48, 7, 79, 28, 0, 0, 0, 84, 0, 0, 83, 7,
    79, 28, 0, 0, 0, 78, 0, 0, 83, 0, 0>>)

MCtermCheck == FromZero(
  <<0, 0, 0, 1, 2, 0, 0, 1, 2, 0, 1, 2, 11, 0, 0, 10, 7, 8, 9, 10, 0, 7, 8,
    10, 4, 0, 0, 0, 0, 4, 3, 3, 0, 0, 1, 3, 0, 0, 1, 2, 0, 5, 0, 0, 0, 5,
    0, 1, 2, 0, 0, 0, 6, 0, 0, 9, 0, 1, 2, 0, 0, 0, 6, 0, 0, 9, 0, 0>>)

MCasr == [i \in {} |-> {}]

MCinSymbol ==
  16 :> 0 @@ 19 :> 11 @@ 20 :> 101 @@ 21 :> 106 @@ 22 :> 104 @@
  23 :> 102 @@ 24 :> 106 @@ 28 :> 2 @@ 30 :> 108 @@ 32 :> 1 @@
  33 :> 106 @@ 36 :> 107 @@ 37 :> 7 @@ 38 :> 4 @@ 39 :> 3 @@ 40 :> 5 @@
  41 :> 1 @@ 48 :> 5 @@ 49 :> 102 @@ 56 :> 102

MCScopes ==
  <<[prefix |-> <<107, 2>>, suffix |-> <<3, 106>>, lhs |-> 6, la |-> 3,
     states |-> {19, 23, 28, 39, 49, 56}],
    [prefix |-> <<106, 2>>, suffix |-> <<3>>, lhs |-> 6, la |-> 3,
     states |-> {19, 23, 28, 39, 49, 56}],
    [prefix |-> <<102, 5>>, suffix |-> <<6>>, lhs |-> 5, la |-> 6,
     states |-> {41}],
    [prefix |-> <<104>>, suffix |-> <<7, 1, 105>>, lhs |-> 3, la |-> 7,
     states |-> {23, 49, 56}],
    [prefix |-> <<108>>, suffix |-> <<4, 109>>, lhs |-> 3, la |-> 4,
     states |-> {23, 49, 56}],
    [prefix |-> <<106>>, suffix |-> <<4>>, lhs |-> 3, la |-> 4,
     states |-> {23, 49, 56}]>>

MCGrammar ==
  <<<<102>>, <<>>, <<102, 103>>, <<106, 4>>, <<104, 7, 1, 105>>,
    <<108, 4, 109>>, <<>>, <<104, 8>>, <<5, 102, 6>>, <<1>>, <<2, 106, 3>>,
    <<2, 107, 3, 106>>, <<1>>, <<9>>, <<5, 102, 6>>>>
=============================================================================
