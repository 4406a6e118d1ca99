-------------------------- MODULE MCDiagnoseScope ---------------------------
(***************************************************************************)
(* Inputs of the grammar of MCRecoveryTable, for which DiagnoseParser also *)
(* needs the candidates of the states and the names of the symbols.        *)
(***************************************************************************)
EXTENDS DiagnoseParser, MCRecoveryTable, TLC

MCcandidates ==
  16 :> <<1, 2, 7, 8, 9, 10>> @@ 19 :> <<1, 2>> @@ 20 :> <<10>> @@ 21 :> <<10>> @@
  22 :> <<7, 8>> @@ 23 :> <<1, 2, 7, 8, 9, 10>> @@ 24 :> <<4>> @@ 28 :> <<1, 2>> @@
  30 :> <<4>> @@ 32 :> <<3>> @@ 33 :> <<3>> @@ 36 :> <<3>> @@ 37 :> <<1>> @@ 38 :> <<5>> @@
  39 :> <<1, 2>> @@ 40 :> <<1, 2, 6, 7, 8, 9>> @@ 41 :> <<5>> @@
  48 :> <<1, 2, 6, 7, 8, 9>> @@ 49 :> <<1, 2, 6, 7, 8, 9>> @@ 56 :> <<1, 2, 6, 7, 8, 9>>

MCnonterminals ==
  16 :> <<2>> @@ 19 :> <<6>> @@ 20 :> <<>> @@ 21 :> <<>> @@ 22 :> <<>> @@
  23 :> <<3, 4, 6, 8>> @@ 24 :> <<>> @@ 28 :> <<6, 7>> @@ 30 :> <<>> @@ 32 :> <<>> @@
  33 :> <<>> @@ 36 :> <<>> @@ 37 :> <<>> @@ 38 :> <<9>> @@ 39 :> <<6>> @@ 40 :> <<2>> @@
  41 :> <<5>> @@ 48 :> <<2>> @@ 49 :> <<3, 4, 6, 8>> @@ 56 :> <<3, 4, 6, 8>>

MCGotos == [s \in DOMAIN MCnonterminals |-> {n \in 1 .. 9 : MCbaseCheck[s + n] = n}]

MCname ==
  <<<<"i">>, <<"(">>, <<")">>, <<";">>, <<"{">>, <<"}">>, <<"c", "a", "s", "e">>,
    <<"a", "b", "s", "t", "r", "a", "c", "t">>, <<"k", "e", "y">>, <<>>, <<"m">>, <<>>>>

MCtext ==
  0 :> <<>> @@ 1 :> <<"c", "a", "s", "t">> @@ 2 :> <<"(">> @@ 3 :> <<")">> @@ 4 :> <<";">> @@
  5 :> <<"{">> @@ 6 :> <<"}">> @@ 7 :> <<"c", "a", "s", "e">> @@
  8 :> <<"a", "b", "s", "t", "r", "a", "c", "t">> @@ 9 :> <<"k", "e", "y">> @@ 10 :> <<>>

(* All that are short, sentences in which a token is missing, and short    *)
(* ones in which one is another.                                           *)
Sentences ==
  {<<2, 2, 1, 3, 3, 4, 1, 4>>,              \* ( ( i ) ) ; i ;
   <<8, 7, 1, 5, 1, 4, 6, 1, 4>>,           \* a c i { i ; } i ;
   <<9, 4, 5, 7, 1, 5, 6, 6>>,              \* k ; { c i { } }
   <<7, 1, 5, 2, 2, 1, 3, 1, 3, 4, 6>>}     \* c i { ( ( i ) i ) ; }

(* The secondary phase closes a scope; the scope that is closed is another *)
(* configuration's, and the parser lost, or on a stack that no parse has;  *)
(* a repair begins before the token of the one before it.                  *)
Misplaced ==
  {<<2, 2, 1, 2, 3, 4, 1, 4>>,                         \* ( ( i ( ) ; i ;
   <<2, 2, 2, 1, 3, 3, 1, 4>>,                         \* ( ( ( i ) ) i ;
   <<7, 1, 5, 7, 1, 5, 6, 1, 1, 4, 6, 6, 1, 4>>,       \* c i { c i { } i i ; } } i ;
   <<2, 2, 1, 3, 1, 3, 4, 7, 1, 7, 1, 4, 6>>}          \* ( ( i ) i ) ; c i c i ; }

(* Those in which a token is repeated more often than the buffer, of which *)
(* the last position is 6, can hold, so that panic mode begins.            *)
Repeated ==
  {<<3, 3, 3, 3, 3, 3, 3, 3, 3, 4>>,
   <<1, 3, 5, 5, 5, 5, 5, 6, 6, 4>>,
   <<2, 5, 3, 3, 3, 3, 3, 3, 3, 1, 4, 1, 4, 1, 4>>,
   <<7, 1, 5, 3, 3, 3, 3, 3, 3, 3, 3, 1, 4, 1, 4, 6>>,
   <<8, 3, 3, 3, 3, 3, 3, 3, 3, 3, 3, 3>>,
   <<1, 4, 2, 6, 6, 6, 6, 6, 6, 6, 6, 6, 1, 4, 1, 4>>,
   <<9, 5, 5, 5, 5, 5, 5, 5, 5, 5, 5, 4>>,
   <<2, 2, 2, 5, 6, 5, 6, 5, 6, 5, 6, 5, 6>>}

MCInputs ==
  {Append(s, EOFT_SYMBOL) :
     s \in UNION {[1 .. n -> 1 .. 9] : n \in 1 .. 2}
       \cup UNION {{RemoveAt(s, i) : i \in DOMAIN s} : s \in Sentences}
       \cup UNION {{[s EXCEPT ![i] = x] : i \in DOMAIN s, x \in 1 .. 9} :
                    s \in {t \in Sentences : Len(t) = 8}}
       \cup Misplaced \cup Repeated}
=============================================================================
