-------------------------- MODULE MCRecoveryParser --------------------------
(***************************************************************************)
(* Sentences of the grammar of MCRecoveryTable in which up to two tokens   *)
(* are missing, and all short inputs.                                      *)
(***************************************************************************)
EXTENDS RecoveryParser, MCRecoveryTable

(* Everything but an S, the block behind "k ;".                            *)
MCProstheses == 101 .. 108

Sentences ==
  {<<2, 2, 1, 3, 3, 4, 1, 4>>,           \* ( ( i ) ) ; i ;
   <<2, 1, 3, 2, 1, 3, 4>>,              \* ( i ) ( i ) ;
   <<8, 7, 1, 5, 1, 4, 6, 1, 4>>,        \* a c i { i ; } i ;
   <<9, 4, 5, 7, 1, 5, 6, 6>>,           \* k ; { c i { } }
   <<7, 1, 5, 7, 1, 5, 2, 1, 3, 4, 6, 6>>}  \* c i { c i { ( i ) ; } }

Without(s) == {RemoveAt(s, i) : i \in DOMAIN s}

Damaged(s) == {s} \cup Without(s) \cup UNION {Without(r) : r \in Without(s)}

Short(n) == UNION {[1 .. j -> 1 .. 9] : j \in 0 .. n}

MCInputs == {Append(s, EOFT_SYMBOL) : s \in Short(2) \cup UNION {Damaged(s) : s \in Sentences}}

(* The scopes but that of rule 12, which the conflict is about.            *)
MCScopesWithoutCast == Tail(MCScopes)
=============================================================================
