-------------------------- MODULE MCDiagnoseParser --------------------------
(***************************************************************************)
(* An input of the repository's Expr grammar on which DiagnoseParser goes  *)
(* on from a stack that it never had.                                      *)
(***************************************************************************)
EXTENDS DiagnoseParser, MCExprTable

(* ( ( i * * ( ( ) ( ) ) )                                                 *)
StaleScope == {<<4, 4, 3, 2, 2, 4, 4, 5, 4, 5, 5, 5, EOFT_SYMBOL>>}
=============================================================================
