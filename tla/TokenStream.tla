---------------------------- MODULE TokenStream -----------------------------
(***************************************************************************)
(* The token stream (PrsStream) as the parsers read it: kinds by index, a  *)
(* length, and a cursor.  Token i is kinds[i + 1].  The stream starts with *)
(* its dummy token 0 and ends with EOF; error tokens are appended behind   *)
(* its length.  The lookahead of a table reads on from the cursor.         *)
(***************************************************************************)
EXTENDS ParseTable

VARIABLES kinds, len, index

getKind(i) == kinds[i + 1]
getNext(i) == IF i + 1 < len THEN i + 1 ELSE len - 1
getPrevious(i) == IF i <= 0 THEN 0 ELSE i - 1
peek(i) == getNext(i)

(* A lookahead state, not an action: it takes one more token to tell.      *)
AsksForMore(act) == act \in Int /\ act > LA_STATE_OFFSET

(* The action from lookahead state from[1] on, where from[2] is the next   *)
(* token: with as many tokens of lookahead as it takes.                    *)
lookahead[from \in Int \X Nat] ==
  LET next == lookAhead(from[1] - LA_STATE_OFFSET, getKind(from[2]))
  IN  IF AsksForMore(next) THEN lookahead[<<next, getNext(from[2])>>] ELSE next

tAction(state, sym, cursor) ==
  LET act == tableAction(state, sym)
  IN  IF AsksForMore(act) THEN lookahead[<<act, peek(cursor)>>] ELSE act
=============================================================================
