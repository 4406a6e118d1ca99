----------------------------- MODULE ScopeTrial -----------------------------
(***************************************************************************)
(* DiagnoseParser::scopeTrial: before an error token the rest of a         *)
(* construct that was begun may be missing.  A scope is a rule that is     *)
(* divided in two: if the symbols of its prefix are on top of the stack,   *)
(* the rest can be taken as read.  The trial looks for scopes with which   *)
(* the parser gets MIN_DISTANCE tokens on.                                 *)
(*                                                                         *)
(* tempStack and stack are one sequence here, the part of it that is still *)
(* the stack's is counted (`low', max_pos + 1).                            *)
(***************************************************************************)
EXTENDS ParseCheck

CONSTANTS
  Scopes,          \* a sequence of records: prefix (from the top of the stack
                   \* down), suffix, lhs, la, states
  inSymbol,        \* state |-> the symbol it is entered with
  MIN_DISTANCE

(* Mutant: no distance is too short.                                       *)
AnyDistance(distance, position) == distance >= position

FarEnough(distance, position) == distance - position + 1 >= MIN_DISTANCE

(* The actions that a conflict row offers, or the only one.                *)
ActionsOf(a) ==
  IF ~IsConflict(a) THEN <<a>>
  ELSE LET end == CHOOSE i \in a .. ERROR_ACTION - 1 :
                    baseAction[i] = 0 /\ \A j \in a .. i - 1 : baseAction[j] # 0
       IN  [i \in 1 .. end - a |-> baseAction[a + i - 1]]

Reducing == [stack : Seq(Int), log : Seq(Int), low : Nat, act : Int]

(* The reductions that a, and then the lookahead la, set off.  low counts  *)
(* the states at the bottom that were never popped.                        *)
Reduced[r \in Reducing, la \in Nat, cursor \in Nat] ==
  IF ~IsReduce(r.act) THEN r
  ELSE LET s == AfterReduce(r.stack, r.act)
       IN  Reduced[[stack |-> s, log |-> Append(r.log, r.act),
                    low |-> Min({r.low, Len(s) - 1}),
                    act |-> tAction(Last(s), la, cursor)], la, cursor]

ReducedFrom(s, log, a, la, cursor) ==
  Reduced[[stack |-> s, log |-> log, low |-> Len(s), act |-> a], la, cursor]

-----------------------------------------------------------------------------
(* What a trial has found: how far the parser gets, and the scopes, from   *)
(* the outermost call in, with the position on the stack where each began. *)
(* `scoped' says that the repair to beat was a scope.                      *)
NoTrial == [distance |-> 0, scopes |-> <<>>, scoped |-> FALSE, seen |-> {}, cursor |-> 0]

Trials == [distance : Nat, scopes : Seq([index : Nat, position : Nat]), scoped : BOOLEAN,
           seen : SUBSET (Nat \X Int), cursor : Nat]

(* How many states are left when r's stack ends with the prefix of the     *)
(* scope, or 0.  At least one state of the stack s has to go.              *)
SourceOf(scope, r, s) ==
  LET n == Len(r.stack) - Len(scope.prefix)
      marked_pos == IF r.low < Len(s) THEN r.low ELSE Len(s) - 1
  IN  IF /\ n \in 1 .. marked_pos
         /\ \A k \in DOMAIN scope.prefix :
              inSymbol[r.stack[Len(r.stack) - k + 1]] = scope.prefix[k]
         /\ r.stack[n] \in scope.states
      THEN n ELSE 0

(* scopeTrialCheck: every scope, and every action on its lookahead, is     *)
(* tried on stack s, with the error token at a position of the buffer;     *)
(* where the parser does not get far enough behind one, another is tried   *)
(* on top of it.                                                           *)
scopeTrialCheck[first \in Int, position \in Nat, s \in Seq(Int), t0 \in Trials] ==
  LET error == Buffered(first, position)
      AtEnd(t) == getKind(error) = EOFT_SYMBOL /\ ~t.scoped
      better(t) == t.distance > t0.distance
      before == CursorBefore(error)
      \* Behind a scope at the n-th state the parser got as far as u says.
      Found[t \in Trials, u \in Trials, i \in Nat, n \in Nat] ==
        LET scope == [index |-> i, position |-> n - 1]
        IN  IF AtEnd(t) /\ u.distance < MAX_DISTANCE /\ u.distance = t.distance
            THEN [u EXCEPT !.distance = MAX_DISTANCE, !.scopes = <<scope>>]
            ELSE IF u.distance > t.distance THEN [u EXCEPT !.scopes = <<scope>> \o @]
            ELSE u
      Checked[t \in Trials, reached \in Seq(Int), c \in Checks] ==
        LET behind == [t EXCEPT !.cursor = c.cursor]
        IN  IF ~FarEnough(c.distance, position)
            THEN scopeTrialCheck[first, position, reached, behind]
            ELSE IF c.distance > t.distance
            THEN [behind EXCEPT !.distance = c.distance, !.scopes = <<>>]
            ELSE behind
      Matched[t \in Trials, i \in Nat, n \in Nat] ==
        LET source == SubSeq(s, 1, n)
            lhs_symbol == Scopes[i].lhs
        IN  Found[t, Checked[t, Goto(source, lhs_symbol),
                             parseCheck(first, source, NT_OFFSET + lhs_symbol, position)], i, n]
      Completed[t \in Trials, i \in Nat, r \in Reducing] ==
        LET n == SourceOf(Scopes[i], r, s)
        IN  IF better(t) THEN t
            ELSE IF r.act = ERROR_ACTION \/ n = 0 THEN [t EXCEPT !.cursor = before]
            ELSE Matched[t, i, n]
      Scope[t \in Trials, i \in Nat] ==
        IF better(t) THEN t
        ELSE FoldLeft(LAMBDA u, a : Completed[u, i, ReducedFrom(s, <<>>, a, Scopes[i].la, before)],
                      t, ActionsOf(tAction(Last(s), Scopes[i].la, t.cursor)))
      begun == [t0 EXCEPT !.seen = @ \cup {<<Len(s), Last(s)>>}]
  IN  IF <<Len(s), Last(s)>> \in t0.seen THEN t0
      ELSE FoldLeft(LAMBDA t, i : Scope[t, i], begun, [i \in DOMAIN Scopes |-> i])

scopeTrial(first, position, s, t, cursor) ==
  [scopeTrialCheck[first, position, s, [t EXCEPT !.seen = {}, !.cursor = cursor]]
     EXCEPT !.scoped = TRUE]
=============================================================================
