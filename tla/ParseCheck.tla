----------------------------- MODULE ParseCheck -----------------------------
(***************************************************************************)
(* How far a parser would get: parseCheck, parseForError and               *)
(* parseUpToError of DiagnoseParser.  All three parse on from a stack,     *)
(* backtracking over the conflicts, and have no effect but on the cursor   *)
(* of the stream.                                                          *)
(*                                                                         *)
(* The tokens they take are numbered as in `buffer', which holds           *)
(* neighbours of the stream: position 1 is the token `first', and beyond   *)
(* an end of the stream its outermost token is repeated.                   *)
(***************************************************************************)
EXTENDS TokenStream

CONSTANT MAX_DISTANCE     \* the last position that a trial reads

INFINITY == 10 * MAX_DISTANCE   \* much bigger than MAX_DISTANCE

Buffered(first, k) ==
  LET token == first + k - 1
  IN  IF token < 0 THEN 0 ELSE IF token < len THEN token ELSE len - 1

(* reset: the cursor stands before the token.                              *)
CursorBefore(token) == getPrevious(token)

(* The stack after a nonterminal.                                          *)
Goto(s, nonterminal) ==
  LET a == ntAction(Last(s), nonterminal)
  IN  IF IsReduce(a) THEN Reductions(s, Len(s), a) ELSE Append(s, a)

-----------------------------------------------------------------------------
(* A parser that has come to position `at' and looks at a symbol of the    *)
(* kind.  farthest is the last position at which an alternative failed.    *)
Attempts == [stack : Seq(Int), log : Seq(Int), act : Int, kind : Nat, at : Nat, cursor : Nat,
             farthest : Nat, visited : SUBSET (Seq(Int) \X Nat),
             pending : Seq([stack : Seq(Int), curtok : Nat, conflict_index : Int,
                            action_length : Nat])]

Attempt(s, kind, at, cursor) ==
  [stack |-> s, log |-> <<>>, act |-> tAction(Last(s), kind, cursor), kind |-> kind,
   at |-> at, cursor |-> cursor, farthest |-> 0, visited |-> {}, pending |-> <<>>]

(* The attempt goes on until it accepts, has failed on the token `stop' or *)
(* with every alternative, or would read beyond limit.                     *)
Ahead(first, limit, stop, c0) ==
  LET kind(at) == getKind(Buffered(first, at))
      cursor(at) == CursorBefore(getNext(Buffered(first, at)))
      \* What comes at the position is read next.
      Reading(c, at) ==
        [c EXCEPT !.at = at, !.kind = kind(at), !.cursor = cursor(at)]
      Acting(c) == [c EXCEPT !.act = tAction(Last(c.stack), c.kind, c.cursor)]
      Done(c) == [c EXCEPT !.stack = AfterAction(@, c.act), !.log = Append(@, c.act)]
      Failed(c) == [c EXCEPT !.farthest = Max({@, c.at})]
      Popped(c) ==
        LET configuration == Last(c.pending)
        IN  [Reading(c, configuration.curtok) EXCEPT
               !.stack = configuration.stack, !.act = NextAct(c.pending),
               !.log = SubSeq(@, 1, configuration.action_length),
               !.pending = AfterPop(@)]
      ahead[c \in Attempts] ==
        CASE IsReduce(c.act) -> ahead[Acting(Done(c))]
          [] IsShift(c.act) \/ IsShiftReduce(c.act) ->
               IF c.at = limit THEN [c EXCEPT !.at = @ + 1]
               ELSE ahead[Acting(Reading(Done(c), c.at + 1))]
          [] IsConflict(c.act) ->
               IF <<c.stack, c.at>> \in c.visited
               THEN ahead[[c EXCEPT !.act = ERROR_ACTION]]
               ELSE ahead[[c EXCEPT
                      !.visited = @ \cup {<<c.stack, c.at>>},
                      !.pending = Append(@, Entry(c.stack, c.at, c.act + 1, Len(c.log))),
                      !.act = baseAction[c.act]]]
          [] c.act = ERROR_ACTION ->
               IF c.at = stop \/ c.pending = <<>> THEN Failed(c) ELSE ahead[Popped(Failed(c))]
          [] c.act = ACCEPT_ACTION -> c
  IN  ahead[c0]

Nowhere == -1

Checks == [distance : Nat, cursor : Nat]

(* parseCheck: the symbol, which may be a nonterminal, and then the buffer *)
(* from the position on.  What counts is where the alternative that is     *)
(* tried last fails; cursor is where the stream is left.                   *)
parseCheck(first, s, symbol, position) ==
  LET before == CursorBefore(Buffered(first, position))
      behind == CursorBefore(getNext(Buffered(first, position)))
      Result[c \in Attempts] ==
        [distance |-> IF c.act = ACCEPT_ACTION THEN INFINITY ELSE c.at, cursor |-> c.cursor]
  IN  Result[Ahead(first, MAX_DISTANCE, Nowhere,
        IF symbol > NT_OFFSET
        THEN Attempt(Goto(s, symbol - NT_OFFSET), getKind(Buffered(first, position)), position,
                     behind)
        ELSE Attempt(s, symbol, position - 1, before))]

(* In the stream itself, token by token.                                   *)
ParseOn(s, kind, cursor, stop) ==
  Ahead(1, Nowhere, stop, Attempt(s, kind, getPrevious(peek(cursor)), cursor))

(* The farthest token on which an alternative fails, or 0.                 *)
parseForError(s, kind, cursor) ==
  LET Result(c) == IF c.act = ERROR_ACTION THEN c.farthest ELSE 0
  IN  Result(ParseOn(s, kind, cursor, Nowhere))

(* The actions that lead to the error token.                               *)
parseUpToError(s, kind, cursor, error_token) ==
  Append(ParseOn(s, kind, cursor, error_token).log, ERROR_ACTION)
=============================================================================
