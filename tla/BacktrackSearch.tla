--------------------------- MODULE BacktrackSearch --------------------------
(***************************************************************************)
(* BacktrackingParser::backtrackParse: the search for a sequence of        *)
(* actions that parses the tokens.                                         *)
(*                                                                         *)
(* One action is one iteration of the driver loop, goto-reductions         *)
(* included.  The ConfigurationStack is used by its promise, the           *)
(* operators of PendingConfigurations.  Positions of the code's arrays     *)
(* start at 0: stateStack[stateStackTop] is Last(stack).                   *)
(***************************************************************************)
EXTENDS RuleActions

CONSTANTS
  Inputs,        \* the token kinds that may be parsed, EOF at the end
  Markers,       \* the marker kinds an entry point may have, 0 for none
  Monitored      \* whether a Monitor may cancel the parse

(* A stream has its EOF at least.                                          *)
ASSUME InputsAssumption == \A input \in Inputs : input \in Seq(Nat) /\ input # <<>>

VARIABLES
  stack,                    \* stateStack up to stateStackTop
  action,                   \* the log of actions
  act, curtok, error_token, \* locals of the loop
  initial_token, start_token,
  visited, pending,         \* the configuration stack
  cancelled,                \* what the Monitor answers
  pc, returned

stream == <<kinds, len>>
locals == <<initial_token, start_token>>
configurations == <<visited, pending>>

searchVars == <<stream, index, stack, action, act, curtok, error_token, locals,
                configurations, cancelled, pc, returned>>

-----------------------------------------------------------------------------
(* The first state of a search that starts on the initial token or, if     *)
(* there is none, on the next token of the stream.                         *)
FirstToken(initial, cursor) == IF initial > 0 THEN initial ELSE getNext(cursor)

CursorBehind(initial, cursor) == IF initial > 0 THEN cursor ELSE getNext(cursor)

(* parseEntry up to its call of backtrackParse.  A marker is an error      *)
(* token behind the end of the stream.                                     *)
SearchInit ==
  /\ \E input \in Inputs, marker \in Markers :
       /\ kinds = <<0>> \o input \o (IF marker = 0 THEN <<>> ELSE <<marker>>)
       /\ len = Len(input) + 1
       /\ initial_token = IF marker = 0 THEN 0 ELSE len
  /\ stack = <<START_STATE>>
  /\ action = <<>>
  /\ start_token = peek(0)
  /\ curtok = FirstToken(initial_token, 0)
  /\ index = CursorBehind(initial_token, 0)
  /\ act = tAction(START_STATE, getKind(curtok), index)
  /\ error_token = 0
  /\ visited = {} /\ pending = <<>>
  /\ cancelled = FALSE
  /\ pc = "search" /\ returned = 0

Searching == pc = "search" /\ ~cancelled

Push(s, token, cursor) ==
  /\ stack' = s
  /\ act' = tAction(Last(s), getKind(token), cursor)

Reduce ==
  /\ Searching /\ IsReduce(act)
  /\ action' = Append(action, act)
  /\ Push(AfterReduce(stack, act), curtok, index)
  /\ UNCHANGED <<stream, index, curtok, error_token, locals, configurations,
                 cancelled, pc, returned>>

NextToken ==
  /\ index' = getNext(index)
  /\ curtok' = getNext(index)

ShiftReduce ==
  /\ Searching /\ IsShiftReduce(act)
  /\ action' = Append(action, act)
  /\ NextToken
  /\ Push(AfterShiftReduce(stack, act), getNext(index), getNext(index))
  /\ UNCHANGED <<stream, error_token, locals, configurations, cancelled, pc, returned>>

Shift ==
  /\ Searching /\ IsShift(act)
  /\ action' = Append(action, act)
  /\ NextToken
  /\ Push(AfterShift(stack, act), getNext(index), getNext(index))
  /\ UNCHANGED <<stream, error_token, locals, configurations, cancelled, pc, returned>>

(* A conflict: its first alternative is tried and the others are kept,     *)
(* unless the configuration was met before.                                *)
Conflict ==
  /\ Searching /\ IsConflict(act)
  /\ IF <<stack, curtok>> \in visited
     THEN /\ act' = ERROR_ACTION
          /\ UNCHANGED configurations
     ELSE /\ visited' = visited \cup {<<stack, curtok>>}
          /\ pending' = Append(pending, Entry(stack, curtok, act + 1, Len(action)))
          /\ act' = baseAction[act]
  /\ UNCHANGED <<stream, index, stack, action, curtok, error_token, locals,
                 cancelled, pc, returned>>

Farther(e, t) == IF e > t THEN e ELSE t

(* Where the stream stands when a configuration is taken up again.         *)
CursorAt(token) ==
  getPrevious(IF token = initial_token THEN start_token ELSE getNext(token))

Backtrack ==
  /\ Searching /\ act = ERROR_ACTION /\ pending # <<>>
  /\ error_token' = Farther(error_token, curtok)
  /\ LET configuration == Last(pending)
     IN  /\ action' = SubSeq(action, 1, configuration.action_length)
         /\ act' = NextAct(pending)
         /\ curtok' = configuration.curtok
         /\ index' = CursorAt(configuration.curtok)
         /\ stack' = configuration.stack
  /\ pending' = AfterPop(pending)
  /\ UNCHANGED <<stream, locals, visited, cancelled, pc, returned>>

Return(result) ==
  /\ pc' = "returned"
  /\ returned' = result
  /\ UNCHANGED <<stream, index, stack, action, act, curtok, locals, configurations>>

(* Mutant: the first error ends the search.                                *)
FailAtOnce ==
  /\ Searching /\ act = ERROR_ACTION
  /\ error_token' = Farther(error_token, curtok)
  /\ Return(Farther(error_token, curtok))
  /\ UNCHANGED cancelled

Fail ==
  /\ Searching /\ act = ERROR_ACTION /\ pending = <<>>
  /\ error_token' = Farther(error_token, curtok)
  /\ Return(Farther(error_token, curtok))
  /\ UNCHANGED cancelled

Accept ==
  /\ Searching /\ act = ACCEPT_ACTION
  /\ Return(0)
  /\ UNCHANGED <<error_token, cancelled>>

(* The loop sees that the parse was cancelled.                             *)
Stop ==
  /\ pc = "search" /\ cancelled
  /\ Return(0)
  /\ UNCHANGED <<error_token, cancelled>>

(* The Monitor, asked once in every iteration, may cancel the parse at any *)
(* time; it never takes that back.                                         *)
Cancel ==
  /\ Monitored /\ pc = "search" /\ ~cancelled
  /\ cancelled' = TRUE
  /\ UNCHANGED <<stream, index, stack, action, act, curtok, error_token, locals,
                 configurations, pc, returned>>

Search == Reduce \/ ShiftReduce \/ Shift \/ Conflict \/ Backtrack \/ Fail \/ Accept \/ Stop
-----------------------------------------------------------------------------
(* The n-th token that is taken, counted from 0.                           *)
TokenTaken(n) ==
  LET i == IF initial_token = 0 THEN start_token + n
           ELSE IF n = 0 THEN initial_token ELSE start_token + n - 1
  IN  IF n > 0 /\ i >= len THEN len - 1 ELSE i

InSearch == pc \in {"search", "returned"}

Started == <<START_STATE>>

(* A log and the configuration it belongs to: it builds the stack from     *)
(* the start and has taken the tokens before t.                            *)
Builds(log, s, t) ==
  /\ StackAfter(Started, log) = s
  /\ TokenTaken(TokensTaken(log)) = t

(* The log always builds the stack, and the lookahead begins with the      *)
(* token behind curtok: backtrackParse undoes exactly the actions of the   *)
(* failed alternative, whatever the alternatives between did to the log    *)
(* and to the stream.  The same holds of every configuration that is still *)
(* to be taken up: its part of the log is still there, unchanged.          *)
LogBuildsStack ==
  InSearch =>
    /\ Builds(action, stack, curtok)
    /\ peek(index) = IF curtok = initial_token THEN start_token ELSE getNext(curtok)
    /\ \A i \in DOMAIN pending :
         /\ pending[i].action_length <= Len(action)
         /\ Builds(SubSeq(action, 1, pending[i].action_length),
                   pending[i].stack, pending[i].curtok)

-----------------------------------------------------------------------------
(* The reference: plain depth-first search, alternatives in the order of   *)
(* the table, without memory of configurations, undo or shared stacks.     *)

Plain(s, t, a, log) == [stack |-> s, token |-> t, act |-> a, log |-> log]

PlainStates == [stack : Seq(Int), token : Nat, act : Int, log : Seq(Int)]

PlainResult[c \in PlainStates] ==
  LET behind == IF c.token = initial_token THEN start_token ELSE getNext(c.token)
      after(t) == IF getNext(t) = t THEN t - 1 ELSE t
      token == IF IsReduce(c.act) THEN c.token ELSE behind
      cursor == IF token = initial_token THEN start_token - 1 ELSE after(token)
      s == AfterAction(c.stack, c.act)
      try[i \in Nat] ==
        IF baseAction[i] = 0 THEN [parsed |-> FALSE, log |-> <<>>, farthest |-> 0]
        ELSE LET first == PlainResult[[c EXCEPT !.act = baseAction[i]]]
                 rest == try[i + 1]
             IN  IF first.parsed THEN first
                 ELSE [rest EXCEPT !.farthest = Max({first.farthest, @})]
  IN  CASE c.act = ACCEPT_ACTION -> [parsed |-> TRUE, log |-> c.log, farthest |-> 0]
        [] c.act = ERROR_ACTION -> [parsed |-> FALSE, log |-> <<>>, farthest |-> c.token]
        [] IsConflict(c.act) -> try[c.act]
        [] OTHER -> PlainResult[Plain(s, token, tAction(Last(s), getKind(token), cursor),
                                      Append(c.log, c.act))]

Reference ==
  LET first == FirstToken(initial_token, 0)
  IN  PlainResult[Plain(Started, first,
                        tAction(START_STATE, getKind(first), CursorBehind(initial_token, 0)),
                        <<>>)]

(* backtrackParse succeeds exactly when there is a parse, and its log is   *)
(* the parse that plain search finds first; if there is none it returns    *)
(* the farthest token at which any of the alternatives failed.  To         *)
(* remember configurations and to give up a known one loses nothing and    *)
(* changes no choice.                                                      *)
FirstParseIsFound ==
  pc = "returned" /\ ~cancelled =>
    IF Reference.parsed THEN returned = 0 /\ action = Reference.log
    ELSE returned = Reference.farthest
=============================================================================
