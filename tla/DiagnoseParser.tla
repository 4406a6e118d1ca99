--------------------------- MODULE DiagnoseParser ---------------------------
(***************************************************************************)
(* DiagnoseParser::diagnoseEntry: an input that does not parse is parsed   *)
(* once more, error by error, and every error is reported with a repair.   *)
(*                                                                         *)
(* Turn by turn the log of the actions that lead to the next error is      *)
(* replayed.  The parser keeps the configurations before the last three    *)
(* tokens (prevStack, stateStack, nextStack), each in an array of which    *)
(* only the part that has changed is copied on.  At the error repairs are  *)
(* tried on all three; with the best one the parse goes on.                *)
(*                                                                         *)
(* Arrays start at 0 and are never too short (reallocateStacks).  The      *)
(* trials use tempStack too; what they leave in it is never read.          *)
(***************************************************************************)
EXTENDS Repairs

CONSTANTS
  Inputs,        \* the token kinds that may be parsed, EOF at the end
  Markers,       \* the kinds that may stand before them, 0 for none
  MaxErrors,     \* the limits a caller may give, 0 for none
  Timed,         \* whether a caller gives a limit for the time
  Monitored,     \* whether a Monitor may cancel
  Gotos,         \* state |-> the nonterminals that may be read in it
  STACK_SIZE     \* more than the stacks of these inputs take

VARIABLES
  maxErrors, cancelled,
  current_token, current_kind, error_token, errorCount,
  act, action, action_index,               \* the log, and how much of it is replayed
  stateStack, stateStackTop, tempStack, tempStackTop,
  prevStack, prevStackTop, nextStack, nextStackTop, locationStack,
  pos, prev_pos, next_pos,                 \* up to there two of the arrays agree
  scopes,        \* what the last scope trial has left
  first,         \* the buffer: its position 1
  candidate,     \* what the parse is to go on with
  reports,       \* the errors reported: code and range of tokens
  pc,
  turns          \* history: what every turn so far began with, and its error

stream == <<kinds, len, lines>>
limits == <<maxErrors, cancelled>>
log == <<act, action, action_index>>
stateConfiguration == <<stateStack, stateStackTop>>
prevConfiguration == <<prevStack, prevStackTop, prev_pos>>
nextConfiguration == <<nextStack, nextStackTop, next_pos>>
simulation == <<tempStack, tempStackTop>>
recovering == <<scopes, first, candidate, reports>>

vars == <<stream, index, limits, current_token, current_kind, error_token, errorCount, log,
          stateConfiguration, simulation, prevConfiguration, nextConfiguration, locationStack,
          pos, recovering, pc, turns>>

-----------------------------------------------------------------------------
(* The part of an array that is a stack.                                   *)
StackOf(array, top) == [n \in 1 .. top + 1 |-> array[n - 1]]

StateStack == StackOf(stateStack, stateStackTop)
NextStack == StackOf(nextStack, nextStackTop)
PrevStack == StackOf(prevStack, prevStackTop)

Copied(to, from, interval) ==
  [i \in DOMAIN to |-> IF i \in interval THEN from[i] ELSE to[i]]

(* Where goto-reductions end that begin with a rule: below which position, *)
(* and in which state of the array.                                        *)
GotoAfter(top0, rule0, array) ==
  LET reach[top \in Int, rule \in Nat] ==
        LET t == top - (rhs(rule) - 1)
            a == ntAction(array[t], lhs(rule))
        IN  IF IsReduce(a) THEN reach[t, a] ELSE [top |-> t, state |-> a]
  IN  reach[top0, rule0]

Lesser(a, b) == IF a < b THEN a ELSE b

Array(value) == [i \in 0 .. STACK_SIZE - 1 |-> value]

NoCandidate == [symbol |-> 0, location |-> 0]

(* The token stream after reset(), and the first symbol.                   *)
FirstToken == getNext(0)

Init ==
  /\ \E input \in Inputs : kinds = <<0>> \o input /\ len = Len(kinds)
  /\ lines \in {{}, {len - 1}}
  /\ \E marker_kind \in Markers :
       /\ current_kind = IF marker_kind = 0 THEN getKind(FirstToken) ELSE marker_kind
       /\ index = IF marker_kind = 0 THEN FirstToken ELSE 0
  /\ current_token = FirstToken
  /\ maxErrors \in MaxErrors /\ cancelled = FALSE
  /\ error_token = 0 /\ errorCount = 0
  /\ act = ERROR_ACTION /\ action = <<>> /\ action_index = 0
  /\ stateStack = Array(START_STATE) /\ stateStackTop = 0
  /\ tempStack = Array(START_STATE) /\ tempStackTop = 0
  /\ prevStack = Array(0) /\ prevStackTop = -1 /\ prev_pos = -1
  /\ nextStack = Array(0) /\ nextStackTop = -1 /\ next_pos = -1
  /\ locationStack = Array(FirstToken)
  /\ pos = 0
  /\ scopes = <<>> /\ first = 0 /\ candidate = NoCandidate /\ reports = <<>>
  /\ pc = "parse"
  /\ turns = <<>>

-----------------------------------------------------------------------------
(* From the stack and current_kind on: is there an error, and which        *)
(* actions lead to it?                                                     *)
ParseToError(s, kind, cursor) ==
  /\ error_token' = parseForError(s, kind, cursor)
  /\ IF error_token' = 0
     THEN /\ pc' = "done"
          /\ index' = cursor
          /\ UNCHANGED action
     ELSE /\ index' = CursorBefore(peek(cursor))
          /\ action' = parseUpToError(s, kind, index', error_token')
          /\ pc' = "turn"

(* The entry: the stream is at the first token, the stack at its start.    *)
Diagnose ==
  /\ pc = "parse"
  /\ error_token' = parseForError(<<START_STATE>>, current_kind, index)
  /\ IF error_token' = 0
     THEN /\ pc' = "done"
          /\ UNCHANGED action
     ELSE /\ action' = parseUpToError(<<START_STATE>>, current_kind, index, error_token')
          /\ pc' = "turn"
  /\ UNCHANGED <<stream, index, limits, current_token, current_kind, errorCount, act,
                 action_index, stateConfiguration, simulation, prevConfiguration,
                 nextConfiguration, locationStack, pos, recovering, turns>>

(* The stacks are synchronized.                                            *)
Turn ==
  /\ pc = "turn"
  /\ prev_pos' = -1 /\ prevStackTop' = -1
  /\ next_pos' = -1 /\ nextStackTop' = -1
  /\ pos' = stateStackTop
  /\ tempStackTop' = stateStackTop - 1
  /\ tempStack' = Copied(tempStack, stateStack, 0 .. stateStackTop)
  /\ act' = action[1] /\ action_index' = 1
  /\ turns' = Append(turns, [error |-> error_token, stack |-> StateStack,
                               token |-> current_token, kind |-> current_kind])
  /\ pc' = "current"
  /\ UNCHANGED <<stream, index, limits, current_token, current_kind, error_token, errorCount,
                 action, stateConfiguration, prevStack, nextStack, locationStack, recovering>>

NextLogged ==
  /\ act' = action[action_index + 1]
  /\ action_index' = action_index + 1
  /\ UNCHANGED action

(* A reduction on the first token of the turn.                             *)
ReduceOnCurrent ==
  /\ pc = "current" /\ IsReduce(act)
  /\ LET r == GotoAfter(tempStackTop, act, tempStack)
     IN  /\ pos' = Lesser(pos, r.top)
         /\ tempStackTop' = r.top
         /\ tempStack' = [tempStack EXCEPT ![r.top + 1] = r.state]
  /\ NextLogged
  /\ UNCHANGED <<stream, index, limits, current_token, current_kind, error_token, errorCount,
                 stateConfiguration, prevConfiguration, nextConfiguration, locationStack,
                 recovering, pc, turns>>

(* What was pushed on the token begins where it does.                      *)
Relocated(top) ==
  [k \in DOMAIN locationStack |->
     IF k \in pos + 1 .. top THEN locationStack[stateStackTop] ELSE locationStack[k]]

(* The token is taken: what the reductions on it have pushed becomes part  *)
(* of nextStack, and the next token is read.                               *)
Take ==
  /\ pc \in {"current", "advanced"} /\ (IsShift(act) \/ IsShiftReduce(act)) /\ ~cancelled
  /\ LET top == tempStackTop + 1
         nextStack1 == Copied(nextStack, tempStack, next_pos + 1 .. top)
         r == IF IsShift(act) THEN [top |-> top, state |-> act]
              ELSE GotoAfter(top, act - ERROR_ACTION, nextStack1)
     IN  /\ locationStack' = Relocated(top)
         /\ pos' = IF IsShift(act) THEN pos ELSE Lesser(pos, r.top)
         /\ tempStackTop' = r.top
         /\ nextStackTop' = r.top + 1 /\ next_pos' = r.top + 1
         /\ nextStack' = [nextStack1 EXCEPT ![r.top + 1] = r.state]
  /\ index' = getNext(index)
  /\ current_token' = index'
  /\ current_kind' = getKind(index')
  /\ NextLogged
  /\ pc' = "next"
  /\ UNCHANGED <<stream, limits, error_token, errorCount, stateConfiguration, tempStack,
                 prevConfiguration, recovering, turns>>

(* A reduction on the token after it, which changes neither stateStack nor *)
(* nextStack.                                                              *)
ReduceOnNext ==
  /\ pc = "next" /\ IsReduce(act)
  /\ LET r == GotoAfter(tempStackTop, act, Copied(tempStack, nextStack, 0 .. next_pos))
     IN  /\ next_pos' = Lesser(next_pos, r.top)
         /\ tempStackTop' = r.top
         /\ tempStack' = [tempStack EXCEPT ![r.top + 1] = r.state]
  /\ NextLogged
  /\ UNCHANGED <<stream, index, limits, current_token, current_kind, error_token, errorCount,
                 stateConfiguration, prevConfiguration, nextStack, nextStackTop, locationStack,
                 pos, recovering, pc, turns>>

(* Mutant: prevStack keeps what has changed below pos.                     *)
AdvanceFromPos ==
  /\ pc = "next" /\ ~IsReduce(act) /\ act # ERROR_ACTION
  /\ prevStackTop' = stateStackTop
  /\ prevStack' = Copied(prevStack, stateStack, pos + 1 .. stateStackTop)
  /\ prev_pos' = pos
  /\ stateStackTop' = nextStackTop
  /\ stateStack' = Copied(stateStack, nextStack, pos + 1 .. nextStackTop)
  /\ locationStack' = [locationStack EXCEPT ![nextStackTop] = current_token]
  /\ pos' = next_pos
  /\ pc' = "advanced"
  /\ UNCHANGED <<stream, index, limits, current_token, current_kind, error_token, errorCount,
                 log, simulation, nextConfiguration, recovering, turns>>

(* No error: the configurations move on by one token.                      *)
Advance ==
  /\ pc = "next" /\ ~IsReduce(act) /\ act # ERROR_ACTION
  /\ prevStackTop' = stateStackTop
  /\ prevStack' = Copied(prevStack, stateStack, prev_pos + 1 .. stateStackTop)
  /\ prev_pos' = pos
  /\ stateStackTop' = nextStackTop
  /\ stateStack' = Copied(stateStack, nextStack, pos + 1 .. nextStackTop)
  /\ locationStack' = [locationStack EXCEPT ![nextStackTop] = current_token]
  /\ pos' = next_pos
  /\ pc' = "advanced"
  /\ UNCHANGED <<stream, index, limits, current_token, current_kind, error_token, errorCount,
                 log, simulation, nextConfiguration, recovering, turns>>

-----------------------------------------------------------------------------
unchangedInRecovery ==
  <<stream, limits, current_token, current_kind, error_token, errorCount, log, simulation,
    prevConfiguration, nextConfiguration, pos, turns>>

(* An error: the first one is always repaired, the others until there are  *)
(* too many, or the time is over.                                          *)
AtError == pc \in {"current", "next"} /\ act = ERROR_ACTION

OverLimit(n, late) == n > 1 /\ (late \/ (maxErrors > 0 /\ n > maxErrors))

Detect ==
  /\ AtError
  /\ errorCount' = errorCount + 1
  /\ \E late \in BOOLEAN :
       /\ late => Timed
       /\ pc' = IF OverLimit(errorCount', late) THEN "done" ELSE "primary"
  /\ UNCHANGED <<stream, index, limits, current_token, current_kind, error_token, log,
                 stateConfiguration, simulation, prevConfiguration, nextConfiguration,
                 locationStack, pos, recovering, turns>>

Report(code, left, right) == [code |-> code, left |-> left, right |-> right]

(* The scopes that a trial has found, reported with the token before them. *)
ScopeReports(found, locations, right) ==
  [n \in DOMAIN found |-> Report(SCOPE_CODE, locations[found[n].position], right)]

ScopeSymbol == NT_OFFSET + Scopes[Last(scopes').index].lhs

(* The best primary repair on the three configurations, and the scopes of  *)
(* the last trial.                                                         *)
PrimaryRepair(f) ==
  LET Chosen(a, b) == IF b.distance > a.distance \/ b.misspell > a.misspell THEN b ELSE a
      Best(x, y) == [y EXCEPT !.repair = Chosen(x.repair, @)]
      On(stack, position, x, base) ==
        Best(x, checkPrimaryDistance(f, [base EXCEPT !.position = position], stack, x.scopes))
      OnNext(x) == IF nextStackTop >= 0 THEN On(NextStack, 3, x, NoRepair) ELSE x
      OnState(x) == On(StateStack, 2, x, x.repair)
      OnPrev(x) == IF prevStackTop >= 0 THEN On(PrevStack, 1, x, NoRepair) ELSE x
  IN  OnPrev(OnState(OnNext([repair |-> NoRepair, scopes |-> scopes])))

(* Mutant: tokens before the error are counted, too.                       *)
Unadjusted(r) == r.distance

(* How many tokens the repair makes readable: those that it changes are    *)
(* not counted.                                                            *)
Adjusted(r) ==
  r.distance - r.position + 1
    - (IF r.code \in {INVALID_CODE, DELETION_CODE, SUBSTITUTION_CODE, MERGE_CODE} THEN 1 ELSE 0)

(* primaryDiagnosis: the repair r, which makes d tokens readable, is       *)
(* reported and applied to a configuration.                                *)
primaryDiagnosis(r, d, top, locations) ==
  LET buffer(k) == Buffered(first', k)
      prevtok == buffer(r.position - 1)
      token == buffer(r.position)
      GoOn(symbol, location, cursor) ==
        /\ candidate' = [symbol |-> symbol, location |-> location]
        /\ index' = CursorBefore(cursor)
  IN  /\ reports' = reports \o
           CASE r.code = INSERTION_CODE ->
                  LET tok == IF getKind(prevtok) = 0 THEN token ELSE prevtok
                  IN  <<Report(r.code, tok, tok)>>
             [] r.code = MERGE_CODE -> <<Report(r.code, token, getNext(token))>>
             [] r.code = SCOPE_CODE -> ScopeReports(scopes', locations, prevtok)
             [] OTHER -> <<Report(r.code, token, token)>>
      /\ stateStackTop' = IF r.code = SCOPE_CODE THEN Last(scopes').position ELSE top
      /\ CASE r.code = SCOPE_CODE ->
                GoOn(IF getKind(token) # EOFT_SYMBOL \/ d >= MAX_DISTANCE THEN ScopeSymbol ELSE 0,
                     token, token)
           [] r.code = INSERTION_CODE -> GoOn(r.symbol, token, token)
           [] r.code \in {INVALID_CODE, SUBSTITUTION_CODE} ->
                GoOn(r.symbol, token, buffer(r.position + 1))
           [] r.code = MERGE_CODE -> GoOn(r.symbol, token, buffer(r.position + 2))
           [] OTHER -> LET next == buffer(r.position + 1)
                       IN  GoOn(getKind(next), next, buffer(r.position + 2))

(* The configuration that is repaired becomes that of the parser: position *)
(* 1 is prevStack's, 3 nextStack's.  Mutant: its states are not copied.    *)
OldStack(position) == stateStack

RepairedStack(position) ==
  IF position = 1 THEN Copied(stateStack, prevStack, 0 .. prevStackTop)
  ELSE IF position = 3 THEN Copied(stateStack, nextStack, 0 .. nextStackTop)
  ELSE stateStack

RepairedTop(position) ==
  IF position = 1 THEN prevStackTop ELSE IF position = 3 THEN nextStackTop ELSE stateStackTop

Checked(best) ==
  IF nextStackTop >= 0 THEN secondaryCheck(first', NextStack, 3, best.repair, best.scopes)
  ELSE secondaryCheck(first', StateStack, 2, best.repair, best.scopes)

PrimaryPhase ==
  /\ pc = "primary"
  /\ first' = IF nextStackTop >= 0 THEN current_token - 2 ELSE current_token - 1
  /\ \E best \in {PrimaryRepair(first')} : \E check \in {Checked(best)} :
     LET r == best.repair
         d == Adjusted(r)
     IN  /\ scopes' = check.scopes
         /\ IF check.better \/ d < MIN_DISTANCE
            THEN /\ candidate' = NoCandidate
                 /\ UNCHANGED <<index, stateConfiguration, locationStack, reports>>
            ELSE /\ stateStack' = RepairedStack(r.position)
                 /\ locationStack' =
                      IF r.position = 3 THEN [locationStack EXCEPT ![nextStackTop] = Buffered(first', 3)]
                      ELSE locationStack
                 /\ primaryDiagnosis(r, d, RepairedTop(r.position), locationStack')
  /\ pc' = IF candidate'.symbol # 0 THEN "recovered" ELSE "secondary"
  /\ UNCHANGED unchangedInRecovery

-----------------------------------------------------------------------------
(* misplacementRecovery and secondaryRecovery on nextStack, if there is    *)
(* one, and then on stateStack; the error token is at position 2 for the   *)
(* former and at 3 for the latter.                                         *)
SecondaryRepair(error) ==
  LET last == LastIndex(error - 2)
      next_last == LastIndex(error - 1)
      Further(r) == IF r.recoveryOnNextStack THEN [r EXCEPT !.distance = @ + 1] ELSE r
      available == nextStackTop >= 0
      top == IF available THEN nextStackTop ELSE stateStackTop
      locations == [locationStack EXCEPT ![top] = error]
      OnNext(recovery(_, _, _, _, _, _), r) ==
        IF available
        THEN Further(recovery(error - 1, r, NextStack, locations, next_last, TRUE))
        ELSE r
      OnState(recovery(_, _, _, _, _, _), r) ==
        recovery(error - 2, r, StateStack, locationStack, last, FALSE)
      Best(misplaced, r) ==
        IF /\ misplaced.distance > MIN_DISTANCE
           /\ \/ misplaced.numDeletions <= r.numDeletions
              \/ Gained(misplaced) >= Gained(r)
        THEN [misplaced EXCEPT !.code = MISPLACED_CODE, !.position = 2, !.symbol = r.symbol]
        ELSE r
  IN  Best(OnState(misplacementRecovery, OnNext(misplacementRecovery, NoSecondary(top))),
           OnState(secondaryRecovery,
                   OnNext(secondaryRecovery, NoSecondary(top + MAX_DISTANCE + 1))))

(* Scopes, when one, two, ... tokens are dropped, as far as r drops them.  *)
(* A trial is judged by the best of those before it.                       *)
ScopeInstead(f, s, r0, last_index) ==
  LET Judged(x, position, trial) ==
        LET j == IF trial.distance >= MAX_DISTANCE THEN last_index ELSE trial.distance
            k == position - 1
            y == [x EXCEPT !.distance = trial.distance, !.scoped = TRUE, !.scopes = trial.scopes]
        IN  IF trial.distance - k > MIN_DISTANCE /\ j - k > Gained(x.repair)
            THEN [y EXCEPT !.repair.code = SCOPE_CODE, !.repair.position = position]
            ELSE y
      Try(x, position) ==
        IF x.repair.code = SCOPE_CODE THEN x
        ELSE Judged(x, position,
                    scopeTrial(f, position, s,
                       [NoTrial EXCEPT !.distance = x.distance, !.scoped = x.scoped,
                                       !.scopes = x.scopes],
                       CursorBefore(Buffered(f, position))))
      none == [repair |-> r0, scopes |-> scopes, distance |-> 0, scoped |-> FALSE]
  IN  IF r0.code \in {SECONDARY_CODE, DELETION_CODE}
      THEN FoldLeft(Try, none, [n \in 1 .. r0.position - 1 |-> n + 1])
      ELSE none

(* The report of what was cut off the stack and of the buffer.  Mutant:    *)
(* without the buffer.                                                     *)
DroppedFromStack(r, locations, f) ==
  Report(r.code, locations[r.stackPosition], Buffered(f, 1))

Dropped(r, locations, f) ==
  Report(r.code, locations[r.stackPosition], Buffered(f, r.position - 1))

(* secondaryPhase.  A repair cuts the stack down to stackPosition and      *)
(* drops the tokens of the buffer up to its position.  The stackPosition   *)
(* of a scope is the top of the stack, so that the deletion which the code *)
(* would report first is never due.                                        *)
SecondaryPhase(error) ==
  \E repair \in {SecondaryRepair(error)} :
  LET onNext == repair.recoveryOnNextStack
      f == IF onNext THEN error - 1 ELSE error - 2
  IN
  \E x \in {ScopeInstead(f, IF onNext THEN NextStack ELSE StateStack, repair, LastIndex(f))} :
  LET r == x.repair
      buffer(k) == Buffered(f, k)
      GoOn(symbol, location, cursor) ==
        /\ candidate' = [symbol |-> symbol, location |-> location]
        /\ index' = CursorBefore(cursor)
      token == buffer(r.position)
  IN  /\ first' = f
      /\ scopes' = x.scopes
      /\ IF r.code = 0
         THEN /\ candidate' = NoCandidate
              /\ UNCHANGED <<index, stateConfiguration, locationStack, reports>>
         ELSE /\ stateStack' = IF onNext THEN Copied(stateStack, nextStack, 0 .. nextStackTop)
                               ELSE stateStack
              /\ locationStack' = IF onNext THEN [locationStack EXCEPT ![nextStackTop] = error]
                                  ELSE locationStack
              /\ IF r.code = SCOPE_CODE
                 THEN /\ stateStackTop' = Last(scopes').position
                      /\ reports' = reports \o ScopeReports(scopes', locationStack', buffer(1))
                      /\ GoOn(ScopeSymbol, token, token)
                 ELSE /\ stateStackTop' = r.stackPosition
                      /\ reports' = Append(reports, Dropped(r, locationStack', f))
                      /\ IF r.code = SECONDARY_CODE THEN GoOn(r.symbol, token, token)
                         ELSE GoOn(getKind(token), token, getNext(token))

FirstSecondary ==
  /\ pc = "secondary"
  /\ SecondaryPhase(current_token)
  /\ pc' = IF candidate'.symbol # 0 THEN "recovered" ELSE "panic"
  /\ UNCHANGED unchangedInRecovery

(* Panic mode: the error is taken to be farther on, until the end of the   *)
(* stream comes into the buffer.                                           *)
Panicking ==
  /\ getKind(current_token) # EOFT_SYMBOL
  /\ getKind(Buffered(first, MAX_DISTANCE + 1)) # EOFT_SYMBOL

Panic ==
  /\ pc = "panic" /\ Panicking
  /\ SecondaryPhase(Buffered(first, MAX_DISTANCE - MIN_DISTANCE + 2))
  /\ pc' = IF candidate'.symbol # 0 THEN "recovered" ELSE "panic"
  /\ UNCHANGED unchangedInRecovery

(* At the end scopes are looked for further and further down the stack.    *)
ScopeAtTheEnd ==
  LET Try(t, n) ==
        IF t.distance > 0 THEN t
        ELSE scopeTrial(first, MAX_DISTANCE + 1, SubSeq(StateStack, 1, n), t,
                        CursorBefore(Buffered(first, MAX_DISTANCE + 1)))
  IN  FoldLeft(Try, [NoTrial EXCEPT !.scopes = scopes],
               Reverse([n \in 1 .. stateStackTop + 1 |-> n]))

(* The rest of the input is given up.  The innermost scope is not reported.*)
GiveUp ==
  /\ pc = "panic" /\ ~Panicking
  /\ \E trial \in {ScopeAtTheEnd} :
     LET outer == IF trial.scopes = <<>> THEN <<>> ELSE Front(trial.scopes)
         rest == Buffered(first, Max({k \in 0 .. MAX_DISTANCE + 1 :
                   getKind(Buffered(first, k)) # EOFT_SYMBOL}))
         prevtok == getPrevious(current_token)
     IN  /\ scopes' = trial.scopes
         /\ reports' = Append(reports \o ScopeReports(outer, locationStack, Buffered(first, 1)),
              IF getKind(current_token) = EOFT_SYMBOL
              THEN Report(EOF_CODE, prevtok, prevtok)
              ELSE Report(DELETION_CODE, current_token, rest))
         /\ candidate' = NoCandidate
  /\ pc' = "done"
  /\ UNCHANGED <<index, stateConfiguration, locationStack, first, unchangedInRecovery>>

-----------------------------------------------------------------------------
(* The parse goes on with the candidate.  Where the state on top knows no  *)
(* such nonterminal, the goto is whatever the table holds at that place.   *)

Recovered ==
  /\ pc = "recovered" /\ ~cancelled
  /\ LET symbol == candidate.symbol
         s == StateStack
     IN  IF symbol > NT_OFFSET
         THEN LET nonterminal == symbol - NT_OFFSET
                  reached == Goto(s, nonterminal)
              IN  IF nonterminal \notin Gotos[Last(s)]
                  THEN /\ pc' = "lost"
                       /\ UNCHANGED <<stateConfiguration, locationStack, current_token,
                                      current_kind, error_token, action, index>>
                  ELSE /\ stateStackTop' = Len(reached) - 1
                       /\ stateStack' = [stateStack EXCEPT ![Len(reached) - 1] = Last(reached)]
                       /\ current_token' = getNext(index)
                       /\ current_kind' = getKind(current_token')
                       /\ locationStack' = [locationStack EXCEPT ![stateStackTop'] = current_token']
                       /\ ParseToError(reached, current_kind', getNext(index))
         ELSE /\ current_kind' = symbol
              /\ locationStack' = [locationStack EXCEPT ![stateStackTop] = candidate.location]
              /\ ParseToError(s, symbol, index)
              /\ UNCHANGED <<stateConfiguration, current_token>>
  /\ UNCHANGED <<stream, limits, errorCount, act, action_index, simulation, prevConfiguration,
                 nextConfiguration, pos, recovering, turns>>

(* The Monitor says stop: before a token is taken, and behind a repair.    *)
Stop ==
  /\ cancelled
  /\ \/ pc \in {"current", "advanced"} /\ (IsShift(act) \/ IsShiftReduce(act))
     \/ pc = "recovered"
  /\ pc' = "done"
  /\ UNCHANGED <<stream, index, limits, current_token, current_kind, error_token, errorCount, log,
                 stateConfiguration, simulation, prevConfiguration, nextConfiguration,
                 locationStack, pos, recovering, turns>>

Cancel ==
  /\ Monitored /\ ~cancelled /\ pc # "done"
  /\ cancelled' = TRUE
  /\ UNCHANGED <<stream, index, maxErrors, current_token, current_kind, error_token, errorCount,
                 log, stateConfiguration, simulation, prevConfiguration, nextConfiguration,
                 locationStack, pos, recovering, pc, turns>>

Step ==
  \/ Diagnose \/ Turn \/ ReduceOnCurrent \/ Take \/ ReduceOnNext \/ Advance
  \/ Detect \/ PrimaryPhase \/ FirstSecondary \/ Panic \/ GiveUp \/ Recovered \/ Stop

Next == Step \/ Cancel

(* diagnoseEntry runs on by itself; nobody has to cancel it.               *)
Spec == Init /\ [][Next]_vars /\ WF_vars(Step)
-----------------------------------------------------------------------------
(* What the log says: the stack when n of the turn's tokens have been      *)
(* taken.                                                                  *)
LogUpTo(n) ==
  SubSeq(action, 1, Max({0} \cup {i \in 1 .. Len(action) - 1 :
                                   ~IsReduce(action[i]) /\ TokensTaken(SubSeq(action, 1, i)) = n}))

After(n) == StackAfter(Last(turns).stack, LogUpTo(n))

TakenInTurn == TokensTaken(Front(action))

(* At the error nextStack, stateStack and prevStack are the stacks before  *)
(* any action on the error token, on the token before it and on the one    *)
(* before that, although only the parts that differ are ever copied and    *)
(* the three arrays are overwritten in turn.                               *)
ThreeConfigurations ==
  AtError =>
    LET n == TakenInTurn
    IN  IF n = 0 THEN StateStack = Last(turns).stack /\ nextStackTop = -1 /\ prevStackTop = -1
        ELSE /\ NextStack = After(n) /\ StateStack = After(n - 1)
             /\ IF n = 1 THEN prevStackTop = -1 ELSE PrevStack = After(n - 2)

(* Wherever the parse goes on, be it behind repairs, every state of the    *)
(* stack has been entered from the one below it, by its own symbol.  Only  *)
(* behind a scope that is closed it need not be, see                       *)
(* RecoversOnAConfiguration.                                               *)
Follows(below, state) ==
  LET symbol == inSymbol[state]
  IN  IF symbol > NT_OFFSET
      THEN symbol - NT_OFFSET \in Gotos[below] /\ ntAction(below, symbol - NT_OFFSET) = state
      ELSE tableAction(below, symbol) = state

StackIsViable ==
  pc \in {"turn", "recovered"} /\ (\A n \in DOMAIN reports : reports[n].code # SCOPE_CODE) =>
    \A k \in 1 .. stateStackTop : Follows(stateStack[k - 1], stateStack[k])

(* No token is lost in silence: those that a repair passes over, and those *)
(* that are given up at the end, lie in the range of a report.  There are  *)
(* two exceptions.  Panic mode reports what its last repair drops, and     *)
(* nothing of what lies between the error and that.  And the scopes that   *)
(* the secondary phase closes behind dropped tokens are reported up to the *)
(* token before the first of those.                                        *)
Reported(token) == \E n \in DOMAIN reports : token \in reports[n].left .. reports[n].right

Panicked == first > current_token - 1

EverySkippedTokenIsReported ==
  /\ pc = "recovered" /\ ~Panicked /\ Last(reports).code # SCOPE_CODE =>
       \A token \in current_token .. index : token = candidate.location \/ Reported(token)
  /\ pc = "done" /\ error_token # 0 /\ candidate.symbol = 0 /\ ~cancelled =>
       \A token \in current_token .. len - 2 : Reported(token)

(* Every repair gets past the error: the next one lies farther on.  Where  *)
(* a scope was closed it may lie where it did, and at the end of the input *)
(* there is nowhere to go; but no turn begins as an earlier one began, or  *)
(* diagnoseEntry would go round in circles.  And what panic mode takes for *)
(* the error lies farther on each time.                                    *)
EveryErrorIsFartherOn ==
  [][/\ pc = "turn" /\ pc' = "current" =>
          \A n \in DOMAIN turns :
            LET turn == Last(turns')
            IN  \/ turn.error > turns[n].error
                \/ /\ turn # turns[n]
                   /\ \/ getKind(turn.token) = EOFT_SYMBOL
                      \/ turn.error = turns[n].error /\ Last(reports).code = SCOPE_CODE
     /\ pc = "panic" /\ pc' = "panic" => first' > first \/ cancelled' # cancelled]_vars

(* diagnose.h, errorRecovery: stateStackTop points to the state on which   *)
(* to recover.  That state, and those below it, are what is left of one of *)
(* the three configurations.                                               *)
RecoversOnAConfiguration ==
  pc = "recovered" =>
    \E taken \in Max({0, TakenInTurn - 2}) .. TakenInTurn : IsPrefix(StateStack, After(taken))
=============================================================================
