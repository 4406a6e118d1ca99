------------------------- MODULE ErrorTokenRecovery -------------------------
(***************************************************************************)
(* What BacktrackingParser::parseEntry does with an error when error       *)
(* productions are wanted: the parse is repeated up to the error token     *)
(* with the places of every state noted (backtrackParseUpToError), the     *)
(* stack is searched for a state that can shift the error symbol           *)
(* (findRecoveryStateIndex), and the tokens for one to go on with          *)
(* (errorRepair, repairable).                                              *)
(*                                                                         *)
(* The loops share their variables with the search, and locationStack with *)
(* the replay.  actionStack keeps what was above the top of the stack too. *)
(***************************************************************************)
EXTENDS LogReplay

VARIABLES
  max_error_count,            \* how many repairs parseEntry allows
  actionStack,                \* sizes of the log, state by state
  recovery_token,             \* where errorRepair takes up the stream again
  temp_stack,                 \* the stack errorRepair starts from
  final_token                 \* repairable: behind this token it has won

places == <<locationStack, actionStack>>
repair == <<recovery_token, temp_stack, final_token>>

recoveryVars == <<max_error_count, tokens, places, repair>>

-----------------------------------------------------------------------------
(* parseEntry, when backtrackParse has returned an error token.  No repair *)
(* was made before: the first one that succeeds ends the parse, see Repair *)
(* below.                                                                  *)

TooManyErrors ==
  /\ pc = "returned" /\ returned # 0 /\ max_error_count = 0
  /\ pc' = "bad_parse"
  /\ UNCHANGED <<stream, index, stack, action, act, curtok, error_token, locals,
                 configurations, cancelled, returned, recoveryVars>>

(* The log, the stream and the stack go back to the start and              *)
(* backtrackParseUpToError begins.                                         *)
StartUpToError ==
  /\ pc = "returned" /\ returned # 0 /\ max_error_count # 0
  /\ action' = <<>>
  /\ stack' = <<START_STATE>>
  /\ LET cursor == getPrevious(start_token)
     IN  /\ index' = CursorBehind(initial_token, cursor)
         /\ curtok' = FirstToken(initial_token, cursor)
         /\ act' = tAction(START_STATE, getKind(curtok'), index')
  /\ tokens' = Append(tokens, curtok')
  /\ locationStack' = SetAt(locationStack, 1, Len(tokens'))
  /\ actionStack' = SetAt(actionStack, 1, 0)
  /\ visited' = {} /\ pending' = <<>>
  /\ pc' = "upto"
  /\ UNCHANGED <<stream, error_token, locals, cancelled, returned, max_error_count, repair>>

UpTo == pc = "upto" /\ ~cancelled

(* The state that was reached goes on the stack, and its place is noted.   *)
PushNoted(s, token, cursor) ==
  /\ Push(s, token, cursor)
  /\ locationStack' = SetAt(locationStack, Len(s), Len(tokens'))
  /\ actionStack' = SetAt(actionStack, Len(s), Len(action'))

UpToReduce ==
  /\ UpTo /\ IsReduce(act)
  /\ action' = Append(action, act)
  /\ tokens' = tokens
  /\ PushNoted(AfterReduce(stack, act), curtok, index)
  /\ UNCHANGED <<stream, index, curtok, error_token, locals, configurations,
                 cancelled, pc, returned, max_error_count, repair>>

UpToTake(s) ==
  /\ action' = Append(action, act)
  /\ NextToken
  /\ tokens' = Append(tokens, getNext(index))
  /\ PushNoted(s, getNext(index), getNext(index))
  /\ UNCHANGED <<stream, error_token, locals, configurations, cancelled, pc,
                 returned, max_error_count, repair>>

UpToShiftReduce == UpTo /\ IsShiftReduce(act) /\ UpToTake(AfterShiftReduce(stack, act))

UpToShift == UpTo /\ IsShift(act) /\ UpToTake(AfterShift(stack, act))

(* A configuration is known here by how many tokens were taken.            *)
UpToConflict ==
  /\ UpTo /\ IsConflict(act)
  /\ IF <<stack, Len(tokens)>> \in visited
     THEN /\ act' = ERROR_ACTION
          /\ UNCHANGED configurations
     ELSE /\ visited' = visited \cup {<<stack, Len(tokens)>>}
          /\ pending' = Append(pending, Entry(stack, Len(tokens), act + 1, Len(action)))
          /\ act' = baseAction[act]
  /\ UNCHANGED <<stream, index, stack, action, curtok, error_token, locals,
                 cancelled, pc, returned, recoveryVars>>

(* Mutant: the tokens of the failed alternative stay in the tuple.         *)
UpToBacktrackKeepsTokens ==
  /\ UpTo /\ act = ERROR_ACTION /\ curtok # returned /\ pending # <<>>
  /\ LET configuration == Last(pending)
     IN  /\ action' = SubSeq(action, 1, configuration.action_length)
         /\ act' = NextAct(pending)
         /\ tokens' = tokens
         /\ curtok' = tokens[configuration.curtok]
         /\ index' = CursorAt(curtok')
         /\ stack' = configuration.stack
         /\ locationStack' = SetAt(locationStack, Len(stack'), Len(tokens'))
         /\ actionStack' = SetAt(actionStack, Len(stack'), Len(action'))
  /\ pending' = AfterPop(pending)
  /\ UNCHANGED <<stream, error_token, locals, visited, cancelled, pc, returned,
                 max_error_count, repair>>

(* Only the place of the state on top is noted again.                      *)
UpToBacktrack ==
  /\ UpTo /\ act = ERROR_ACTION /\ curtok # returned /\ pending # <<>>
  /\ LET configuration == Last(pending)
     IN  /\ action' = SubSeq(action, 1, configuration.action_length)
         /\ act' = NextAct(pending)
         /\ tokens' = SubSeq(tokens, 1, configuration.curtok)
         /\ curtok' = Last(tokens')
         /\ index' = CursorAt(curtok')
         /\ stack' = configuration.stack
         /\ locationStack' = SetAt(locationStack, Len(stack'), Len(tokens'))
         /\ actionStack' = SetAt(actionStack, Len(stack'), Len(action'))
  /\ pending' = AfterPop(pending)
  /\ UNCHANGED <<stream, error_token, locals, visited, cancelled, pc, returned,
                 max_error_count, repair>>

UpToStops ==
  /\ pc = "upto"
  /\ \/ cancelled
     \/ act = ERROR_ACTION /\ (curtok = returned \/ pending = <<>>)
     \/ act = ACCEPT_ACTION
  /\ pc' = "find"
  /\ UNCHANGED <<stream, index, stack, action, act, curtok, error_token, locals,
                 configurations, cancelled, returned, recoveryVars>>

-----------------------------------------------------------------------------
recoverableState(state) == ERROR_SYMBOL \in asr[state]

(* The topmost state up to start that shifts the error symbol, less the    *)
(* null reductions behind it; 0 if there is none.                          *)
findRecoveryStateIndex(start) ==
  LET top == Max({0} \cup {i \in 1 .. start : recoverableState(stack[i])})
      before == {k \in 1 .. top - 1 : locationStack[k] # locationStack[top]}
  IN  IF top = 0 THEN 0 ELSE Max({0} \cup before) + 1

(* The rest of the stack is cut off, and errorRepair starts on its token.  *)
(* After a cancelled parse the place may be one of an abandoned            *)
(* alternative, behind the end of the tokens.                              *)
FindState(start) ==
  LET top == findRecoveryStateIndex(start)
      place == locationStack[top]
  IN  /\ \/ /\ top = 0
            /\ pc' = "bad_parse"
            /\ UNCHANGED <<stack, recovery_token, temp_stack>>
         \/ /\ top # 0 /\ place > Len(tokens)
            /\ pc' = "out_of_range"
            /\ UNCHANGED <<stack, recovery_token, temp_stack>>
         \/ /\ top # 0 /\ place <= Len(tokens)
            /\ pc' = "attempt"
            /\ stack' = SubSeq(stack, 1, top)
            /\ temp_stack' = stack'
            /\ recovery_token' = IF tokens[place] >= start_token THEN tokens[place] ELSE returned
      /\ UNCHANGED <<stream, index, action, act, curtok, error_token, locals, configurations,
                     cancelled, returned, max_error_count, tokens, places, final_token>>

FindFirstState == pc = "find" /\ FindState(Len(stack))

FindNextState == pc = "unrepairable" /\ FindState(Len(stack) - 1)

-----------------------------------------------------------------------------
(* errorRepair: repairable is asked for one token after the other, EOF the *)
(* last.                                                                   *)
Attempt ==
  /\ pc = "attempt"
  /\ index' = getPrevious(recovery_token)
  /\ curtok' = 0
  /\ final_token' = len
  /\ act' = tAction(Last(stack), ERROR_SYMBOL, index')
  /\ visited' = {} /\ pending' = <<>>
  /\ pc' = "repairable"
  /\ UNCHANGED <<stream, stack, action, error_token, locals, cancelled, returned,
                 max_error_count, tokens, places, recovery_token, temp_stack>>

Trying == pc = "repairable"

KindOf(token) == IF token = 0 THEN ERROR_SYMBOL ELSE getKind(token)

(* With a state behind the error in which the error symbol could be        *)
(* shifted again, two tokens more are enough, or one.                      *)
PushTried(s, token, cursor) ==
  /\ stack' = s
  /\ act' = tAction(Last(s), KindOf(token), cursor)
  /\ final_token' = IF token > returned /\ final_token = len /\ recoverableState(Last(s))
                    THEN IF max_error_count < 0 THEN token ELSE getNext(token)
                    ELSE final_token

TryReduce ==
  /\ Trying /\ IsReduce(act)
  /\ PushTried(AfterReduce(stack, act), curtok, index)
  /\ UNCHANGED <<stream, index, action, curtok, error_token, locals, configurations, cancelled,
                 pc, returned, max_error_count, tokens, places, recovery_token, temp_stack>>

TryTake(s) ==
  /\ NextToken
  /\ IF getNext(index) > final_token
     THEN /\ pc' = "repaired"
          /\ UNCHANGED <<stack, act, final_token>>
     ELSE /\ PushTried(s, getNext(index), getNext(index))
          /\ UNCHANGED pc
  /\ UNCHANGED <<stream, action, error_token, locals, configurations, cancelled, returned,
                 max_error_count, tokens, places, recovery_token, temp_stack>>

TryShiftReduce == Trying /\ IsShiftReduce(act) /\ TryTake(AfterShiftReduce(stack, act))

TryShift == Trying /\ IsShift(act) /\ TryTake(AfterShift(stack, act))

TryConflict ==
  /\ Trying /\ IsConflict(act)
  /\ IF <<stack, curtok>> \in visited
     THEN /\ act' = ERROR_ACTION
          /\ UNCHANGED configurations
     ELSE /\ visited' = visited \cup {<<stack, curtok>>}
          /\ pending' = Append(pending, Entry(stack, curtok, act + 1, 0))
          /\ act' = baseAction[act]
  /\ UNCHANGED <<stream, index, stack, action, curtok, error_token, locals,
                 cancelled, pc, returned, recoveryVars>>

(* final_token is not set back.                                            *)
TryBacktrack ==
  /\ Trying /\ act = ERROR_ACTION /\ pending # <<>>
  /\ LET configuration == Last(pending)
     IN  /\ stack' = configuration.stack
         /\ act' = NextAct(pending)
         /\ curtok' = configuration.curtok
         /\ index' = getPrevious(IF curtok' = 0 THEN getNext(getPrevious(recovery_token))
                                 ELSE getNext(curtok'))
  /\ pending' = AfterPop(pending)
  /\ UNCHANGED <<stream, action, error_token, locals, visited, cancelled, pc, returned,
                 recoveryVars>>

TryAccept ==
  /\ Trying /\ act = ACCEPT_ACTION
  /\ pc' = "repaired"
  /\ UNCHANGED <<stream, index, stack, action, act, curtok, error_token, locals,
                 configurations, cancelled, returned, recoveryVars>>

(* Mutant: the same token is tried again.                                  *)
TryFailsAgain ==
  /\ Trying /\ act = ERROR_ACTION /\ pending = <<>>
  /\ stack' = temp_stack
  /\ pc' = IF getKind(recovery_token) = EOFT_SYMBOL THEN "unrepairable" ELSE "attempt"
  /\ UNCHANGED <<stream, index, action, act, curtok, error_token, locals, configurations,
                 cancelled, returned, max_error_count, tokens, places, repair>>

(* The next token is tried, or there is none.                              *)
TryFails ==
  /\ Trying /\ act = ERROR_ACTION /\ pending = <<>>
  /\ stack' = temp_stack
  /\ IF getKind(recovery_token) = EOFT_SYMBOL
     THEN /\ pc' = "unrepairable"
          /\ UNCHANGED recovery_token
     ELSE /\ pc' = "attempt"
          /\ recovery_token' = getNext(recovery_token)
  /\ UNCHANGED <<stream, index, action, act, curtok, error_token, locals, configurations,
                 cancelled, returned, max_error_count, tokens, places, temp_stack, final_token>>

(* The repair was found: errorRepair cuts the tokens and the log back to   *)
(* the recovery state and reads the token at the end it has just cut off.  *)
(* Tuple::get throws std::out_of_range, and nobody catches it.  A reset to *)
(* more than there is fails an assertion of Tuple; a build without         *)
(* assertions goes on, and the end of the log, which nobody reads any      *)
(* more, is what memory holds.                                             *)
Repair ==
  /\ pc = "repaired"
  /\ stack' = temp_stack
  /\ index' = getPrevious(recovery_token)
  /\ LET place == locationStack[Len(temp_stack)]
         length == actionStack[Len(temp_stack)]
     IN  /\ tokens' = SubSeq(tokens, 1, place - 1)
         /\ action' = SubSeq(action, 1, Min({length, Len(action)}))
         /\ \/ pc' = IF place <= Len(tokens') THEN "error_token" ELSE "out_of_range"
            \/ length > Len(action) /\ pc' = "assertion"
  /\ UNCHANGED <<stream, act, curtok, error_token, locals, configurations, cancelled,
                 returned, max_error_count, places, repair>>

Recover ==
  \/ TooManyErrors \/ StartUpToError
  \/ UpToReduce \/ UpToShiftReduce \/ UpToShift \/ UpToConflict \/ UpToBacktrack \/ UpToStops
  \/ FindFirstState \/ FindNextState \/ Attempt
  \/ TryReduce \/ TryShiftReduce \/ TryShift \/ TryConflict \/ TryBacktrack
  \/ TryAccept \/ TryFails \/ Repair
=============================================================================
