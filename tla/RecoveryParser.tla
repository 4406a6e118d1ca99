--------------------------- MODULE RecoveryParser ---------------------------
(***************************************************************************)
(* BacktrackingParser::fuzzyParseEntry with its RecoveryParser: a parse    *)
(* that repairs errors by completing constructs.                           *)
(*                                                                         *)
(* recover goes round by round: fixError parses again up to the error      *)
(* token and asks scopeTrial, in every configuration that reaches it,      *)
(* for scopes to complete; acceptRecovery completes them, with error       *)
(* tokens for the symbols that are missing; then backtrackParse goes on    *)
(* from the error token.  One action is one turn of a loop.                *)
(*                                                                         *)
(* `returned' is the error token that backtrackParse has returned.  The    *)
(* location and action stacks of the RecoveryParser, which it writes and   *)
(* nobody reads, are left out.                                             *)
(***************************************************************************)
EXTENDS LogReplay, ScopeTrial

CONSTANT Grammar    \* rule |-> the symbols on its right-hand side

VARIABLES
  restart_token,      \* where a round starts, 0 before the first
  stateStack,         \* the recovery parser's stack when a round starts
  old_action_size,    \* the length of its log
  first_stream_token, \* what follows restart_token
  scope_repair,       \* the trial
  k,                  \* the scope that is completed next
  nextStack,          \* what completeScope has left
  errors              \* the scopes that were completed, and before which tokens

recovery == <<restart_token, stateStack, old_action_size, first_stream_token, scope_repair,
              k, nextStack, errors>>

vars == <<searchVars, tokens, locationStack, replay, recovery>>

RecoveryInit ==
  /\ SearchInit
  /\ ReplayInit
  /\ restart_token = 0 /\ stateStack = <<START_STATE>>
  /\ old_action_size = 0 /\ first_stream_token = 0
  /\ scope_repair = NoTrial /\ k = 0 /\ nextStack = <<UNSET>> /\ errors = <<>>

-----------------------------------------------------------------------------
(* Mutant: what the failed attempts logged stays in the log.               *)
WholeLog(size) == action

(* The log of an earlier time.                                             *)
LogUpTo(size) == SubSeq(action, 1, size)

(* fixError begins: the log is cut back and the error is looked at again.  *)
FixError(start, cursor, s, size) ==
  /\ restart_token' = start
  /\ stateStack' = s /\ stack' = s
  /\ old_action_size' = size
  /\ action' = LogUpTo(size)
  /\ first_stream_token' = peek(cursor)
  /\ index' = cursor
  /\ curtok' = start
  /\ act' = tAction(Last(s), getKind(start), cursor)
  /\ visited' = {} /\ pending' = <<>>
  /\ scope_repair' = [scope_repair EXCEPT !.distance = 0]
  /\ pc' = "fix"
  /\ UNCHANGED <<stream, error_token, locals, cancelled, returned, locationStack, replay,
                 k, nextStack, errors>>

(* recover starts at the beginning.                                        *)
StartRecovery ==
  /\ pc = "returned" /\ returned # 0 /\ restart_token = 0
  /\ tokens' = <<getPrevious(peek(0))>>
  /\ FixError(FirstToken(initial_token, 0), CursorBehind(initial_token, 0), <<START_STATE>>, 0)

(* The search met another error.                                           *)
NextRound ==
  /\ pc = "returned" /\ returned # 0 /\ restart_token # 0
  /\ FixError(restart_token, CursorBefore(getNext(restart_token)), stateStack, old_action_size)
  /\ UNCHANGED tokens

Fixing == pc = "fix" /\ ~cancelled

unchangedInFix == <<stream, error_token, locals, cancelled, returned, locationStack, replay,
                    restart_token, stateStack, old_action_size, first_stream_token, k,
                    nextStack, errors>>

FixReduce ==
  /\ Fixing /\ IsReduce(act)
  /\ action' = Append(action, act)
  /\ Push(AfterReduce(stack, act), curtok, index)
  /\ UNCHANGED <<unchangedInFix, index, curtok, configurations, pc, tokens, scope_repair>>

(* Mutant: the error token is recorded with them.                          *)
UpToError ==
  <<restart_token>> \o [n \in 1 .. returned - first_stream_token + 1 |-> first_stream_token + n - 1]

(* The tokens from the start of the round to the error token.              *)
BeforeError ==
  <<restart_token>> \o [n \in 1 .. returned - first_stream_token |-> first_stream_token + n - 1]

(* On the error token a trial is made.  It moves the cursor.               *)
TryScopes(s, trial) ==
  /\ scope_repair' = trial
  /\ index' = trial.cursor
  /\ stack' = s
  /\ IF FarEnough(trial.distance, 1)
     THEN /\ tokens' = tokens \o BeforeError
          /\ pc' = "accept"
          /\ UNCHANGED act
     ELSE /\ act' = tAction(Last(s), getKind(returned), trial.cursor)
          /\ UNCHANGED <<tokens, pc>>

FixTake(s) ==
  /\ action' = Append(action, act)
  /\ curtok' = getNext(index)
  /\ IF curtok' = returned
     THEN TryScopes(s, scopeTrial(returned, 1, s, scope_repair, getNext(index)))
     ELSE /\ index' = getNext(index)
          /\ Push(s, curtok', index')
          /\ UNCHANGED <<tokens, pc, scope_repair>>
  /\ UNCHANGED <<unchangedInFix, configurations>>

FixShiftReduce == Fixing /\ IsShiftReduce(act) /\ FixTake(AfterShiftReduce(stack, act))

FixShift == Fixing /\ IsShift(act) /\ FixTake(AfterShift(stack, act))

FixConflict ==
  /\ Fixing /\ IsConflict(act)
  /\ IF <<stack, curtok>> \in visited
     THEN /\ act' = ERROR_ACTION
          /\ UNCHANGED configurations
     ELSE /\ visited' = visited \cup {<<stack, curtok>>}
          /\ pending' = Append(pending, Entry(stack, curtok, act + 1, Len(action)))
          /\ act' = baseAction[act]
  /\ UNCHANGED <<unchangedInFix, index, stack, action, curtok, pc, tokens, scope_repair>>

(* Mutant: the configuration is looked at and not popped.                  *)
FixBacktrackPeeks ==
  /\ Fixing /\ act = ERROR_ACTION /\ pending # <<>>
  /\ LET configuration == Last(pending)
     IN  /\ action' = SubSeq(action, 1, configuration.action_length)
         /\ act' = NextAct(pending)
         /\ curtok' = configuration.curtok
         /\ index' = CursorBefore(getNext(configuration.curtok))
         /\ stack' = configuration.stack
  /\ UNCHANGED <<unchangedInFix, pending, visited, pc, tokens, scope_repair>>

FixBacktrack ==
  /\ Fixing /\ act = ERROR_ACTION /\ pending # <<>>
  /\ LET configuration == Last(pending)
     IN  /\ action' = SubSeq(action, 1, configuration.action_length)
         /\ act' = NextAct(pending)
         /\ curtok' = configuration.curtok
         /\ index' = CursorBefore(getNext(configuration.curtok))
         /\ stack' = configuration.stack
  /\ pending' = AfterPop(pending)
  /\ UNCHANGED <<unchangedInFix, visited, pc, tokens, scope_repair>>

(* No scope helps: recover throws.  (That fixError accepts "is not         *)
(* supposed to happen"; no action would be enabled here.)                  *)
FixFails ==
  /\ Fixing /\ act = ERROR_ACTION /\ pending = <<>>
  /\ pc' = "bad_parse"
  /\ UNCHANGED <<unchangedInFix, index, stack, action, act, curtok, configurations, tokens,
                 scope_repair>>

-----------------------------------------------------------------------------
(* A goto-reduce is logged as a shift-reduce.                              *)
LoggedGoto(goto) == IF IsReduce(goto) THEN goto + ERROR_ACTION ELSE goto

Completed(complete, s, log) == [complete |-> complete, stack |-> s, log |-> log]

(* completeScope: the symbols of the suffix are pushed on s and logged.  A *)
(* conflict has no more than one action that is not a reduction; those are *)
(* passed over.                                                            *)
completeScope[s \in Seq(Int), log \in Seq(Int), suffix \in Seq(Nat), cursor \in Nat] ==
  IF suffix = <<>> THEN Completed(TRUE, s, log)
  ELSE
    LET kind == Head(suffix)
        top == Last(s)
        nonterminal == kind - NT_OFFSET
        goto == ntAction(top, nonterminal)
        onto(s1, a) == completeScope[s1, Append(log, a), Tail(suffix), cursor]
        take(s1, a) == IF IsShift(a) THEN onto(AfterShift(s1, a), a)
                       ELSE Completed(TRUE, AfterShiftReduce(s1, a), Append(log, a))
        a == tAction(top, kind, cursor)
        alternative(c, b) ==
          IF c.complete THEN c
          ELSE IF IsReduce(b) THEN Completed(FALSE, c.stack, Append(log, b))
          ELSE take(c.stack, b)
    IN  IF kind > NT_OFFSET
        THEN IF baseCheck[top + nonterminal] # nonterminal THEN Completed(FALSE, s, log)
             ELSE onto(Goto(s, nonterminal), LoggedGoto(goto))
        ELSE CASE IsShift(a) \/ IsShiftReduce(a) -> take(s, a)
               [] IsConflict(a) ->
                    FoldLeft(alternative, Completed(FALSE, s, log), ActionsOf(a))
               [] OTHER -> Completed(FALSE, s, log)

(* Mutant: every error token is made for the first symbol.                 *)
FirstMissing(scope) == [n \in DOMAIN scope.suffix |-> Head(scope.suffix)]

(* What the error tokens are made for.                                     *)
Missing(scope) == scope.suffix

(* One turn of acceptRecovery: scope k is completed by the first action on *)
(* its lookahead that can be.  Its missing symbols become error tokens.    *)
CompleteScope ==
  /\ pc = "accept"
  /\ LET i == scope_repair.scopes[k + 1].index
         scope == Scopes[i]
         before == CursorBefore(returned)
         alternative(c, a) ==
           LET r == ReducedFrom(stack, action, a, scope.la, before)
           IN  IF c.complete THEN c
               ELSE IF r.act = ERROR_ACTION THEN [c EXCEPT !.log = r.log]
               ELSE completeScope[r.stack, r.log, scope.suffix, before]
         c == FoldLeft(alternative, Completed(FALSE, nextStack, action),
                       ActionsOf(tAction(Last(stack), scope.la, index)))
         last == Len(scope_repair.scopes)
     IN  /\ nextStack' = c.stack /\ stack' = c.stack
         /\ action' = c.log
         /\ index' = before
         /\ IF c.complete
            THEN /\ kinds' = kinds \o Missing(scope)
                 /\ tokens' = tokens \o [n \in DOMAIN scope.suffix |-> Len(kinds) + n - 1]
                 /\ errors' = Append(errors, [scope |-> i, behind |-> getPrevious(returned)])
            ELSE UNCHANGED <<kinds, tokens, errors>>
         /\ k' = IF k + 1 = last THEN 0 ELSE k + 1
         /\ pc' = IF k + 1 = last THEN "fixed" ELSE "accept"
  /\ UNCHANGED <<len, act, curtok, error_token, locals, configurations, cancelled, returned,
                 locationStack, replay, restart_token, stateStack, old_action_size,
                 first_stream_token, scope_repair>>

(* backtrackParse goes on from the error token.                            *)
Resume ==
  /\ pc = "fixed" /\ ~cancelled
  /\ restart_token' = returned
  /\ stateStack' = stack
  /\ old_action_size' = Len(action)
  /\ index' = getNext(CursorBefore(returned))
  /\ curtok' = index'
  /\ act' = tAction(Last(stack), getKind(curtok'), index')
  /\ error_token' = 0
  /\ visited' = {} /\ pending' = <<>>
  /\ pc' = "search" /\ returned' = 0
  /\ UNCHANGED <<stream, stack, action, locals, cancelled, tokens, locationStack, replay,
                 first_stream_token, scope_repair, k, nextStack, errors>>

(* The parse is over, or cancelled: what is left of the stream is added.   *)
first_token == start_token

start_of_rest == IF restart_token = 0 THEN first_token ELSE restart_token

StartReplay ==
  /\ \/ pc = "returned" /\ returned = 0
     \/ pc \in {"fix", "fixed"} /\ cancelled
  /\ BeginReplay((IF initial_token # 0 /\ start_of_rest = first_token
                  THEN <<initial_token>> ELSE <<>>)
                 \o Remaining(start_of_rest))
  /\ UNCHANGED recovery

Recover ==
  \/ StartRecovery \/ NextRound
  \/ FixReduce \/ FixShiftReduce \/ FixShift \/ FixConflict \/ FixBacktrack \/ FixFails
  \/ CompleteScope \/ Resume

RecoveryStep ==
  \/ Search /\ UNCHANGED <<tokens, locationStack, replay, recovery>>
  \/ Recover
  \/ StartReplay
  \/ Replay /\ UNCHANGED recovery

CancelLater ==
  /\ Monitored /\ pc \in {"fix", "accept", "fixed", "replay"} /\ ~cancelled
  /\ cancelled' = TRUE
  /\ UNCHANGED <<stream, index, stack, action, act, curtok, error_token, locals,
                 configurations, pc, returned, tokens, locationStack, replay, recovery>>

RecoveryNext ==
  \/ RecoveryStep
  \/ Cancel /\ UNCHANGED <<tokens, locationStack, replay, recovery>>
  \/ CancelLater

(* fuzzyParseEntry runs on by itself; nobody has to cancel it.             *)
RecoverySpec == RecoveryInit /\ [][RecoveryNext]_vars /\ WF_vars(RecoveryStep)
-----------------------------------------------------------------------------
(* The log accounts for every token in the tuple (behind its dummy), and   *)
(* in a search or in fixError also for those from the start of the round.  *)
TokensAreLogged ==
  CASE pc \in {"search", "fix"} ->
         IF restart_token \in {0, initial_token}
         THEN TokenTaken(TokensTaken(action)) = curtok
         ELSE TokensTaken(action) = Len(tokens) - 1 + curtok - restart_token
    [] pc \in {"accept", "fixed"} /\ ~cancelled -> TokensTaken(action) = Len(tokens) - 1
    [] OTHER -> TRUE

(* The log builds the stack and has taken the tokens that were recorded,   *)
(* at every step of a search, a trial and a repair: what fixError parses   *)
(* again, what completeScope adds for missing symbols and what the search  *)
(* appends behind that fit together, whatever was undone between.          *)
RepairedLogBuildsStack ==
  /\ pc \in {"search", "returned", "fix", "accept", "fixed"} =>
       StackAfter(Started, action) = stack
  /\ TokensAreLogged

(* A repair only inserts: in the end every token of the stream is in the   *)
(* tuple, once and in order, and what was added are the symbols of the     *)
(* scopes that were reported.  Half of TreeIsADerivation.                  *)
FromStream == SelectSeq(tokens, LAMBDA t : t < len)

Inserted == SelectSeq(tokens, LAMBDA t : t >= len /\ t # initial_token)

RepairOnlyInserts ==
  pc = "parsed" /\ ~cancelled =>
    /\ FromStream = [n \in 1 .. len |-> n - 1]
    /\ [n \in DOMAIN Inserted |-> getKind(Inserted[n])]
         = FoldLeft(LAMBDA symbols, e : symbols \o Scopes[e.scope].suffix, <<>>, errors)

(* What a part of a node stands for: a token, or a rule's left side.       *)
SymbolOf(node, i) ==
  LET part == node.derived[i].node
  IN  IF part = 0 THEN getKind(node.parts[i].first)
      ELSE IF nodes[part].rule = 0 THEN getKind(nodes[part].first)
      ELSE NT_OFFSET + lhs(nodes[part].rule)

(* The tree that comes back is a derivation of the repaired input: every   *)
(* node has the symbols of its rule, those that were inserted included,    *)
(* and the input was only added to, with the symbols of reported scopes.   *)
TreeIsADerivation ==
  /\ RepairOnlyInserts
  /\ \A n \in DOMAIN nodes :
       nodes[n].rule # 0 =>
         [i \in DOMAIN nodes[n].derived |-> SymbolOf(nodes[n], i)] = Grammar[nodes[n].rule]

(* A repair is as good as its trial said, and every round gets farther:    *)
(* the next error is MIN_DISTANCE tokens on, or at the end.                *)
RestartsAsFarAsTried ==
  pc = "returned" /\ ~cancelled /\ restart_token # 0 /\ returned # 0 =>
    returned >= Buffered(restart_token, MIN_DISTANCE)

(* fuzzyParseEntry comes to an end: with a tree, or because no scope       *)
(* repairs the error or a node for a missing nonterminal cannot be made.   *)
RecoveryEnds == <>(pc \in {"parsed", "bad_parse"})
=============================================================================
