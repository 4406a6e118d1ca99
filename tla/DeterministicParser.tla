------------------------- MODULE DeterministicParser ------------------------
(***************************************************************************)
(* DeterministicParser: one parser object used in its two ways.            *)
(*                                                                         *)
(* parseEntry parses the token stream and runs the rule actions at once.   *)
(* Incrementally, the client resets the parser, offers the next tokens to  *)
(* parse(sym, index) again and again - in a circular buffer - and at last  *)
(* calls parseActions, which runs the rule actions from the log.           *)
(*                                                                         *)
(* parse(sym, index) simulates the reductions in locationStack, above the  *)
(* part of stateStack that they leave alone, so that an error changes      *)
(* nothing.  Both drivers keep the tokens of the stack in the same array.  *)
(*                                                                         *)
(* Positions of the code's arrays start at 0, here at 1.  The client is    *)
(* external: it uses each way once, and when a token is refused it may     *)
(* correct the stream and go on.                                           *)
(***************************************************************************)
EXTENDS RuleActions, TableAutomaton

CONSTANTS
  LRAutomaton,   \* the automaton that the table is made of
  Inputs,        \* the token kinds of a stream, EOF at the end
  Markers,       \* the marker kinds an entry point may have, 0 for none
  MAX_LA,        \* how many tokens of lookahead the table needs
  Corrections,   \* the kinds the client may replace a token by
  MaxEdits,      \* bound: how often the client corrects the stream
  Monitored      \* whether a Monitor may cancel

(* The table is made of an automaton that knows the tokens.  A marker,     *)
(* which opens an entry point, is shifted there.  No state takes EOF: on   *)
(* EOF the table reduces, accepts or refuses, at once.                     *)
ASSUME TableAssumption ==
  /\ IsAutomaton(LRAutomaton)
  /\ MAX_LA \in Nat \ {0} /\ LRAutomaton.lookahead <= MAX_LA
  /\ LRAutomaton.terminals \subseteq Int
  /\ Inputs \subseteq Seq(LRAutomaton.terminals) \ {<<>>}
  /\ \A input \in Inputs : input[Len(input)] = EOFT_SYMBOL
  /\ Corrections \cup {ERROR_SYMBOL} \subseteq LRAutomaton.terminals
  /\ \A m \in Markers \ {0} : IsShift(tableAction(START_STATE, m))
  /\ Markers \ {0} \subseteq LRAutomaton.terminals
  /\ \A s \in StatesOf(LRAutomaton) :
       LET act == tableAction(s, EOFT_SYMBOL)
       IN  ~IsShift(act) /\ ~IsShiftReduce(act) /\ ~(act > LA_STATE_OFFSET)

VARIABLES
  markerKind,
  stack,                  \* stateStack up to stateStackTop
  locationStack,          \* by position: tokens, or states of the simulation
  parseStack,             \* the node of each symbol, by position
  action,                 \* the log; empty when there is none
  currentAction, lastToken, curtok, current_kind,   \* locals of the drivers
  i,                      \* parseActions: how much of the log is replayed
  sym, at,                \* parse: the buffer of tokens and where it starts
  save_action_length, pos, location_top,            \* parse: its locals
  offered, edits,         \* the client: token on offer, corrections made
  outcome,                \* what each way of parsing came to
  cancelled, pc,
  nodes, derived,         \* history: what the rule actions built
  before,                 \* history: stack and log when parse was called
  stale                   \* history: the log does not describe the stack

stream == <<kinds, len>>
driver == <<index, lastToken, curtok, current_kind, i>>
built == <<parseStack, nodes, derived>>
simulation == <<sym, at, save_action_length, pos, location_top>>
client == <<offered, edits, outcome>>
history == <<before, stale>>

vars == <<stream, driver, built, simulation, client, history, markerKind, stack,
          locationStack, action, currentAction, cancelled, pc>>

NoOutcome == [is |-> "none"]

Init ==
  /\ \E input \in Inputs : kinds = <<0>> \o input /\ len = Len(input) + 1
  /\ markerKind \in Markers
  /\ index = 0 /\ lastToken = 0 /\ curtok = 0 /\ current_kind = 0 /\ i = 0
  /\ stack = <<>> /\ locationStack = <<>> /\ parseStack = <<>>
  /\ action = <<>> /\ currentAction = START_STATE
  /\ sym = <<>> /\ at = 0 /\ save_action_length = 0 /\ pos = 0 /\ location_top = 0
  /\ offered = 0 /\ edits = 0
  /\ outcome = [batch |-> NoOutcome, incremental |-> NoOutcome]
  /\ cancelled = FALSE /\ pc = "idle"
  /\ nodes = <<>> /\ derived = <<>>
  /\ before = <<<<>>, <<>>>> /\ stale = FALSE

Started == <<START_STATE>>

Finish(way, is, token, built_nodes, root) ==
  /\ outcome' = [outcome EXCEPT ![way] =
                   [is |-> is, token |-> token, nodes |-> built_nodes, root |-> root]]
  /\ pc' = "idle"

-----------------------------------------------------------------------------
(* What both drivers do.  locationStack is an array: what is above the top *)
(* of the stack stays there.                                               *)

(* The stream, the stack and the first token of a pass.  What an earlier   *)
(* pass has left in parseStack counts as not written.                      *)
StartPass ==
  /\ index' = IF markerKind = 0 THEN getNext(0) ELSE 0
  /\ lastToken' = getPrevious(peek(0))
  /\ curtok' = IF markerKind = 0 THEN getNext(0) ELSE getPrevious(peek(0))
  /\ stack' = <<>>
  /\ currentAction' = START_STATE
  /\ parseStack' = <<>> /\ nodes' = <<>> /\ derived' = <<>>

(* The state goes on the stack and its place into locationStack.           *)
Pushed == Append(stack, currentAction)

Places == Written(locationStack, Len(Pushed), curtok)

TakeToken ==
  /\ lastToken' = curtok
  /\ index' = getNext(index)
  /\ curtok' = getNext(index)

(* What a rule action asks for: the first token of the symbol at position  *)
(* p, and the last token before it.                                        *)
getToken(p) == locationStack'[p]

(* Mutant: the first token of the next symbol instead.                     *)
getTokenBehind(p) == locationStack'[p]

getLastToken(p) == getPrevious(locationStack'[p])

processReductions(top, rule, symbols) ==
  LET first == [p \in 1 .. Len(Pushed) |-> getToken(p)]
      prior == [p \in 1 .. Len(Pushed) |-> getLastToken(p)]
      run == process_reductions(Pushed, Shown(top, WithRoom(parseStack, Pushed), nodes, symbols),
                                rule, Answering(first, prior, lastToken', Covered(symbols)), {})
  IN  /\ stack' = SubSeq(Pushed, 1, run.shown.top)
      /\ currentAction' = run.act
      /\ parseStack' = run.shown.parseStack
      /\ nodes' = run.shown.nodes
      /\ derived' = run.shown.derived

TurnReduce(act) ==
  /\ IsReduce(act)
  /\ locationStack' = Places
  /\ UNCHANGED <<index, lastToken, curtok>>
  /\ processReductions(Len(Pushed) - 1, act, derived)

TurnShiftReduce(act) ==
  /\ IsShiftReduce(act)
  /\ locationStack' = Places
  /\ TakeToken
  /\ processReductions(Len(Pushed), act - ERROR_ACTION, Append(derived, Terminal))

TurnShift(act) ==
  /\ IsShift(act)
  /\ locationStack' = Places
  /\ TakeToken
  /\ stack' = Pushed
  /\ currentAction' = act
  /\ parseStack' = WithRoom(parseStack, Pushed)
  /\ derived' = Append(derived, Terminal)
  /\ UNCHANGED nodes

Turn(act) == TurnReduce(act) \/ TurnShiftReduce(act) \/ TurnShift(act)

(* The tree is at the bottom of parseStack, or behind the marker.          *)
Root ==
  LET p == IF markerKind = 0 THEN 1 ELSE 2
  IN  IF p \in DOMAIN parseStack THEN parseStack[p] ELSE UNSET

-----------------------------------------------------------------------------
(* parse(): the client calls parseEntry.                                   *)

Call ==
  /\ pc = "idle" /\ outcome.batch = NoOutcome
  /\ StartPass
  /\ current_kind' = IF markerKind = 0 THEN getKind(getNext(0)) ELSE markerKind
  /\ pc' = "batch"
  /\ UNCHANGED <<stream, i, simulation, client, history, markerKind, locationStack,
                 action, cancelled>>

(* One turn of ProcessTerminals.                                           *)
InBatch == pc = "batch" /\ ~cancelled

NextAction == tAction(currentAction, current_kind, index)

BatchTurn ==
  /\ InBatch /\ Turn(NextAction)
  /\ current_kind' = IF IsReduce(NextAction) THEN current_kind ELSE getKind(curtok')
  /\ UNCHANGED <<stream, i, simulation, client, history, markerKind, action, cancelled, pc>>

BatchEnd(is, root) ==
  /\ stack' = Pushed
  /\ locationStack' = Places
  /\ Finish("batch", is, curtok, nodes, root)
  /\ UNCHANGED <<stream, driver, built, simulation, offered, edits, history, markerKind,
                 action, currentAction, cancelled>>

BatchAccept == InBatch /\ NextAction = ACCEPT_ACTION /\ BatchEnd("tree", Root)

(* BadParseException(curtok).                                              *)
BatchError == InBatch /\ NextAction = ERROR_ACTION /\ BatchEnd("bad", UNSET)

(* Both drivers see that the parse was cancelled and return nullptr.       *)
Stop ==
  /\ cancelled
  /\ \/ pc = "batch" /\ Finish("batch", "cancelled", curtok, nodes, NULLPTR)
     \/ /\ pc = "replay" /\ i < Len(action)
        /\ Finish("incremental", "cancelled", curtok, nodes, NULLPTR)
  /\ UNCHANGED <<stream, driver, built, simulation, offered, edits, history, markerKind,
                 stack, locationStack, action, currentAction, cancelled>>

-----------------------------------------------------------------------------
(* The incremental parser.                                                 *)

(* Mutant: the lookahead begins with the token itself.                     *)
tActionAtItself(state, s, j) ==
  LET next[k \in 0 .. MAX_LA - 1] ==
        IF k = 0 THEN tableAction(state, s[j + 1])
        ELSE IF next[k - 1] > LA_STATE_OFFSET
        THEN lookAhead(next[k - 1] - LA_STATE_OFFSET, s[((j + k - 1) % Len(s)) + 1])
        ELSE next[k - 1]
  IN  next[MAX_LA - 1]

(* The action on the tokens of buffer s from position j on; it goes round. *)
(* next[k] is what is known with k tokens of lookahead.                    *)
tActionIn(state, s, j) ==
  LET next[k \in 0 .. MAX_LA - 1] ==
        IF k = 0 THEN tableAction(state, s[j + 1])
        ELSE IF next[k - 1] > LA_STATE_OFFSET
        THEN lookAhead(next[k - 1] - LA_STATE_OFFSET, s[((j + k) % Len(s)) + 1])
        ELSE next[k - 1]
  IN  next[MAX_LA - 1]

(* parse(s, j) begins on stack st with the log: the first action.          *)
StartParse(st, log, s, j) ==
  /\ sym' = s /\ at' = j
  /\ save_action_length' = Len(log)
  /\ pos' = Len(st)
  /\ location_top' = Len(st) - 1
  /\ currentAction' = tActionIn(Last(st), s, j)
  /\ before' = <<st, log>>
  /\ pc' = "simulate"

(* resetParserEntry, which parses the marker, if there is one, by itself.  *)
resetParserEntry ==
  /\ stack' = Started
  /\ action' = <<>>
  /\ stale' = FALSE
  /\ IF markerKind = 0
     THEN /\ pc' = "ready"
          /\ UNCHANGED <<simulation, currentAction, before>>
     ELSE StartParse(Started, <<>>, <<markerKind>>, 0)

Reset ==
  /\ pc = "idle" /\ outcome.incremental = NoOutcome
  /\ resetParserEntry
  /\ offered' = IF markerKind = 0 THEN 1 ELSE 0
  /\ UNCHANGED <<stream, driver, built, edits, outcome, markerKind, locationStack, cancelled>>

(* The client offers the next MAX_LA tokens: token n is at n - 1 modulo    *)
(* MAX_LA, and EOF is repeated.                                            *)
Buffer ==
  [k \in 1 .. MAX_LA |->
     LET n == offered + ((k - offered) % MAX_LA) IN getKind(IF n < len THEN n ELSE len - 1)]

Offer ==
  /\ pc = "ready"
  /\ StartParse(stack, action, Buffer, (offered - 1) % MAX_LA)
  /\ UNCHANGED <<stream, driver, built, client, markerKind, stack, locationStack, action,
                 stale, cancelled>>

(* The state that is at position p once the simulated reductions count.    *)
StateAt(p) == IF p > pos THEN locationStack[p] ELSE stack[p]

(* The stack with the simulated reductions, and what another one leaves of *)
(* it.                                                                     *)
Simulated == [p \in 1 .. location_top + 1 |-> StateAt(p)]

Simulate == Reached(Simulated, location_top, currentAction)

Smaller(a, b) == IF a < b THEN a ELSE b

(* Mutant: pos is not lowered to what the reductions leave alone.          *)
SimulateKeepsPos ==
  /\ pc = "simulate" /\ IsReduce(currentAction)
  /\ action' = Append(action, currentAction)
  /\ LET r == Simulate
     IN  /\ location_top' = r[1]
         /\ pos' = pos
         /\ locationStack' = Written(locationStack, r[1] + 1, r[2])
         /\ currentAction' = tActionIn(r[2], sym, at)
  /\ UNCHANGED <<stream, driver, built, client, history, markerKind, stack, sym, at,
                 save_action_length, cancelled, pc>>

(* One turn of the loop over reductions.                                   *)
SimulateReduce ==
  /\ pc = "simulate" /\ IsReduce(currentAction)
  /\ action' = Append(action, currentAction)
  /\ LET r == Simulate
     IN  /\ location_top' = r[1]
         /\ pos' = Smaller(pos, r[1])
         /\ locationStack' = Written(locationStack, r[1] + 1, r[2])
         /\ currentAction' = tActionIn(r[2], sym, at)
  /\ UNCHANGED <<stream, driver, built, client, history, markerKind, stack, sym, at,
                 save_action_length, cancelled, pc>>

(* The token is taken: the simulation becomes the stack.  The client goes  *)
(* on to the next token.                                                   *)
Advance ==
  /\ pc = "simulate"
  /\ IsShift(currentAction) \/ IsShiftReduce(currentAction)
  /\ action' = Append(action, currentAction)
  /\ stack' = AfterAction(Simulated, currentAction)
  /\ currentAction' = Last(stack')
  /\ offered' = offered + 1
  /\ pc' = "ready"
  /\ UNCHANGED <<stream, driver, built, simulation, edits, outcome, history, markerKind,
                 locationStack, cancelled>>

Accepted ==
  /\ pc = "simulate" /\ currentAction = ACCEPT_ACTION
  /\ pc' = "accepted"
  /\ UNCHANGED <<stream, driver, built, simulation, client, history, markerKind, stack,
                 locationStack, action, currentAction, cancelled>>

(* Mutant: the logged reductions stay.                                     *)
RefusedKeepsLog ==
  /\ pc = "simulate" /\ currentAction = ERROR_ACTION
  /\ action' = action
  /\ pc' = "refused"
  /\ UNCHANGED <<stream, driver, built, simulation, client, history, markerKind, stack,
                 locationStack, currentAction, cancelled>>

Refused ==
  /\ pc = "simulate" /\ currentAction = ERROR_ACTION
  /\ action' = SubSeq(action, 1, save_action_length)
  /\ pc' = "refused"
  /\ UNCHANGED <<stream, driver, built, simulation, client, history, markerKind, stack,
                 locationStack, currentAction, cancelled>>

-----------------------------------------------------------------------------
(* A token was refused: the client gives up, or it corrects the stream and *)
(* offers again.                                                           *)

GiveUp ==
  /\ pc = "refused"
  /\ Finish("incremental", IF stale THEN "stale" ELSE "bad", offered, <<>>, UNSET)
  /\ UNCHANGED <<stream, driver, built, simulation, offered, edits, history, markerKind,
                 stack, locationStack, action, currentAction, cancelled>>

MayEdit ==
  /\ pc = "refused" /\ outcome.batch = NoOutcome /\ edits < MaxEdits
  /\ offered \in 1 .. len - 1
  /\ edits' = edits + 1

NewStream(s) == kinds' = s /\ len' = Len(s)

(* A token that was refused, or looked ahead at, is replaced or removed.   *)
Correct ==
  /\ MayEdit
  /\ \E n \in {offered, offered + 1} :
       /\ n < len - 1
       /\ \/ \E kind \in Corrections : NewStream([kinds EXCEPT ![n + 1] = kind])
          \/ NewStream(SubSeq(kinds, 1, n) \o SubSeq(kinds, n + 2, Len(kinds)))
  /\ pc' = "ready"
  /\ UNCHANGED <<driver, built, simulation, offered, outcome, history, markerKind, stack,
                 locationStack, action, currentAction, cancelled>>

recoverableState(state) == ERROR_SYMBOL \in asr[state]

(* The positions of the stack that errorReset looks at and would stop at.  *)
RecoveryPoints ==
  {p \in (IF markerKind = 0 THEN 1 ELSE 2) .. Len(stack) : recoverableState(stack[p])}

(* errorReset pops the stack to a state that knows the error symbol, and   *)
(* the client puts an error token before the token that was refused.       *)
ErrorResetPops ==
  /\ MayEdit /\ RecoveryPoints # {}
  /\ stack' = SubSeq(stack, 1, Max(RecoveryPoints))
  /\ stale' = (stale \/ stack' # stack)
  /\ NewStream(SubSeq(kinds, 1, offered) \o <<ERROR_SYMBOL>>
                 \o SubSeq(kinds, offered + 1, Len(kinds)))
  /\ pc' = "ready"
  /\ UNCHANGED <<driver, built, simulation, offered, outcome, before, markerKind,
                 locationStack, action, currentAction, cancelled>>

(* There is none: errorReset resets the parser, and what was parsed so far *)
(* is dropped from the stream.                                             *)
ErrorResetRestarts ==
  /\ MayEdit /\ RecoveryPoints = {}
  /\ resetParserEntry
  /\ NewStream(<<0>> \o SubSeq(kinds, offered + 1, Len(kinds)))
  /\ offered' = IF markerKind = 0 THEN 1 ELSE 0
  /\ UNCHANGED <<driver, built, outcome, markerKind, locationStack, cancelled>>

-----------------------------------------------------------------------------
(* parseActions, once the tokens were accepted.                            *)

StartReplay ==
  /\ pc = "accepted" /\ ~stale
  /\ StartPass
  /\ i' = 0
  /\ pc' = "replay"
  /\ UNCHANGED <<stream, current_kind, simulation, client, history, markerKind,
                 locationStack, action, cancelled>>

(* The log is of no use: the client stops here.                            *)
Leave ==
  /\ pc = "accepted" /\ stale
  /\ Finish("incremental", "stale", offered, <<>>, UNSET)
  /\ UNCHANGED <<stream, driver, built, simulation, offered, edits, history, markerKind,
                 stack, locationStack, action, currentAction, cancelled>>

ReplayTurn ==
  /\ pc = "replay" /\ i < Len(action) /\ ~cancelled
  /\ Turn(action[i + 1])
  /\ i' = i + 1
  /\ UNCHANGED <<stream, current_kind, simulation, client, history, markerKind, action,
                 cancelled, pc>>

ReplayEnd ==
  /\ pc = "replay" /\ i = Len(action)
  /\ action' = <<>>
  /\ Finish("incremental", "tree", curtok, nodes, Root)
  /\ UNCHANGED <<stream, driver, built, simulation, offered, edits, history, markerKind,
                 stack, locationStack, currentAction, cancelled>>

(* The Monitor may cancel at any time and never takes that back.           *)
Cancel ==
  /\ Monitored /\ ~cancelled /\ pc \in {"batch", "replay"}
  /\ cancelled' = TRUE
  /\ UNCHANGED <<stream, driver, built, simulation, client, history, markerKind, stack,
                 locationStack, action, currentAction, pc>>

-----------------------------------------------------------------------------
Work ==
  \/ BatchTurn \/ BatchAccept \/ BatchError \/ Stop
  \/ SimulateReduce \/ Advance \/ Accepted \/ Refused
  \/ ReplayTurn \/ ReplayEnd

Client ==
  \/ Call \/ Reset \/ Offer \/ GiveUp \/ Correct \/ ErrorResetPops \/ ErrorResetRestarts
  \/ StartReplay \/ Leave

Next == Work \/ Client \/ Cancel

(* A call that has begun runs on by itself; nobody has to make one.        *)
Spec == Init /\ [][Next]_vars /\ WF_vars(Work)
-----------------------------------------------------------------------------
(* The n-th token taken, the marker counted, from 0.                       *)
TokenAt(n) ==
  LET token == IF markerKind = 0 THEN n + 1 ELSE n
  IN  IF token < 0 THEN 0 ELSE token

(* Whichever way, every rule action sees the tokens and the nodes of its   *)
(* symbols, although the places of the stack share their array with the    *)
(* states of the simulation.                                               *)
RuleActionsSeeTheirTokens == \A k \in DOMAIN nodes : SawItsTokens(nodes[k], TokenAt)

(* The two arrays and the log describe one stack.  While a token is tried, *)
(* the states the simulation wrote above the untouched part of stateStack  *)
(* are the stack that the reductions logged since make of it; between two  *)
(* calls the log builds stateStack and has taken the tokens that were      *)
(* offered so far, also after refused ones.                                *)
TwoStacksAreOne ==
  /\ pc = "simulate" =>
       Simulated = StackAfter(stack, SubSeq(action, save_action_length + 1, Len(action)))
  /\ pc = "ready" /\ ~stale =>
       /\ StackAfter(Started, action) = stack
       /\ TokenAt(TokensTaken(action)) = offered

(* parse(sym, index) leaves the configuration unchanged when the tokens    *)
(* are not valid (DeterministicParser.h:166), whatever reductions it had   *)
(* already logged.                                                         *)
ErrorLeavesConfiguration == pc = "refused" => <<stack, action>> = before

Parsed(way) == outcome[way].is \in {"tree", "bad"}

(* The tree that is returned covers the tokens before EOF.                 *)
CoversInput(o) ==
  /\ o.root \in DOMAIN o.nodes
  /\ Covered(o.nodes[o.root].derived) = len - 2
  /\ o.nodes[o.root].first = 1

(* Both ways of parsing the same tokens agree: on the nodes and the tree,  *)
(* which covers the tokens before EOF, or on the token that is in error.   *)
(* Lookahead read around the buffer is the same as lookahead read from the *)
(* stream.                                                                 *)
BothWaysAgree ==
  /\ \A way \in DOMAIN outcome : outcome[way].is = "tree" => CoversInput(outcome[way])
  /\ Parsed("batch") /\ Parsed("incremental") =>
       /\ outcome.batch.is = outcome.incremental.is
       /\ outcome.batch.is = "bad" => outcome.batch.token = outcome.incremental.token
       /\ outcome.batch.is = "tree" => outcome.batch.nodes = outcome.incremental.nodes
=============================================================================
