----------------------------- MODULE LexParser ------------------------------
(***************************************************************************)
(* LexParser: scanning a text with a parse table.                          *)
(*                                                                         *)
(* A scanner parses one item after another, from START_STATE to a rule for *)
(* START_SYMBOL.  It does so in two ways:                                  *)
(*   - parseCharacters() runs the rule actions as it goes.  For every      *)
(*     character it simulates the reductions in tempStack, above the part  *)
(*     of stack that they leave alone, and repeats them in earnest when    *)
(*     the character can be shifted (parseNextCharacter).                  *)
(*   - lexNextToken() simulates too, but keeps a log of the actions, from  *)
(*     which parseActions() runs the rule actions of a finished item.  It  *)
(*     scans a range of the text or, for scanNextToken, an item per call.  *)
(* Either way a character that cannot be shifted is tried again as if the  *)
(* text ended before it, and if that fails too it is an error.             *)
(*                                                                         *)
(* The characters are the tokens of TokenStream, with the EOF that getKind *)
(* gives behind the last one; LexStream moves its cursor alike.  Positions *)
(* of the stacks start at 0 in the code, here at 1.                        *)
(***************************************************************************)
EXTENDS RuleActions, TableAutomaton

CONSTANTS
  START_SYMBOL,
  Texts,       \* the kinds of the characters of a text, EOF at the end alone
  Calls,       \* the calls of the client: way, first and last offset
  Words,       \* the strings the table scans as an item, for the properties
  Monitored,   \* whether a Monitor may cancel
  LRAutomaton  \* of which the table is made, for the proofs

ASSUME TableAssumption ==
  /\ IsAutomaton(LRAutomaton)
  /\ \A t \in Texts : /\ t \in Seq(LRAutomaton.terminals) /\ t # <<>>
                      /\ \A k \in 1 .. Len(t) : t[k] = EOFT_SYMBOL <=> k = Len(t)
  /\ \A call \in Calls : call.first \in Nat /\ call.last \in Nat
  \* nothing takes the end of the text, and an item is nowhere but at the bottom
  /\ \A s \in StatesOf(LRAutomaton) :
       LET act == tableAction(s, EOFT_SYMBOL)
       IN  ~IsShift(act) /\ ~IsShiftReduce(act) /\ ~(act > LA_STATE_OFFSET)
  /\ \A i \in LRAutomaton.items : i[2] = 0 /\ i[3] = START_SYMBOL => i[1] = START_STATE

VARIABLES
  way,                     \* "parse", or by lexNextToken: "range" or "next"
  start_offset, end_offset,
  curtok, current_kind, starttok, lastToken,
  stack,                   \* up to stateStackTop
  locationStack,           \* by position
  tempStack, pos, tempStackTop,   \* the simulation
  kind, save_next_token,   \* what is tried; the cursor to restore, or NotSaved
  currentAction,
  action, action_save, i,  \* the log, and how much of it is replayed
  items,                   \* the items made and the errors reported
  pc,
  nodes, derived           \* history: what the rule actions saw in this item

text == <<kinds, len, way, start_offset, end_offset>>
simulation == <<tempStack, pos, tempStackTop, kind>>
log == <<action, action_save, i>>
seen == <<nodes, derived>>

vars == <<text, index, curtok, current_kind, starttok, lastToken, stack, locationStack,
          simulation, save_next_token, currentAction, log, items, pc, seen>>

NotSaved == -1

Parsing == way = "parse"

(* resetTokenStream(start_offset).                                         *)
Init ==
  /\ \E t \in Texts : kinds = t /\ len = Len(t)
  /\ \E call \in Calls :
       /\ way = call.way /\ start_offset = call.first /\ end_offset = call.last
       /\ call.way = "range" => call.first <= call.last /\ call.last < len - 1
  /\ index = getNext(start_offset - 1)
  /\ curtok = index /\ current_kind = getKind(curtok)
  /\ starttok = 0 /\ lastToken = getPrevious(curtok)
  /\ stack = <<>> /\ locationStack = <<>>
  /\ tempStack = <<>> /\ pos = 0 /\ tempStackTop = 0
  /\ kind = EOFT_SYMBOL /\ save_next_token = NotSaved
  /\ currentAction = START_STATE
  /\ action = <<>> /\ action_save = 0 /\ i = 0
  /\ items = <<>> /\ pc = "item"
  /\ nodes = <<>> /\ derived = <<>>

-----------------------------------------------------------------------------
(* Between two items.                                                      *)

(* The outer loops: parseCharacters ends at EOF, a range behind its end;   *)
(* scanNextToken is called until it finds no item.                         *)
More ==
  CASE way = "parse" -> current_kind # EOFT_SYMBOL
    [] way = "range" -> curtok <= end_offset
    [] OTHER -> TRUE

StartItem ==
  /\ pc = "item" /\ More
  /\ starttok' = curtok
  /\ stack' = <<>>
  /\ currentAction' = START_STATE
  /\ action' = <<>>
  /\ nodes' = <<>> /\ derived' = <<>>
  /\ pc' = "turn"
  /\ UNCHANGED <<text, index, curtok, current_kind, lastToken, locationStack, simulation,
                 save_next_token, action_save, i, items>>

Return ==
  /\ pc = "item" /\ ~More
  /\ pc' = "done"
  /\ UNCHANGED <<text, index, curtok, current_kind, starttok, lastToken, stack,
                 locationStack, simulation, save_next_token, currentAction, log, items, seen>>

(* The Monitor cancels; scanNextToken has none.                            *)
Stop ==
  /\ Monitored /\ pc = "item" /\ way # "next"
  /\ pc' = "cancelled"
  /\ UNCHANGED <<text, index, curtok, current_kind, starttok, lastToken, stack,
                 locationStack, simulation, save_next_token, currentAction, log, items, seen>>

-----------------------------------------------------------------------------
(* What both ways share.                                                   *)

(* A reduction and the goto-reductions it sets off, on stack s whose top   *)
(* is top: the top they leave, with the goto they end with - or the rule   *)
(* itself when it is one for START_SYMBOL, which stops the loop.           *)
Stopped(s, top, rule) ==
  LET stopped[at \in Int \X (0 .. NUM_RULES)] ==
        LET act == ntAction(s[at[1]], lhs(at[2]))
        IN  IF lhs(at[2]) = START_SYMBOL THEN at
            ELSE IF IsReduce(act) THEN stopped[<<at[1] - (rhs(act) - 1), act>>]
            ELSE <<at[1], act>>
  IN  stopped[<<top - (rhs(rule) - 1), rule>>]

Reduced(s, top, rule) ==
  [top |-> Stopped(s, top, rule)[1], act |-> Stopped(s, top, rule)[2]]

(* Reduced ended with the item.                                            *)
Complete(r) == IsReduce(r.act)

(* The item a rule action for START_SYMBOL makes, from getToken(1) to      *)
(* getLastToken(), and the one an error reports.                           *)
Item(first, last, is) == [first |-> first, last |-> last, is |-> is]

(* The symbols have no nodes: a number stands for each.                    *)
Names(symbols) ==
  [p \in 1 .. Len(symbols) + 1 |-> IF p <= Len(symbols) THEN symbols[p].node ELSE UNSET]

(* Mutant: a symbol ends where the next one begins.                        *)
RunToNext(s, top, rule, symbols, places, last) ==
  process_reductions(s, Shown(top, Names(symbols), nodes, symbols), rule,
                     Answering(places, places, last, Covered(symbols)), {START_SYMBOL}).shown

(* The rule actions run on stack s, popped from top on, with the tokens at *)
(* the positions in places.                                                *)
Run(s, top, rule, symbols, places, last) ==
  LET prior == [p \in DOMAIN places |-> getPrevious(places[p])]
  IN  process_reductions(s, Shown(top, Names(symbols), nodes, symbols), rule,
                         Answering(places, prior, last, Covered(symbols)), {START_SYMBOL}).shown

(* What running them leaves; a complete item is listed.                    *)
RunActions(s, top, rule, symbols, places, last) ==
  LET r == Reduced(s, top, rule)
      shown == Run(s, top, rule, symbols, places, last)
  IN  /\ nodes' = shown.nodes
      /\ derived' = IF Complete(r) THEN <<>> ELSE shown.derived
      /\ items' = IF ~Complete(r) THEN items
                  ELSE Append(items, Item(places[shown.top], last,
                                          IF Covered(symbols) = 0 THEN "empty" ELSE "word"))

(* The next character.  In a range the text ends behind end_offset.        *)
NextInText ==
  IF way = "range" /\ getNext(index) > end_offset THEN len - 1 ELSE getNext(index)

AdvanceCursor ==
  /\ index' = getNext(index)
  /\ current_kind' = getKind(NextInText)

NextCharacter == AdvanceCursor /\ curtok' = NextInText

(* The simulated stack at position p.                                      *)
StateAt(p) == IF p > pos THEN tempStack[p] ELSE stack[p]

Simulated == [p \in 1 .. tempStackTop + 1 |-> StateAt(p)]

(* An attempt to shift a character of kind k begins on stack st.           *)
Attempt(st, k, cursor) ==
  /\ kind' = k
  /\ pos' = Len(st)
  /\ tempStackTop' = Len(st) - 1
  /\ currentAction' = tAction(Last(st), k, cursor)
  /\ pc' = "scan"

(* Mutant: the cursor stays where the attempt at the end has moved it.     *)
ForgetCursor == index' = index /\ save_next_token' = NotSaved

(* The attempt as if at the end of the text has moved the cursor.          *)
RestoreCursor ==
  /\ index' = IF save_next_token = NotSaved THEN index ELSE save_next_token - 1
  /\ save_next_token' = NotSaved

-----------------------------------------------------------------------------
(* One turn of ScanToken: the state is pushed, the next character tried.   *)
Turn ==
  /\ pc = "turn"
  /\ stack' = Append(stack, currentAction)
  /\ locationStack' = IF Parsing THEN Written(locationStack, Len(stack'), curtok) ELSE locationStack
  /\ Attempt(stack', current_kind, index)
  /\ action_save' = Len(action)
  /\ UNCHANGED <<text, index, curtok, current_kind, starttok, lastToken, tempStack,
                 save_next_token, action, i, items, seen>>

Scanning == pc = "scan" /\ IsReduce(currentAction)

NextReduction == Reduced(Simulated, tempStackTop, currentAction)

(* Mutant: pos stays where it began.                                       *)
NotLowered(top) == pos

(* How much of stack the reductions leave alone.                           *)
Lowered(top) == IF pos < top THEN pos ELSE top

(* One turn of the loop over simulated reductions.                         *)
ScanReduce ==
  /\ Scanning /\ ~Complete(NextReduction)
  /\ LET r == NextReduction
     IN  /\ tempStackTop' = r.top
         /\ pos' = Lowered(r.top)
         /\ tempStack' = Written(tempStack, r.top + 1, r.act)
         /\ currentAction' = tAction(r.act, kind, index)
  /\ action' = IF Parsing THEN action ELSE Append(action, currentAction)
  /\ UNCHANGED <<text, index, curtok, current_kind, starttok, lastToken, stack, locationStack,
                 kind, save_next_token, action_save, i, items, pc, seen>>

(* parseNextCharacter repeats the reductions in earnest.                   *)
StartReplay ==
  /\ pc = "scan" /\ Parsing
  /\ \/ Scanning /\ Complete(NextReduction)
     \/ IsShift(currentAction) \/ IsShiftReduce(currentAction)
  /\ currentAction' = tAction(Last(stack), kind, index)
  /\ pc' = "replay"
  /\ UNCHANGED <<text, index, curtok, current_kind, starttok, lastToken, stack, locationStack,
                 simulation, save_next_token, log, items, seen>>

(* The attempt of lexNextCharacter succeeds: the simulation becomes the    *)
(* stack.                                                                  *)
TakeSimulation ==
  /\ pc = "scan" /\ ~Parsing
  /\ IsShift(currentAction) \/ IsShiftReduce(currentAction)
  /\ stack' = Simulated
  /\ action' = Append(action, currentAction)
  /\ RestoreCursor
  /\ pc' = "take"
  /\ UNCHANGED <<text, curtok, current_kind, starttok, lastToken, locationStack, simulation,
                 currentAction, action_save, i, items, seen>>

(* parseActions() begins with the log.                                     *)
StartActions(actions) ==
  /\ action' = actions
  /\ curtok' = starttok
  /\ lastToken' = getPrevious(starttok)
  /\ stack' = <<>>
  /\ currentAction' = START_STATE
  /\ i' = 0
  /\ pc' = "actions"

(* A simulated reduction completes the item of lexNextCharacter.  One      *)
(* without a character is illegal, an error.                               *)
ScanCompletes ==
  /\ Scanning /\ ~Parsing /\ Complete(NextReduction)
  /\ IF starttok = curtok
     THEN /\ action' = Append(action, currentAction)
          /\ currentAction' = ERROR_ACTION
          /\ UNCHANGED <<curtok, lastToken, stack, i, pc>>
     ELSE StartActions(Append(action, currentAction))
  /\ UNCHANGED <<text, index, current_kind, starttok, locationStack, simulation,
                 save_next_token, action_save, items, seen>>

(* Mutant: a failed attempt is an error.                                   *)
OneAttempt == FALSE

(* Mutant: the second attempt is repeated while it fails.                  *)
EverAgain == current_kind # EOFT_SYMBOL

TryEof == save_next_token = NotSaved /\ current_kind # EOFT_SYMBOL

(* The attempt fails: the log is cut back, and the character is tried as   *)
(* if the text ended before it.  Then it is an error.                      *)
ScanFails ==
  /\ pc = "scan" /\ currentAction = ERROR_ACTION
  /\ action' = SubSeq(action, 1, action_save)
  /\ IF TryEof
     THEN /\ save_next_token' = peek(index)
          /\ index' = (len - 1) - 2
          /\ Attempt(stack, EOFT_SYMBOL, (len - 1) - 2)
          /\ UNCHANGED tempStack
     ELSE /\ RestoreCursor
          /\ pc' = "error"
          /\ UNCHANGED <<simulation, currentAction>>
  /\ UNCHANGED <<text, curtok, current_kind, starttok, lastToken, stack, locationStack,
                 action_save, i, items, seen>>

-----------------------------------------------------------------------------
(* parseCharacters(): the rule actions run as the text is parsed.          *)

Replaying == pc = "replay" /\ IsReduce(currentAction)

(* One turn of Replay.  A reduction that completes an item without a       *)
(* character is an error, after its rule actions have run.                 *)
ReplayReduce ==
  /\ Replaying
  /\ LET r == Reduced(stack, Len(stack) - 1, currentAction)
         popped == SubSeq(stack, 1, r.top)
     IN  /\ RunActions(stack, Len(stack) - 1, currentAction, derived, locationStack, lastToken)
         /\ IF ~Complete(r)
            THEN /\ stack' = Append(popped, r.act)
                 /\ locationStack' = Written(locationStack, Len(stack'), curtok)
                 /\ currentAction' = tAction(r.act, kind, index)
                 /\ UNCHANGED <<index, save_next_token, pc>>
            ELSE /\ stack' = popped
                 /\ UNCHANGED locationStack
                 /\ IF starttok = curtok
                    THEN /\ currentAction' = ERROR_ACTION /\ pc' = "scan"
                         /\ UNCHANGED <<index, save_next_token>>
                    ELSE /\ currentAction' = ACCEPT_ACTION /\ pc' = "item"
                         /\ RestoreCursor
  /\ UNCHANGED <<text, curtok, current_kind, starttok, lastToken, simulation, log>>

(* All reductions are done: the character is taken.                        *)
EndReplay ==
  /\ pc = "replay" /\ ~IsReduce(currentAction)
  /\ RestoreCursor
  /\ pc' = "take"
  /\ UNCHANGED <<text, curtok, current_kind, starttok, lastToken, stack, locationStack,
                 simulation, currentAction, log, items, seen>>

ParseShift ==
  /\ pc = "take" /\ Parsing /\ IsShift(currentAction)
  /\ lastToken' = curtok
  /\ NextCharacter
  /\ derived' = Append(derived, Terminal)
  /\ pc' = "turn"
  /\ UNCHANGED <<text, starttok, stack, locationStack, simulation, save_next_token,
                 currentAction, log, items, nodes>>

ParseShiftReduce ==
  /\ pc = "take" /\ Parsing /\ IsShiftReduce(currentAction)
  /\ lastToken' = curtok
  /\ NextCharacter
  /\ LET r == Reduced(stack, Len(stack), currentAction - ERROR_ACTION)
     IN  /\ RunActions(stack, Len(stack), currentAction - ERROR_ACTION,
                       Append(derived, Terminal), locationStack, curtok)
         /\ stack' = SubSeq(stack, 1, r.top)
         /\ currentAction' = r.act
         /\ pc' = IF Complete(r) THEN "item" ELSE "turn"
  /\ UNCHANGED <<text, starttok, locationStack, simulation, save_next_token, log>>

-----------------------------------------------------------------------------
(* lexNextToken(): the rule actions wait for the end of the item.          *)

LexShift ==
  /\ pc = "take" /\ ~Parsing /\ IsShift(currentAction)
  /\ NextCharacter
  /\ pc' = "turn"
  /\ UNCHANGED <<text, starttok, lastToken, stack, locationStack, simulation,
                 save_next_token, currentAction, log, items, seen>>

LexShiftReduce ==
  /\ pc = "take" /\ ~Parsing /\ IsShiftReduce(currentAction)
  /\ AdvanceCursor
  /\ LET r == Reduced(stack, Len(stack), currentAction - ERROR_ACTION)
     IN  IF Complete(r)
         THEN StartActions(action)
         ELSE /\ curtok' = NextInText
              /\ stack' = SubSeq(stack, 1, r.top)
              /\ currentAction' = r.act
              /\ pc' = "turn"
              /\ UNCHANGED <<lastToken, action, i>>
  /\ UNCHANGED <<text, starttok, locationStack, simulation, save_next_token, action_save,
                 items, seen>>

(* One turn of process_actions.  The log of an item ends with its rule.    *)
ActionsTurn ==
  /\ pc = "actions"
  /\ i' = i + 1
  /\ LET act == action[i + 1]
         pushed == Append(stack, currentAction)
         places == Written(locationStack, Len(pushed), curtok)
         taken == IF IsReduce(act) THEN derived ELSE Append(derived, Terminal)
         rule == IF IsReduce(act) THEN act ELSE act - ERROR_ACTION
         top == IF IsReduce(act) THEN Len(pushed) - 1 ELSE Len(pushed)
         r == Reduced(pushed, top, rule)
     IN  /\ locationStack' = places
         /\ IF IsReduce(act)
            THEN UNCHANGED <<curtok, lastToken>>
            ELSE lastToken' = curtok /\ curtok' = getNext(curtok)
         /\ IF IsShift(act)
            THEN /\ stack' = pushed /\ currentAction' = act
                 /\ derived' = taken
                 /\ UNCHANGED <<items, nodes, pc, index, save_next_token>>
            ELSE /\ RunActions(pushed, top, rule, taken, places, lastToken')
                 /\ stack' = SubSeq(pushed, 1, r.top)
                 /\ currentAction' = r.act
                 /\ IF Complete(r) THEN RestoreCursor /\ pc' = "item"
                                   ELSE UNCHANGED <<index, save_next_token, pc>>
  /\ UNCHANGED <<text, current_kind, starttok, simulation, action, action_save>>

-----------------------------------------------------------------------------
(* An error on the first character: it is reported and passed.             *)
BadCharacter ==
  /\ pc = "error" /\ starttok = curtok /\ current_kind # EOFT_SYMBOL
  /\ items' = Append(items, Item(starttok, curtok, "error"))
  /\ lastToken' = curtok
  /\ NextCharacter
  /\ pc' = "item"
  /\ UNCHANGED <<text, starttok, stack, locationStack, simulation, save_next_token,
                 currentAction, log, seen>>

(* An error on a later one: the characters before it are reported.         *)
BadToken ==
  /\ pc = "error" /\ starttok # curtok
  /\ lastToken' = IF Parsing THEN lastToken ELSE getPrevious(curtok)
  /\ items' = Append(items, Item(starttok, lastToken', "error"))
  /\ pc' = "item"
  /\ UNCHANGED <<text, index, curtok, current_kind, starttok, stack, locationStack, simulation,
                 save_next_token, currentAction, log, seen>>

(* There is nothing more: lexNextToken returns false.                      *)
NothingMore ==
  /\ pc = "error" /\ starttok = curtok /\ current_kind = EOFT_SYMBOL
  /\ pc' = "done"
  /\ UNCHANGED <<text, index, curtok, current_kind, starttok, lastToken, stack,
                 locationStack, simulation, save_next_token, currentAction, log, items, seen>>

Work ==
  \/ StartItem \/ Return \/ Turn
  \/ ScanReduce \/ ScanCompletes \/ ScanFails \/ TakeSimulation
  \/ StartReplay \/ ReplayReduce \/ EndReplay \/ ParseShift \/ ParseShiftReduce
  \/ LexShift \/ LexShiftReduce \/ ActionsTurn
  \/ BadCharacter \/ BadToken \/ NothingMore

Next == Work \/ Stop

Spec == Init /\ [][Next]_vars /\ WF_vars(Work)

-----------------------------------------------------------------------------
(* The reductions that a scanner simulates are those it carries out:       *)
(* lexNextToken's log builds the simulated stack, which is taken over only *)
(* with the character, and parseNextCharacter's replay builds it too.      *)
SimulationIsTheStack ==
  /\ pc = "scan" /\ ~Parsing /\ ~IsReduce(currentAction) /\ currentAction # ERROR_ACTION =>
       Simulated = StackAfter(<<START_STATE>>, action)
  /\ pc = "take" => IF Parsing THEN stack = Simulated
                    ELSE stack = StackAfter(<<START_STATE>>, Front(action))

(* What getToken and getLastToken tell a rule action, in parseCharacters   *)
(* and in parseActions, are the characters its symbols cover, also when    *)
(* symbols are empty.                                                      *)
RuleActionsSeeTheirCharacters ==
  \A n \in DOMAIN nodes :
    SawItsTokens(nodes[n], LAMBDA k : IF k < 0 THEN getPrevious(starttok) ELSE starttok + k)

-----------------------------------------------------------------------------
(* The last offset to scan.                                                *)
Limit == IF way = "range" THEN end_offset ELSE len - 2

(* Where an item ends in the text to scan.  A rule action for START_SYMBOL *)
(* on no character takes none (ReplayReduce).                              *)
EndOf(item) ==
  IF item.is = "empty" THEN item.first - 1
  ELSE IF item.last > Limit THEN Limit ELSE item.last

(* The scan makes items of the text from start_offset on, each right       *)
(* behind the one before, and to the end when it is not cancelled: no      *)
(* character is lost, and none is in two items (parseCharacters,           *)
(* lexNextToken).                                                          *)
TextIsItems ==
  /\ \A n \in DOMAIN items :
       items[n].first = IF n = 1 THEN start_offset ELSE EndOf(items[n - 1]) + 1
  /\ pc = "done" => IF items = <<>> THEN start_offset > Limit ELSE EndOf(Last(items)) = Limit

Characters(item) == SubSeq(kinds, item.first + 1, EndOf(item) + 1)

(* Word w begins with the item and the next two characters, the second of  *)
(* them as far as w goes: the table could have gone on.                    *)
Continues(w, item) ==
  LET n == EndOf(item) - item.first + 1
  IN  /\ Len(w) > n
      /\ \A k \in 1 .. Len(w) :
           k <= n + 2 => item.first + k \in DOMAIN kinds /\ w[k] = kinds[item.first + k]

(* A token is a word, an error is a single character or the beginning of a *)
(* word, and each ends only where no word goes on with the next two        *)
(* characters (parseCharacters, lexNextToken).                             *)
ItemsAreTheLongest ==
  \A n \in DOMAIN items :
    LET item == items[n]
    IN  item.is # "empty" =>
          /\ (item.is = "word") <=> Characters(item) \in Words
          /\ item.is = "error" => Len(Characters(item)) = 1
                                 \/ \E w \in Words : IsPrefix(Characters(item), w)
          /\ EndOf(item) < Limit => \A w \in Words : ~Continues(w, item)

(* Every scan comes to its end (parseCharacters; scanNextToken returns     *)
(* false at the end of the text).                                          *)
ScansEnd == <>(pc \in {"done", "cancelled"})

=============================================================================
