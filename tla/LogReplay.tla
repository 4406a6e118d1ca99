----------------------------- MODULE LogReplay ------------------------------
(***************************************************************************)
(* BacktrackingParser::parseActions: the log of a search is replayed on    *)
(* the tuple of tokens, and the rule actions run.  It is the last part of  *)
(* parseEntry and of fuzzyParseEntry.                                      *)
(*                                                                         *)
(* locationStack keeps what was above the top of the stack, as an array    *)
(* does; the token at position n of the tuple is tokens[n].                *)
(***************************************************************************)
EXTENDS BacktrackSearch

CONSTANT
  Prostheses    \* the nonterminals whose nodes the user's code can make up

VARIABLES
  tokens,         \* the tuple of the tokens parsed
  locationStack,  \* positions in tokens, state by state
  done,           \* how many actions of the log were replayed
  currentAction,  \* the state that goes on the stack next
  ti,             \* the position of the next token in tokens
  parseStack,     \* the node of each symbol, by the state before it
  nodes,          \* the nodes built, in their order
  derived,        \* history: what each symbol on the stack covers
  result          \* what parseActions returned

replay == <<done, currentAction, ti, parseStack, nodes, derived, result>>

NoResult == -1

ReplayInit ==
  /\ tokens = <<getPrevious(peek(0))>>
  /\ locationStack = <<>>
  /\ done = 0 /\ currentAction = START_STATE /\ ti = 0
  /\ parseStack = <<>> /\ nodes = <<>> /\ derived = <<>>
  /\ result = NoResult

(* The element at a position of an array that grows as it is filled.       *)
SetAt(array, i, value) ==
  [k \in DOMAIN array \cup {i} |-> IF k = i THEN value ELSE array[k]]

-----------------------------------------------------------------------------
(* The tokens from first on, EOF last.  Behind a marker there is only EOF. *)
Remaining(first) ==
  IF first < len THEN [n \in 1 .. len - first |-> first + n - 1]
  ELSE <<first, getNext(first)>>

(* The last tokens are added to the tuple and parseActions begins.         *)
BeginReplay(added) ==
  /\ tokens' = tokens \o added
  /\ ti' = 2
  /\ currentAction' = START_STATE
  /\ stack' = <<>>
  /\ pc' = "replay"
  /\ UNCHANGED <<stream, index, action, act, curtok, error_token, locals, configurations,
                 cancelled, returned, locationStack, done, parseStack, nodes, derived, result>>

(* What a rule action asks for: the first token of the symbol at position  *)
(* p of the stack, and the last token before it.                           *)
getToken(p) == tokens[locationStack'[p]]

(* Mutant: the first token of the next symbol instead.                     *)
getTokenBehind(p) == tokens[locationStack'[p]]

getLastToken(p) == tokens[locationStack'[p] - 1]

Pushed == Append(stack, currentAction)

NextLogged == action[done + 1]

(* What is on the stack before the log's action runs, with the symbol that *)
(* it takes: the next token, or a node made up for an inserted nonterminal.*)
Untaken == Shown(Len(Pushed) - 1, WithRoom(parseStack, Pushed), nodes, derived)

Placeholder ==
  [rule |-> 0, first |-> tokens[ti], last |-> tokens[ti], parts |-> <<>>,
   derived |-> <<Terminal>>, taken |-> ti - 1]

IsNonterminal(token) == getKind(token) > NT_OFFSET

Taken ==
  LET id == Len(nodes) + 1
  IN  IF IsNonterminal(tokens[ti])
      THEN Shown(Len(Pushed), [Untaken.parseStack EXCEPT ![Len(Pushed)] = id],
                 Append(nodes, Placeholder), Append(derived, [node |-> id, count |-> 1]))
      ELSE [Untaken EXCEPT !.top = Len(Pushed), !.derived = Append(@, Terminal)]

Now(r) ==
  /\ parseStack' = r.parseStack
  /\ nodes' = r.nodes
  /\ derived' = r.derived

(* The rule and those it sets off run on what r shows.                     *)
Run(r, rule, last) ==
  LET first == [p \in 1 .. Len(Pushed) |-> getToken(p)]
      prior == [p \in 1 .. Len(Pushed) |-> getLastToken(p)]
      run == process_reductions(Pushed, r, rule, Answering(first, prior, last, ti' - 2), {})
  IN  /\ stack' = SubSeq(Pushed, 1, run.shown.top)
      /\ currentAction' = run.act
      /\ Now(run.shown)

Replaying ==
  /\ pc = "replay" /\ done < Len(action) /\ ~cancelled
  /\ locationStack' = SetAt(locationStack, Len(Pushed), ti)
  /\ UNCHANGED <<stream, index, action, act, curtok, error_token, locals, configurations,
                 cancelled, returned, tokens, result>>

ReplayReduce ==
  /\ Replaying /\ IsReduce(NextLogged)
  /\ done' = done + 1
  /\ ti' = ti
  /\ Run(Untaken, NextLogged, tokens[ti - 1])
  /\ UNCHANGED pc

CanTake == ~IsReduce(NextLogged) /\ (IsNonterminal(tokens[ti]) => getKind(tokens[ti]) \in Prostheses)

ReplayShiftReduce ==
  /\ Replaying /\ IsShiftReduce(NextLogged) /\ CanTake
  /\ done' = done + 1
  /\ ti' = ti + 1
  /\ Run(Taken, NextLogged - ERROR_ACTION, tokens[ti])
  /\ UNCHANGED pc

ReplayShift ==
  /\ Replaying /\ IsShift(NextLogged) /\ CanTake
  /\ done' = done + 1
  /\ ti' = ti + 1
  /\ stack' = Pushed
  /\ currentAction' = NextLogged
  /\ Now(Taken)
  /\ UNCHANGED pc

(* A nonterminal was inserted and nobody makes up a node for it.           *)
ReplayRefuses ==
  /\ Replaying /\ ~IsReduce(NextLogged) /\ ~CanTake
  /\ stack' = Pushed
  /\ pc' = "bad_parse"
  /\ UNCHANGED <<done, ti, currentAction, parseStack, nodes, derived>>

(* The tree is at the bottom of parseStack, or behind the marker.          *)
Root == IF initial_token = 0 THEN 1 ELSE 2

ReplayReturns ==
  /\ pc = "replay"
  /\ \/ /\ done = Len(action)
        /\ result' = IF Root \in DOMAIN parseStack THEN parseStack[Root] ELSE UNSET
     \/ /\ done < Len(action) /\ cancelled
        /\ result' = NULLPTR
  /\ pc' = "parsed"
  /\ UNCHANGED <<stream, index, stack, action, act, curtok, error_token, locals,
                 configurations, cancelled, returned, tokens, locationStack, done,
                 currentAction, ti, parseStack, nodes, derived>>

Replay == ReplayReduce \/ ReplayShiftReduce \/ ReplayShift \/ ReplayRefuses \/ ReplayReturns

-----------------------------------------------------------------------------
(* The n-th token that is taken by the log, counted from 0.               *)
TokenAt(n) == tokens[n + 2]

(* Every rule action sees the tokens its symbols cover: the first and the  *)
(* last one of the rule and of each symbol, also where symbols are empty,  *)
(* and in parseStack the node of each nonterminal.                         *)
RuleActionsSeeTheirTokens == \A k \in DOMAIN nodes : SawItsTokens(nodes[k], TokenAt)
=============================================================================
