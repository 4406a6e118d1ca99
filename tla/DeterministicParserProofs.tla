---------------------- MODULE DeterministicParserProofs ---------------------
(***************************************************************************)
(* For every table that is made of an automaton, and every stream and      *)
(* client: a token that parse(sym, index) refuses leaves the configuration *)
(* of the parser as it was, no reduction leaves the stack or the table,    *)
(* the simulated stack, the real one and the log are one, and whichever    *)
(* way of parsing every rule action sees the tokens of its symbols.        *)
(***************************************************************************)
EXTENDS DeterministicParser, ParseTableProofs

(* The log is a sequence whatever was called.                              *)
LogInv == action \in Seq(Int)

(* While parse simulates, the stack is the one it was called with, and the *)
(* log begins with the log it was called with.                             *)
SimulationInv ==
  pc = "simulate" =>
    /\ before = <<stack, before[2]>>
    /\ before[2] \in Seq(Int)
    /\ save_action_length = Len(before[2])
    /\ save_action_length <= Len(action)
    /\ SubSeq(action, 1, save_action_length) = before[2]

IInv == LogInv /\ SimulationInv /\ ErrorLeavesConfiguration

(* To call parse on the stack and the log as they are begins a simulation. *)
LEMMA StartParseKeepsIt ==
  ASSUME NEW st, NEW log \in Seq(Int), NEW s, NEW j,
         StartParse(st, log, s, j), stack' = st, action' = log
  PROVE  IInv'
  <1>1. /\ pc' = "simulate" /\ before' = <<st, log>>
        /\ save_action_length' = Len(log)
    BY DEF StartParse
  <1>2. Len(log) \in Nat /\ SubSeq(log, 1, Len(log)) = log
    BY WholePrefix
  <1> QED  BY <1>1, <1>2 DEF IInv, LogInv, SimulationInv, ErrorLeavesConfiguration

(* Whatever neither parses nor has just refused keeps the invariant as     *)
(* long as the log stays a sequence.                                       *)
LEMMA Elsewhere ==
  ASSUME action' \in Seq(Int), pc' \notin {"simulate", "refused"}
  PROVE  IInv'
  BY DEF IInv, LogInv, SimulationInv, ErrorLeavesConfiguration

LEMMA InitKeepsIt ==
  ASSUME Init
  PROVE  IInv
  BY DEF Init, IInv, LogInv, SimulationInv, ErrorLeavesConfiguration

LEMMA StutterKeepsIt ==
  ASSUME IInv, UNCHANGED <<stack, action, before, save_action_length, pc>>
  PROVE  IInv'
  BY DEF IInv, LogInv, SimulationInv, ErrorLeavesConfiguration

(* The steps of the drivers that run rule actions.                         *)
LEMMA PassesKeepIt ==
  ASSUME IInv,
         Call \/ BatchTurn \/ BatchAccept \/ BatchError \/ Stop \/ StartReplay
           \/ ReplayTurn \/ ReplayEnd \/ Leave \/ GiveUp
  PROVE  IInv'
  <1> USE Elsewhere DEF IInv, LogInv
  <1>1. CASE Call  BY <1>1 DEF Call
  <1>2. CASE BatchTurn  BY <1>2 DEF BatchTurn, InBatch
  <1>3. CASE BatchAccept  BY <1>3 DEF BatchAccept, BatchEnd, Finish
  <1>4. CASE BatchError  BY <1>4 DEF BatchError, BatchEnd, Finish
  <1>5. CASE Stop  BY <1>5 DEF Stop, Finish
  <1>6. CASE StartReplay  BY <1>6 DEF StartReplay
  <1>7. CASE ReplayTurn  BY <1>7 DEF ReplayTurn
  <1>8. CASE ReplayEnd  BY <1>8 DEF ReplayEnd, Finish
  <1>9. CASE Leave  BY <1>9 DEF Leave, Finish
  <1>10. CASE GiveUp  BY <1>10 DEF GiveUp, Finish
  <1> QED  BY <1>1, <1>2, <1>3, <1>4, <1>5, <1>6, <1>7, <1>8, <1>9, <1>10

(* resetParserEntry ends in a parser that is ready, or begins to parse the *)
(* marker on the stack and the log it has just set.                        *)
LEMMA ResetParserEntryKeepsIt ==
  ASSUME resetParserEntry
  PROVE  IInv'
  <1>1. stack' = Started /\ action' = <<>> /\ <<>> \in Seq(Int)
    BY DEF resetParserEntry
  <1>2. CASE markerKind = 0
    BY <1>1, <1>2, Elsewhere DEF resetParserEntry
  <1>3. CASE markerKind # 0
    <2>1. StartParse(Started, <<>>, <<markerKind>>, 0)
      BY <1>3 DEF resetParserEntry
    <2> QED  BY <1>1, <2>1, StartParseKeepsIt
  <1> QED  BY <1>2, <1>3

LEMMA OfferKeepsIt ==
  ASSUME IInv, Offer
  PROVE  IInv'
  <1>1. StartParse(stack, action, Buffer, (offered - 1) % MAX_LA)
    BY DEF Offer
  <1>2. stack' = stack /\ action' = action /\ action \in Seq(Int)
    BY DEF Offer, IInv, LogInv
  <1> QED  BY <1>1, <1>2, StartParseKeepsIt

(* A reduction is logged behind the log parse was called with.             *)
LEMMA SimulateReduceKeepsIt ==
  ASSUME IInv, SimulateReduce
  PROVE  IInv'
  <1>1. /\ pc = "simulate" /\ currentAction \in Int
        /\ action' = Append(action, currentAction)
        /\ UNCHANGED <<before, stack, save_action_length, pc>>
    BY DEF SimulateReduce, IsReduce, history
  <1>2. /\ action \in Seq(Int) /\ before[2] \in Seq(Int)
        /\ before = <<stack, before[2]>>
        /\ save_action_length = Len(before[2])
        /\ save_action_length <= Len(action)
        /\ SubSeq(action, 1, save_action_length) = before[2]
    BY <1>1 DEF IInv, LogInv, SimulationInv
  <1>3. save_action_length \in Nat
    BY <1>2, WholePrefix
  <1>4. /\ action' \in Seq(Int) /\ save_action_length <= Len(action')
        /\ SubSeq(action', 1, save_action_length) = SubSeq(action, 1, save_action_length)
    BY <1>1, <1>2, <1>3, AppendKeepsPrefix
  <1> QED  BY <1>1, <1>2, <1>4
           DEF IInv, LogInv, SimulationInv, ErrorLeavesConfiguration

LEMMA AdvanceKeepsIt ==
  ASSUME IInv, Advance
  PROVE  IInv'
  <1>1. currentAction \in Int
    BY DEF Advance, IsShift, IsShiftReduce
  <1>2. action' \in Seq(Int) /\ pc' = "ready"
    BY <1>1 DEF Advance, IInv, LogInv
  <1> QED  BY <1>2, Elsewhere

(* The log is cut back to the one parse was called with.                   *)
LEMMA RefusedKeepsIt ==
  ASSUME IInv, Refused
  PROVE  IInv'
  <1>1. /\ pc = "simulate" /\ pc' = "refused"
        /\ action' = SubSeq(action, 1, save_action_length)
        /\ UNCHANGED <<before, stack>>
    BY DEF Refused, history
  <1>2. /\ before[2] \in Seq(Int) /\ before = <<stack, before[2]>>
        /\ SubSeq(action, 1, save_action_length) = before[2]
    BY <1>1 DEF IInv, SimulationInv
  <1> QED  BY <1>1, <1>2 DEF IInv, LogInv, SimulationInv, ErrorLeavesConfiguration

(* What the client does about a refused token makes the parser ready again *)
(* or resets it.                                                           *)
LEMMA ClientKeepsIt ==
  ASSUME IInv, Reset \/ Correct \/ ErrorResetPops \/ ErrorResetRestarts
  PROVE  IInv'
  <1>1. CASE Reset  BY <1>1, ResetParserEntryKeepsIt DEF Reset
  <1>2. CASE Correct  BY <1>2, Elsewhere DEF Correct, IInv, LogInv
  <1>3. CASE ErrorResetPops  BY <1>3, Elsewhere DEF ErrorResetPops, IInv, LogInv
  <1>4. CASE ErrorResetRestarts  BY <1>4, ResetParserEntryKeepsIt DEF ErrorResetRestarts
  <1> QED  BY <1>1, <1>2, <1>3, <1>4

LEMMA AcceptedKeepsIt ==
  ASSUME IInv, Accepted
  PROVE  IInv'
  BY Elsewhere DEF Accepted, IInv, LogInv

LEMMA CancelKeepsIt ==
  ASSUME IInv, Cancel
  PROVE  IInv'
  BY StutterKeepsIt DEF Cancel, simulation, history

LEMMA NextKeepsIt ==
  ASSUME IInv, [Next]_vars
  PROVE  IInv'
  <1>1. CASE Work
    BY <1>1, PassesKeepIt, SimulateReduceKeepsIt, AdvanceKeepsIt, AcceptedKeepsIt,
       RefusedKeepsIt DEF Work
  <1>2. CASE Client
    BY <1>2, PassesKeepIt, OfferKeepsIt, ClientKeepsIt DEF Client
  <1>3. CASE Cancel
    BY <1>3, CancelKeepsIt
  <1>4. CASE UNCHANGED vars
    BY <1>4, StutterKeepsIt DEF vars, simulation, history
  <1> QED  BY <1>1, <1>2, <1>3, <1>4 DEF Next

(* The invariant holds of every behaviour.                                 *)
THEOREM Invariance == Spec => []IInv
  BY InitKeepsIt, NextKeepsIt, PTL DEF Spec

(* parse(sym, index) leaves the initial configuration unchanged when the   *)
(* tokens are not valid, for every table and every sequence of calls.      *)
THEOREM RefusalChangesNothing == Spec => []ErrorLeavesConfiguration
  <1>1. IInv => ErrorLeavesConfiguration
    BY DEF IInv
  <1> QED  BY <1>1, Invariance, PTL

-----------------------------------------------------------------------------
(* The recursive function in tActionIn: f[k] is known with k tokens.       *)
LookedUp(f, state, s, j, k) ==
  f[k] = IF k = 0 THEN tableAction(state, s[j + 1])
         ELSE IF f[k - 1] > LA_STATE_OFFSET
         THEN lookAhead(f[k - 1] - LA_STATE_OFFSET, s[((j + k) % Len(s)) + 1])
         ELSE f[k - 1]

LooksUpTo(f, state, s, j, m) ==
  /\ f = [k \in 0 .. m |-> f[k]]
  /\ \A k \in 0 .. m : LookedUp(f, state, s, j, k)

LooksUp(f, state, s, j) ==
  f = [k \in 0 .. MAX_LA - 1 |->
         IF k = 0 THEN tableAction(state, s[j + 1])
         ELSE IF f[k - 1] > LA_STATE_OFFSET
         THEN lookAhead(f[k - 1] - LA_STATE_OFFSET, s[((j + k) % Len(s)) + 1])
         ELSE f[k - 1]]

LEMMA tActionInIsChosen ==
  ASSUME NEW state, NEW s, NEW j
  PROVE  tActionIn(state, s, j) = (CHOOSE f : LooksUp(f, state, s, j))[MAX_LA - 1]
BY DEF tActionIn, LooksUp

LEMMA LookupsExist ==
  ASSUME NEW state, NEW s, NEW j
  PROVE  \A m \in Nat : \E f : LooksUpTo(f, state, s, j, m)
<1> DEFINE Q == {m \in Nat : \E f : LooksUpTo(f, state, s, j, m)}
<1>1. 0 \in Q
  <2>1. PICK f : f = [k \in 0 .. 0 |-> tableAction(state, s[j + 1])]
    OBVIOUS
  <2>2. LooksUpTo(f, state, s, j, 0)
    BY <2>1 DEF LooksUpTo, LookedUp
  <2> QED BY <2>2
<1>2. ASSUME NEW m \in Nat, m \in Q PROVE m + 1 \in Q
  <2>1. PICK f : LooksUpTo(f, state, s, j, m)
    BY <1>2
  <2>2. PICK top : top = IF f[m] > LA_STATE_OFFSET
                         THEN lookAhead(f[m] - LA_STATE_OFFSET, s[((j + (m + 1)) % Len(s)) + 1])
                         ELSE f[m]
    OBVIOUS
  <2>3. PICK g : g = [k \in 0 .. m + 1 |-> IF k = m + 1 THEN top ELSE f[k]]
    OBVIOUS
  <2>4. /\ g = [k \in 0 .. m + 1 |-> g[k]]
        /\ \A k \in 0 .. m + 1 : g[k] = IF k = m + 1 THEN top ELSE f[k]
    BY <2>3
  <2>5. ASSUME NEW k \in 0 .. m + 1 PROVE LookedUp(g, state, s, j, k)
    <3>1. CASE k = m + 1
      <4>1. k # 0 /\ k - 1 = m /\ g[k] = top /\ g[k - 1] = f[m]
        BY <2>4, <3>1
      <4> QED BY <2>2, <3>1, <4>1 DEF LookedUp
    <3>2. CASE k # m + 1
      <4>1. k \in 0 .. m /\ (k # 0 => k - 1 \in 0 .. m + 1 /\ k - 1 # m + 1)
        BY <3>2
      <4>2. g[k] = f[k] /\ (k # 0 => g[k - 1] = f[k - 1])
        BY <2>4, <3>2, <4>1
      <4>3. LookedUp(f, state, s, j, k)
        BY <2>1, <4>1 DEF LooksUpTo
      <4> QED BY <4>2, <4>3 DEF LookedUp
    <3> QED BY <3>1, <3>2
  <2>6. LooksUpTo(g, state, s, j, m + 1)
    BY <2>4, <2>5 DEF LooksUpTo
  <2> QED BY <2>6
<1> HIDE DEF Q
<1>3. Nat \subseteq Q
  BY <1>1, <1>2, NatSetInduction
<1> QED BY <1>3 DEF Q

LEMMA tActionInRuns ==
  ASSUME NEW state, NEW s, NEW j
  PROVE  \E f : /\ LooksUpTo(f, state, s, j, MAX_LA - 1)
                /\ tActionIn(state, s, j) = f[MAX_LA - 1]
<1>1. MAX_LA - 1 \in Nat
  BY TableAssumption
<1>2. PICK f : LooksUpTo(f, state, s, j, MAX_LA - 1)
  BY <1>1, LookupsExist
<1>3. LooksUp(f, state, s, j)
  BY <1>2 DEF LooksUpTo, LooksUp, LookedUp
<1>4. PICK g : g = CHOOSE h : LooksUp(h, state, s, j)
  OBVIOUS
<1>5. LooksUp(g, state, s, j)
  BY <1>3, <1>4
<1>6. LooksUpTo(g, state, s, j, MAX_LA - 1)
  BY <1>5 DEF LooksUpTo, LooksUp, LookedUp
<1> QED
  BY <1>4, <1>6, tActionInIsChosen

(* What is looked up is what the table answers in the state on top, and no *)
(* more tokens are wanted than there are.                                  *)
LEMMA tActionInAnswers ==
  ASSUME NEW st, IsViable(LRAutomaton, st),
         NEW s \in Seq(LRAutomaton.terminals), NEW j \in 0 .. Len(s) - 1
  PROVE  /\ Answers(LRAutomaton, st, tActionIn(Last(st), s, j))
         /\ ~(tActionIn(Last(st), s, j) > LA_STATE_OFFSET)
<1>1. PICK state : state = st[Len(st)]
  OBVIOUS
<1>2. state \in StatesOf(LRAutomaton) /\ Last(st) = state
  BY <1>1, TopIsAState
<1>3. PICK f : /\ LooksUpTo(f, state, s, j, MAX_LA - 1)
               /\ tActionIn(state, s, j) = f[MAX_LA - 1]
  BY tActionInRuns
<1>4. PICK Q : Q = {k \in Nat : k <= MAX_LA - 1 =>
                     \/ <<state, k + 1, f[k]>> \in LRAutomaton.actions
                     \/ /\ ~(f[k] > LA_STATE_OFFSET)
                        /\ \E n \in Nat : <<state, n, f[k]>> \in LRAutomaton.actions}
  OBVIOUS
<1>5. /\ MAX_LA \in Nat \ {0}
      /\ \A n \in 1 .. Len(s) : s[n] \in LRAutomaton.terminals
      /\ \A k \in 0 .. MAX_LA - 1 : LookedUp(f, state, s, j, k)
      /\ ActionsAreThere(LRAutomaton)
  BY <1>3, TableAssumption DEF LooksUpTo, IsAutomaton
<1>6. 0 \in Q
  <2>1. f[0] = tableAction(state, s[j + 1])
    <3>1. 0 \in 0 .. MAX_LA - 1
      BY <1>5
    <3>2. LookedUp(f, state, s, j, 0)
      BY <1>5, <3>1
    <3> QED
      BY ONLY <3>2 DEF LookedUp
  <2>2. s[j + 1] \in LRAutomaton.terminals
    BY <1>5
  <2>3. <<state, 1, tableAction(state, s[j + 1])>> \in LRAutomaton.actions
    BY <1>2, <1>5, <2>2 DEF ActionsAreThere
  <2> QED
    BY <1>4, <2>1, <2>3
<1>7. ASSUME NEW k \in Nat, k \in Q PROVE k + 1 \in Q
  <2>1. SUFFICES ASSUME k + 1 <= MAX_LA - 1
                 PROVE  \/ <<state, k + 2, f[k + 1]>> \in LRAutomaton.actions
                        \/ /\ ~(f[k + 1] > LA_STATE_OFFSET)
                           /\ \E n \in Nat : <<state, n, f[k + 1]>> \in LRAutomaton.actions
    BY <1>4
  <2>2. \/ <<state, k + 1, f[k]>> \in LRAutomaton.actions
        \/ /\ ~(f[k] > LA_STATE_OFFSET)
           /\ \E n \in Nat : <<state, n, f[k]>> \in LRAutomaton.actions
    BY <1>4, <1>5, <1>7, <2>1
  <2>3. f[k + 1] = IF f[k] > LA_STATE_OFFSET
                   THEN lookAhead(f[k] - LA_STATE_OFFSET, s[((j + (k + 1)) % Len(s)) + 1])
                   ELSE f[k]
    <3>1. k + 1 \in 0 .. MAX_LA - 1 /\ k + 1 # 0 /\ (k + 1) - 1 = k
      <4>1. MAX_LA \in Int
        BY <1>5
      <4> QED
        BY ONLY k \in Nat, <2>1, <4>1
    <3>2. LookedUp(f, state, s, j, k + 1)
      BY <1>5, <3>1
    <3> QED
      BY <3>1, <3>2 DEF LookedUp
  <2>4. CASE ~(f[k] > LA_STATE_OFFSET)
    <3>1. \E n \in Nat : <<state, n, f[k]>> \in LRAutomaton.actions
      <4>1. k + 1 \in Nat
        OBVIOUS
      <4> QED
        BY <2>2, <4>1
    <3> QED
      BY <2>3, <2>4, <3>1
  <2>5. CASE f[k] > LA_STATE_OFFSET
    <3>1. PICK t : t = s[((j + (k + 1)) % Len(s)) + 1]
      OBVIOUS
    <3>2. t \in LRAutomaton.terminals
      <4>1. PICK n \in Nat : n = Len(s) /\ n > 0
        OBVIOUS
      <4>2. ((j + (k + 1)) % n) + 1 \in 1 .. n
        BY <4>1
      <4> QED
        BY <1>5, <3>1, <4>1, <4>2
    <3>3. PICK x : x = <<state, k + 1, f[k]>>
      OBVIOUS
    <3>4. x \in LRAutomaton.actions /\ x[1] = state /\ x[2] = k + 1 /\ x[3] = f[k]
      BY <2>2, <2>5, <3>3
    <3>5. <<x[1], x[2] + 1, lookAhead(x[3] - LA_STATE_OFFSET, t)>> \in LRAutomaton.actions
      BY <1>5, <2>5, <3>2, <3>4 DEF ActionsAreThere
    <3>6. f[k + 1] = lookAhead(x[3] - LA_STATE_OFFSET, t)
      BY <2>3, <2>5, <3>1, <3>4
    <3>7. x[2] + 1 = k + 2
      BY <3>4
    <3> QED
      BY <3>4, <3>5, <3>6, <3>7
  <2> QED
    BY <2>4, <2>5
<1>8. MAX_LA - 1 \in Q
  <2>1. Nat \subseteq Q
    BY ONLY <1>6, <1>7, NatSetInduction
  <2> QED
    BY <1>5, <2>1
<1>9. PICK last : last = f[MAX_LA - 1]
  OBVIOUS
<1>10. \/ <<state, MAX_LA, last>> \in LRAutomaton.actions
       \/ /\ ~(last > LA_STATE_OFFSET)
          /\ \E n \in Nat : <<state, n, last>> \in LRAutomaton.actions
  <2>1. MAX_LA - 1 <= MAX_LA - 1 /\ (MAX_LA - 1) + 1 = MAX_LA
    BY <1>5
  <2> QED
    BY <1>4, <1>8, <1>9, <2>1
<1>11. <<state, MAX_LA, last>> \in LRAutomaton.actions => ~(last > LA_STATE_OFFSET)
  <2>1. SUFFICES ASSUME <<state, MAX_LA, last>> \in LRAutomaton.actions, last > LA_STATE_OFFSET
                 PROVE  FALSE
    OBVIOUS
  <2>2. PICK x : x = <<state, MAX_LA, last>>
    OBVIOUS
  <2>3. MAX_LA < LRAutomaton.lookahead
    BY <1>5, <2>1, <2>2 DEF ActionsAreThere
  <2>4. LRAutomaton.lookahead \in Nat /\ LRAutomaton.lookahead <= MAX_LA
    BY TableAssumption DEF IsAutomaton, AutomatonTypes
  <2> QED
    BY <1>5, <2>3, <2>4
<1> QED
  BY <1>1, <1>2, <1>3, <1>5, <1>9, <1>10, <1>11 DEF Answers

(* What needs no lookahead is what the table says.                         *)
LEMMA tActionInAtOnce ==
  ASSUME NEW state, NEW s, NEW j, ~(tableAction(state, s[j + 1]) > LA_STATE_OFFSET)
  PROVE  tActionIn(state, s, j) = tableAction(state, s[j + 1])
<1>1. PICK act : act = tableAction(state, s[j + 1])
  OBVIOUS
<1>2. PICK f : /\ LooksUpTo(f, state, s, j, MAX_LA - 1)
               /\ tActionIn(state, s, j) = f[MAX_LA - 1]
  BY tActionInRuns
<1>3. /\ MAX_LA \in Nat \ {0}
      /\ \A k \in 0 .. MAX_LA - 1 : LookedUp(f, state, s, j, k)
  BY <1>2, TableAssumption DEF LooksUpTo
<1>4. PICK Q : Q = {k \in Nat : k <= MAX_LA - 1 => f[k] = act}
  OBVIOUS
<1>5. 0 \in Q
  BY <1>1, <1>3, <1>4 DEF LookedUp
<1>6. ASSUME NEW k \in Nat, k \in Q PROVE k + 1 \in Q
  <2>1. SUFFICES ASSUME k + 1 <= MAX_LA - 1 PROVE f[k + 1] = act
    BY <1>4
  <2>2. k + 1 \in 0 .. MAX_LA - 1 /\ k + 1 # 0 /\ (k + 1) - 1 = k /\ k <= MAX_LA - 1
    BY <1>3, <2>1
  <2>3. LookedUp(f, state, s, j, k + 1) /\ f[k] = act
    BY <1>3, <1>4, <1>6, <2>2
  <2> QED
    BY <1>1, <2>2, <2>3 DEF LookedUp
<1>7. MAX_LA - 1 \in Q /\ MAX_LA - 1 <= MAX_LA - 1
  BY <1>3, <1>5, <1>6, NatSetInduction
<1> QED
  BY <1>1, <1>2, <1>4, <1>7

-----------------------------------------------------------------------------
(* Behind the dummy token are tokens that the table knows.                 *)
Begins(s) ==
  s \in Seq(Int) /\ Len(s) >= 1 /\ \A n \in 2 .. Len(s) : s[n] \in LRAutomaton.terminals

StreamInv ==
  markerKind \in Markers /\ Begins(kinds) /\ len = Len(kinds) /\ len >= 2

(* Between two calls the stack is a path of the automaton.  Only the       *)
(* marker is tried before the first token.                                 *)
StackInv ==
  pc \in {"ready", "simulate", "refused"} =>
    /\ IsViable(LRAutomaton, stack)
    /\ offered \in Nat
    /\ offered = 0 => pc = "simulate" /\ IsShift(currentAction)

(* So is the simulated one, and the table has answered in its top state.   *)
(* The simulation has written what it is about to read.                    *)
TrialInv ==
  pc = "simulate" =>
    /\ sym \in Seq(LRAutomaton.terminals) /\ at \in 0 .. Len(sym) - 1
    /\ location_top \in Nat /\ pos \in Nat
    /\ pos + 1 .. location_top + 1 \subseteq DOMAIN locationStack
    /\ IsViable(LRAutomaton, Simulated)
    /\ Answers(LRAutomaton, Simulated, currentAction)
    /\ ~(currentAction > LA_STATE_OFFSET)
    /\ Simulated = StackAfter(stack, SubSeq(action, save_action_length + 1, Len(action)))

(* A log builds stack s and has taken the tokens before the one offered.   *)
Describes(log, s) == StackAfter(Started, log) = s /\ TokenAt(TokensTaken(log)) = offered

DescribedInv ==
  /\ pc \in {"ready", "refused"} /\ ~stale => Describes(action, stack)
  /\ pc = "simulate" /\ ~stale => Describes(action, Simulated) /\ Describes(before[2], stack)

StacksInv == StreamInv /\ StackInv /\ TrialInv /\ DescribedInv

(* What begins to be tried is the stack itself.                            *)
LEMMA StartParseTries ==
  ASSUME NEW st, NEW log \in Seq(Int), NEW s \in Seq(LRAutomaton.terminals),
         NEW j \in 0 .. Len(s) - 1, IsViable(LRAutomaton, st),
         StartParse(st, log, s, j), stack' = st, action' = log
  PROVE  TrialInv' /\ Simulated' = st
<1>1. /\ sym' = s /\ at' = j /\ save_action_length' = Len(log)
      /\ pos' = Len(st) /\ location_top' = Len(st) - 1
      /\ currentAction' = tActionIn(Last(st), s, j)
  BY DEF StartParse
<1>2. st \in Seq(Int) /\ Len(st) \in Nat /\ Len(st) > 0
  BY DEF IsViable
<1>3. Simulated' = [p \in 1 .. Len(st) |-> st[p]]
  BY <1>1, <1>2 DEF Simulated, StateAt
<1>4. Simulated' = st
  BY <1>2, <1>3
<1>5. Answers(LRAutomaton, st, currentAction') /\ ~(currentAction' > LA_STATE_OFFSET)
  BY <1>1, tActionInAnswers
<1>6. st = StackAfter(st, SubSeq(log, Len(log) + 1, Len(log)))
  <2>1. SubSeq(log, Len(log) + 1, Len(log)) = << >>
    OBVIOUS
  <2> QED
    BY <2>1, StackAfterNothing
<1>7. /\ location_top' \in Nat /\ pos' \in Nat
      /\ pos' + 1 .. location_top' + 1 \subseteq DOMAIN locationStack'
  BY <1>1, <1>2
<1>8. sym' \in Seq(LRAutomaton.terminals) /\ at' \in 0 .. Len(sym') - 1
  BY <1>1
<1>9. /\ IsViable(LRAutomaton, Simulated')
      /\ Answers(LRAutomaton, Simulated', currentAction')
      /\ ~(currentAction' > LA_STATE_OFFSET)
      /\ Simulated' = StackAfter(stack', SubSeq(action', save_action_length' + 1, Len(action')))
  BY <1>1, <1>4, <1>5, <1>6
<1> QED
  BY <1>4, <1>7, <1>8, <1>9 DEF TrialInv

(* The first token is the marker, if there is one.                         *)
LEMMA NothingIsTaken ==
  /\ StackAfter(Started, << >>) = Started
  /\ TokenAt(TokensTaken(<< >>)) = IF markerKind = 0 THEN 1 ELSE 0
  BY StackAfterNothing, TokensTakenByNothing DEF TokenAt

(* To reset the parser begins with the stack that holds the start state,   *)
(* and tries the marker there.                                             *)
LEMMA ResetKeepsStacks ==
  ASSUME markerKind \in Markers, UNCHANGED markerKind, resetParserEntry,
         offered' = IF markerKind = 0 THEN 1 ELSE 0
  PROVE  StackInv' /\ TrialInv' /\ DescribedInv'
<1>1. /\ stack' = Started /\ action' = << >> /\ << >> \in Seq(Int)
      /\ IsViable(LRAutomaton, Started) /\ Started \in Seq(Int)
  BY StartIsViable DEF resetParserEntry, Started, IsViable
<1>2. /\ StackAfter(Started, << >>) = Started
      /\ TokenAt(TokensTaken(<< >>))' = offered'
  <2>1. TokensTaken(<< >>) = 0
    BY TokensTakenByNothing
  <2> QED
    BY <2>1, NothingIsTaken DEF TokenAt
<1>3. CASE markerKind = 0
  <2>1. pc' = "ready" /\ offered' = 1
    BY <1>3 DEF resetParserEntry
  <2>2. StackInv'
    BY <1>1, <2>1 DEF StackInv
  <2>3. TrialInv'
    BY <2>1 DEF TrialInv
  <2>4. DescribedInv'
    BY <1>1, <1>2, <2>1 DEF DescribedInv, Describes
  <2> QED
    BY <2>2, <2>3, <2>4
<1>4. CASE markerKind # 0
  <2>1. PICK s : s = <<markerKind>>
    OBVIOUS
  <2>2. /\ s \in Seq(LRAutomaton.terminals) /\ 0 \in 0 .. Len(s) - 1 /\ s[0 + 1] = markerKind
        /\ IsShift(tableAction(START_STATE, markerKind))
    <3>1. /\ markerKind \in LRAutomaton.terminals
          /\ IsShift(tableAction(START_STATE, markerKind))
      BY <1>4, TableAssumption
    <3>2. Len(s) = 1 /\ s[1] = markerKind /\ 0 + 1 = 1
      BY <2>1
    <3>3. s \in Seq(LRAutomaton.terminals)
      <4>1. PICK m : m = markerKind
        OBVIOUS
      <4>2. PICK T : T = LRAutomaton.terminals
        OBVIOUS
      <4>3. m \in T
        BY ONLY <3>1, <4>1, <4>2
      <4>4. Append(<< >>, m) \in Seq(T) /\ Append(<< >>, m) = <<m>>
        BY ONLY <4>3
      <4> QED
        BY ONLY <2>1, <4>1, <4>2, <4>4
    <3> QED
      BY <3>1, <3>2, <3>3
  <2>3. StartParse(Started, << >>, s, 0)
    BY <1>4, <2>1 DEF resetParserEntry
  <2>4. TrialInv' /\ Simulated' = Started
    BY <1>1, <2>2, <2>3, StartParseTries
  <2>5. /\ pc' = "simulate" /\ before' = <<Started, << >>>>
        /\ currentAction' = tActionIn(Last(Started), s, 0)
    BY <2>3 DEF StartParse
  <2>6. IsShift(currentAction')
    <3>1. Last(Started) = START_STATE
      BY TopIsAState, <1>1 DEF Started
    <3>2. ~(tableAction(START_STATE, s[0 + 1]) > LA_STATE_OFFSET)
      BY <2>2, LayoutAssumption DEF IsShift
    <3>3. tActionIn(START_STATE, s, 0) = tableAction(START_STATE, s[0 + 1])
      BY <3>2, tActionInAtOnce
    <3> QED
      BY <2>2, <2>5, <3>1, <3>3
  <2>7. StackInv'
    <3>1. offered' = 0
      BY <1>4
    <3> QED
      BY <1>1, <2>5, <2>6, <3>1 DEF StackInv, IsShift
  <2>8. DescribedInv'
    <3>1. before'[2] = << >>
      BY <2>5
    <3> QED
      BY <1>1, <1>2, <2>4, <2>5, <3>1 DEF DescribedInv, Describes
  <2> QED
    BY <2>4, <2>7, <2>8
<1> QED
  BY <1>3, <1>4

(* What is offered are tokens of the stream, EOF again and again.          *)
LEMMA BufferHoldsTokens ==
  ASSUME StreamInv, offered \in Nat, offered # 0
  PROVE  /\ Buffer \in Seq(LRAutomaton.terminals)
         /\ (offered - 1) % MAX_LA \in 0 .. Len(Buffer) - 1
<1>1. MAX_LA \in Nat \ {0}
  BY TableAssumption
<1>2. ASSUME NEW k \in 1 .. MAX_LA
      PROVE  LET n == offered + ((k - offered) % MAX_LA)
             IN  getKind(IF n < len THEN n ELSE len - 1) \in LRAutomaton.terminals
  <2>1. PICK n \in Nat : n = offered + ((k - offered) % MAX_LA) /\ n >= 1
    <3>1. (k - offered) % MAX_LA \in 0 .. MAX_LA - 1
      BY <1>1
    <3> QED
      BY <3>1
  <2>2. PICK m \in 1 .. len - 1 : m = IF n < len THEN n ELSE len - 1
    <3>1. len \in Nat /\ len >= 2
      BY DEF StreamInv, Begins
    <3> QED
      BY <2>1, <3>1
  <2>3. m + 1 \in 2 .. len
    BY DEF StreamInv, Begins
  <2> QED
    BY <2>1, <2>2, <2>3 DEF StreamInv, Begins, getKind
<1>3. PICK b : b = Buffer
  OBVIOUS
<1>4. b \in [1 .. MAX_LA -> LRAutomaton.terminals]
  BY <1>2, <1>3 DEF Buffer
<1>5. b \in Seq(LRAutomaton.terminals) /\ Len(b) = MAX_LA
  BY <1>1, <1>4
<1> QED
  BY <1>1, <1>3, <1>5

LEMMA OfferKeepsStacks ==
  ASSUME StacksInv, LogInv, Offer
  PROVE  StacksInv'
<1>1. /\ pc = "ready" /\ pc' = "simulate"
      /\ StartParse(stack, action, Buffer, (offered - 1) % MAX_LA)
      /\ UNCHANGED <<stack, action, offered, stale, kinds, len, markerKind>>
      /\ before' = <<stack, action>>
  BY DEF Offer, StartParse, stream, client
<1>2. /\ IsViable(LRAutomaton, stack) /\ offered \in Nat /\ offered # 0
      /\ StreamInv /\ action \in Seq(Int)
  BY <1>1 DEF StacksInv, StackInv, LogInv
<1>3. PICK b : b = Buffer
  OBVIOUS
<1>4. PICK j : j = (offered - 1) % MAX_LA
  OBVIOUS
<1>5. b \in Seq(LRAutomaton.terminals) /\ j \in 0 .. Len(b) - 1
  BY <1>2, <1>3, <1>4, BufferHoldsTokens
<1>6. StartParse(stack, action, b, j)
  BY <1>1, <1>3, <1>4
<1>7. TrialInv' /\ Simulated' = stack
  BY <1>1, <1>2, <1>5, <1>6, StartParseTries
<1>8. StreamInv'
  BY <1>1, <1>2 DEF StreamInv
<1>9. StackInv'
  BY <1>1, <1>2 DEF StackInv
<1>10. DescribedInv'
  <2>1. ~stale' => Describes(action, stack)
    BY <1>1 DEF StacksInv, DescribedInv
  <2>2. before'[2] = action
    BY <1>1
  <2> QED
    BY <1>1, <1>7, <2>1, <2>2 DEF DescribedInv, Describes, TokenAt
<1> QED
  BY <1>7, <1>8, <1>9, <1>10 DEF StacksInv

(* What the simulation writes, and what it leaves alone, is the stack that *)
(* the reductions make of the simulated one.                               *)
LEMMA SimulateWritesTheStack ==
  ASSUME TrialInv, SimulateReduce
  PROVE  /\ Simulated' = AfterReduce(Simulated, currentAction)
         /\ IsViable(LRAutomaton, AfterReduce(Simulated, currentAction))
         /\ location_top' \in Nat /\ pos' \in Nat
         /\ pos' + 1 .. location_top' + 1 \subseteq DOMAIN locationStack'
         /\ currentAction' = tActionIn(Last(AfterReduce(Simulated, currentAction)), sym, at)
<1>1. PICK s : s = Simulated
  OBVIOUS
<1>2. PICK r : r = Reached(s, location_top, currentAction)
  OBVIOUS
<1>3. /\ pc = "simulate" /\ IsReduce(currentAction)
      /\ location_top' = r[1]
      /\ pos' = Smaller(pos, r[1])
      /\ locationStack' = Written(locationStack, r[1] + 1, r[2])
      /\ currentAction' = tActionIn(r[2], sym, at)
      /\ UNCHANGED stack
  BY <1>1, <1>2 DEF SimulateReduce, Simulate
<1>4. /\ IsViable(LRAutomaton, s) /\ Answers(LRAutomaton, s, currentAction)
      /\ location_top \in Nat /\ pos \in Nat
      /\ pos + 1 .. location_top + 1 \subseteq DOMAIN locationStack
  BY <1>1, <1>3 DEF TrialInv
<1>5. /\ s \in Seq(Int) /\ Len(s) = location_top + 1
      /\ \A p \in 1 .. location_top + 1 : s[p] = StateAt(p)
  BY <1>1, <1>4 DEF Simulated, IsViable
<1>6. PICK t : t = AfterReduce(s, currentAction)
  OBVIOUS
<1>7. /\ Arrives(LRAutomaton, s, Len(s), r)
      /\ t = Append(SubSeq(s, 1, r[1]), r[2])
      /\ IsViable(LRAutomaton, t)
  <2>1. Len(s) - 1 = location_top
    BY <1>4, <1>5
  <2>2. r = Reached(s, Len(s) - 1, currentAction)
    BY <1>2, <2>1
  <2>3. IsAutomaton(LRAutomaton)
    BY TableAssumption
  <2> QED
    BY <1>3, <1>4, <1>6, <2>2, <2>3, ReduceArrives
<1>8. PICK u \in 1 .. location_top + 1 : u = r[1]
  BY <1>5, <1>7 DEF Arrives
<1>9. PICK st : st = r[2]
  OBVIOUS
<1>10. /\ t \in Seq(Int) /\ Len(t) = u + 1 /\ t[u + 1] = st
       /\ \A p \in 1 .. u : t[p] = s[p]
  <2>1. t \in Seq(Int)
    BY <1>7 DEF IsViable
  <2>2. st \in Int
    <3>1. <<s[r[1]], r[2]>> \in LRAutomaton.edges
      BY <1>7 DEF Arrives
    <3> QED
      BY <1>9, <3>1, TableAssumption DEF IsAutomaton, AutomatonTypes
  <2>3. t = Append(SubSeq(s, 1, u), st)
    BY <1>7, <1>8, <1>9
  <2> QED
    BY <1>4, <1>5, <2>1, <2>2, <2>3
<1>11. PICK new : new = locationStack'
  OBVIOUS
<1>12. /\ DOMAIN new = DOMAIN locationStack \cup {u + 1}
       /\ \A q \in DOMAIN new : new[q] = IF q = u + 1 THEN st ELSE locationStack[q]
  BY <1>3, <1>8, <1>9, <1>11 DEF Written
<1>13. PICK low \in Nat : low = pos' /\ low = IF pos < u THEN pos ELSE u
  BY <1>3, <1>4, <1>8 DEF Smaller
<1>14. low + 1 .. u + 1 \subseteq DOMAIN new
  <2>1. SUFFICES ASSUME NEW q \in low + 1 .. u + 1, q # u + 1 PROVE q \in DOMAIN locationStack
    BY <1>12
  <2>2. q \in pos + 1 .. location_top + 1
    BY <1>4, <1>13, <2>1
  <2> QED
    BY <1>4, <2>2
<1>15. Simulated' = [p \in 1 .. u + 1 |-> IF p > low THEN new[p] ELSE stack[p]]
  BY <1>3, <1>8, <1>11, <1>13 DEF Simulated, StateAt
<1>16. ASSUME NEW p \in 1 .. u + 1
       PROVE  t[p] = IF p > low THEN new[p] ELSE stack[p]
  <2>1. CASE p = u + 1
    <3>1. p > low /\ p \in DOMAIN new
      BY <1>12, <1>13, <2>1
    <3> QED
      BY <1>10, <1>12, <2>1, <3>1
  <2>2. CASE p # u + 1
    <3>1. p \in 1 .. u /\ p \in 1 .. location_top + 1 /\ (p > low <=> p > pos)
      BY <1>4, <1>13, <2>2
    <3>2. t[p] = s[p] /\ s[p] = IF p > pos THEN locationStack[p] ELSE stack[p]
      BY <1>5, <1>10, <3>1 DEF StateAt
    <3>3. CASE p > low
      <4>1. p \in low + 1 .. u + 1
        BY <1>13, <3>3
      <4>2. new[p] = locationStack[p]
        BY <1>12, <1>14, <2>2, <4>1
      <4> QED
        BY <3>1, <3>2, <3>3, <4>2
    <3>4. CASE ~(p > low)
      BY <3>1, <3>2, <3>4
    <3> QED
      BY <3>3, <3>4
  <2> QED
    BY <2>1, <2>2
<1>17. Simulated' = t
  <2>1. t = [p \in 1 .. u + 1 |-> t[p]]
    BY <1>10
  <2> QED
    BY <1>15, <1>16, <2>1
<1>18. Last(t) = st
  BY <1>10 DEF Last
<1> QED
  BY <1>1, <1>3, <1>6, <1>7, <1>8, <1>9, <1>11, <1>13, <1>14, <1>17, <1>18

(* The end of a log, when an action is appended.                           *)
LEMMA AppendExtendsEnd ==
  ASSUME NEW s \in Seq(Int), NEW x \in Int, NEW n \in Nat, n <= Len(s)
  PROVE  /\ SubSeq(s, n + 1, Len(s)) \in Seq(Int)
         /\ SubSeq(Append(s, x), n + 1, Len(Append(s, x))) = Append(SubSeq(s, n + 1, Len(s)), x)
<1>1. PICK old : old = SubSeq(s, n + 1, Len(s))
  OBVIOUS
<1>2. PICK more : more = Append(s, x)
  OBVIOUS
<1>3. PICK l \in Nat : l = Len(s)
  OBVIOUS
<1>4. PICK new : new = SubSeq(more, n + 1, l + 1)
  OBVIOUS
<1>5. /\ more \in Seq(Int) /\ Len(more) = l + 1 /\ more[l + 1] = x
      /\ \A k \in 1 .. l : more[k] = s[k]
  BY <1>2, <1>3, AppendProperties
<1>6. /\ old \in Seq(Int) /\ Len(old) = l - n
      /\ \A k \in 1 .. l - n : old[k] = s[n + k]
  <2>1. \A k \in n + 1 .. l : s[k] \in Int
    BY <1>3
  <2>2. /\ old \in Seq(Int) /\ Len(old) = IF n + 1 <= l THEN l - (n + 1) + 1 ELSE 0
        /\ \A k \in 1 .. l - (n + 1) + 1 : old[k] = s[n + 1 + k - 1]
    BY <1>1, <1>3, <2>1, SubSeqProperties
  <2>3. l - (n + 1) + 1 = l - n /\ \A k \in Int : n + 1 + k - 1 = n + k
    OBVIOUS
  <2> QED
    BY <1>3, <2>2, <2>3
<1>7. /\ new \in Seq(Int) /\ Len(new) = l + 1 - n
      /\ \A k \in 1 .. l + 1 - n : new[k] = more[n + k]
  <2>0. n + 1 \in Int /\ l + 1 \in Int
    OBVIOUS
  <2>1. \A k \in n + 1 .. l + 1 : more[k] \in Int
    BY <1>5
  <2>2. /\ new \in Seq(Int) /\ Len(new) = IF n + 1 <= l + 1 THEN l + 1 - (n + 1) + 1 ELSE 0
        /\ \A k \in 1 .. l + 1 - (n + 1) + 1 : new[k] = more[n + 1 + k - 1]
    BY ONLY <1>4, <2>0, <2>1, SubSeqProperties
  <2>3. l + 1 - (n + 1) + 1 = l + 1 - n /\ \A k \in Int : n + 1 + k - 1 = n + k
    OBVIOUS
  <2> QED
    BY <1>3, <2>2, <2>3
<1>8. PICK both : both = Append(old, x)
  OBVIOUS
<1>9. /\ both \in Seq(Int) /\ Len(both) = l - n + 1 /\ both[l - n + 1] = x
      /\ \A k \in 1 .. l - n : both[k] = old[k]
  BY <1>6, <1>8, AppendProperties
<1>10. ASSUME NEW k \in 1 .. l + 1 - n PROVE new[k] = both[k]
  <2>1. CASE k = l + 1 - n
    <3>1. n + k = l + 1 /\ k = l - n + 1
      BY <1>3, <2>1
    <3> QED
      BY <1>5, <1>7, <1>9, <3>1
  <2>2. CASE k # l + 1 - n
    <3>1. k \in 1 .. l - n /\ n + k \in 1 .. l
      BY <1>3, <2>2
    <3> QED
      BY <1>5, <1>6, <1>7, <1>9, <3>1
  <2> QED
    BY <2>1, <2>2
<1>11. new = both
  <2>1. Len(new) = Len(both) /\ \A k \in 1 .. Len(new) : new[k] = both[k]
    BY <1>7, <1>9, <1>10
  <2> QED
    BY <1>7, <1>9, <2>1, SeqEqual
<1> QED
  BY <1>1, <1>2, <1>3, <1>4, <1>5, <1>6, <1>8, <1>11

LEMMA SimulateReduceKeepsStacks ==
  ASSUME StacksInv, IInv, SimulateReduce
  PROVE  StacksInv'
<1>1. PICK s : s = Simulated
  OBVIOUS
<1>2. PICK act : act = currentAction
  OBVIOUS
<1>3. PICK t : t = AfterReduce(s, act)
  OBVIOUS
<1>4. /\ pc = "simulate" /\ pc' = "simulate" /\ IsReduce(act) /\ act \in Int
      /\ action' = Append(action, act) /\ action \in Seq(Int)
      /\ UNCHANGED <<stack, kinds, len, markerKind, offered, sym, at, save_action_length,
                     before, stale>>
  BY <1>2 DEF SimulateReduce, stream, client, history, IInv, LogInv, IsReduce
<1>5. /\ TrialInv /\ StreamInv
      /\ IsViable(LRAutomaton, stack) /\ offered \in Nat
      /\ s = StackAfter(stack, SubSeq(action, save_action_length + 1, Len(action)))
      /\ offered # 0
      /\ ~stale => Describes(action, s) /\ Describes(before[2], stack)
  <2>1. offered # 0
    <3>1. ~IsShift(currentAction)
      BY <1>2, <1>4, LayoutAssumption DEF IsReduce, IsShift
    <3> QED
      BY <1>4, <3>1 DEF StacksInv, StackInv
  <2> QED
    BY <1>1, <1>4, <2>1 DEF StacksInv, StackInv, TrialInv, DescribedInv
<1>6. /\ Simulated' = t /\ IsViable(LRAutomaton, t)
      /\ location_top' \in Nat /\ pos' \in Nat
      /\ pos' + 1 .. location_top' + 1 \subseteq DOMAIN locationStack'
      /\ currentAction' = tActionIn(Last(t), sym, at)
  BY <1>1, <1>2, <1>3, <1>5, SimulateWritesTheStack
<1>7. /\ sym \in Seq(LRAutomaton.terminals) /\ at \in 0 .. Len(sym) - 1
  BY <1>4, <1>5 DEF TrialInv
<1>8. Answers(LRAutomaton, t, currentAction') /\ ~(currentAction' > LA_STATE_OFFSET)
  BY <1>6, <1>7, tActionInAnswers
<1>9. t = StackAfter(stack, SubSeq(action', save_action_length + 1, Len(action')))
  <2>1. PICK n \in Nat : n = save_action_length /\ n <= Len(action)
    BY <1>4 DEF IInv, SimulationInv
  <2>2. PICK log : log = SubSeq(action, n + 1, Len(action))
    OBVIOUS
  <2>3. log \in Seq(Int) /\ SubSeq(action', n + 1, Len(action')) = Append(log, act)
    BY <1>4, <2>1, <2>2, AppendExtendsEnd
  <2>4. StackAfter(stack, Append(log, act)) = AfterAction(StackAfter(stack, log), act)
    BY <1>4, <2>3, StackAfterOneMore
  <2>5. s = StackAfter(stack, log)
    BY <1>5, <2>1, <2>2
  <2> QED
    BY <1>3, <1>4, <2>1, <2>3, <2>4, <2>5, ActionTaken
<1>10. TrialInv'
  <2>1. /\ IsViable(LRAutomaton, Simulated')
        /\ Answers(LRAutomaton, Simulated', currentAction')
        /\ ~(currentAction' > LA_STATE_OFFSET)
        /\ Simulated' = StackAfter(stack', SubSeq(action', save_action_length' + 1, Len(action')))
    BY <1>4, <1>6, <1>8, <1>9
  <2> QED
    BY <1>4, <1>6, <1>7, <2>1 DEF TrialInv
<1>11. StreamInv' /\ StackInv'
  BY <1>4, <1>5 DEF StreamInv, StackInv
<1>12. DescribedInv'
  <2>1. SUFFICES ASSUME ~stale
                 PROVE  /\ StackAfter(Started, action') = t
                        /\ TokenAt(TokensTaken(action')) = offered
    BY <1>4, <1>5, <1>6 DEF DescribedInv, Describes, TokenAt
  <2>2. /\ StackAfter(Started, action') = AfterAction(StackAfter(Started, action), act)
        /\ TokensTaken(action') = TokensTaken(action)
    BY <1>4, StackAfterOneMore, TokensTakenByOneMore
  <2> QED
    BY <1>3, <1>4, <1>5, <2>1, <2>2, ActionTaken DEF Describes
<1> QED
  BY <1>10, <1>11, <1>12 DEF StacksInv

LEMMA AdvanceKeepsStacks ==
  ASSUME StacksInv, IInv, Advance
  PROVE  StacksInv'
<1>1. PICK s : s = Simulated
  OBVIOUS
<1>2. PICK act : act = currentAction
  OBVIOUS
<1>3. PICK t : t = AfterAction(s, act)
  OBVIOUS
<1>4. /\ pc = "simulate" /\ pc' = "ready" /\ (IsShift(act) \/ IsShiftReduce(act))
      /\ act \in Int /\ ~IsReduce(act)
      /\ stack' = t /\ offered' = offered + 1
      /\ action' = Append(action, act) /\ action \in Seq(Int)
      /\ UNCHANGED <<kinds, len, markerKind, stale>>
  BY <1>1, <1>2, <1>3, LayoutAssumption
  DEF Advance, stream, history, IInv, LogInv, IsShift, IsShiftReduce, IsReduce
<1>5. /\ IsViable(LRAutomaton, s) /\ Answers(LRAutomaton, s, act)
      /\ StreamInv /\ offered \in Nat
      /\ ~stale => Describes(action, s)
  BY <1>1, <1>2, <1>4 DEF StacksInv, TrialInv, StackInv, DescribedInv
<1>6. IsViable(LRAutomaton, t)
  BY <1>3, <1>4, <1>5, AnswersAreViable, TableAssumption
<1>7. StreamInv' /\ StackInv' /\ TrialInv'
  BY <1>4, <1>5, <1>6 DEF StreamInv, StackInv, TrialInv
<1>8. DescribedInv'
  <2>1. SUFFICES ASSUME ~stale
                 PROVE  /\ StackAfter(Started, action') = t
                        /\ TokenAt(TokensTaken(action')) = offered + 1
    BY <1>4 DEF DescribedInv, Describes, TokenAt
  <2>2. /\ StackAfter(Started, action') = AfterAction(StackAfter(Started, action), act)
        /\ TokensTaken(action) \in Nat /\ TokensTaken(action') = TokensTaken(action) + 1
    BY <1>4, StackAfterOneMore, TokensTakenByOneMore
  <2>3. TokenAt(TokensTaken(action')) = TokenAt(TokensTaken(action)) + 1
    BY <2>2 DEF TokenAt
  <2> QED
    BY <1>3, <1>5, <2>1, <2>2, <2>3 DEF Describes
<1> QED
  BY <1>7, <1>8 DEF StacksInv

LEMMA RefusedKeepsStacks ==
  ASSUME StacksInv, IInv, Refused
  PROVE  StacksInv'
<1>1. /\ pc = "simulate" /\ pc' = "refused" /\ currentAction = ERROR_ACTION
      /\ action' = SubSeq(action, 1, save_action_length)
      /\ UNCHANGED <<stack, kinds, len, markerKind, offered, stale>>
  BY DEF Refused, stream, client, history
<1>2. /\ action' = before[2] /\ ~IsShift(currentAction)
      /\ StreamInv /\ IsViable(LRAutomaton, stack) /\ offered \in Nat /\ offered # 0
      /\ ~stale => Describes(before[2], stack)
  <2>1. ~IsShift(currentAction)
    BY <1>1, LayoutAssumption DEF IsShift
  <2> QED
    BY <1>1, <2>1 DEF StacksInv, StackInv, DescribedInv, IInv, SimulationInv
<1>3. StreamInv' /\ StackInv' /\ TrialInv'
  BY <1>1, <1>2 DEF StreamInv, StackInv, TrialInv
<1>4. DescribedInv'
  BY <1>1, <1>2 DEF DescribedInv, Describes, TokenAt
<1> QED
  BY <1>3, <1>4 DEF StacksInv

-----------------------------------------------------------------------------
(* The streams that the client makes when it corrects one.                 *)
LEMMA BeginsAndGoesOn ==
  ASSUME NEW x, Begins(x), NEW y \in Seq(LRAutomaton.terminals)
  PROVE  Begins(x \o y) /\ Len(x \o y) = Len(x) + Len(y)
<1>1. x \in Seq(Int) /\ LRAutomaton.terminals \subseteq Int /\ y \in Seq(Int)
  BY TableAssumption DEF Begins
<1>2. PICK z : z = x \o y
  OBVIOUS
<1>3. /\ z \in Seq(Int) /\ Len(z) = Len(x) + Len(y)
      /\ \A n \in 1 .. Len(x) + Len(y) : z[n] = IF n <= Len(x) THEN x[n] ELSE y[n - Len(x)]
  BY <1>1, <1>2, ConcatProperties
<1>4. PICK l \in Nat : l = Len(x) /\ l >= 1
  BY DEF Begins
<1>5. PICK m \in Nat : m = Len(y)
  OBVIOUS
<1>6. ASSUME NEW n \in 2 .. l + m PROVE z[n] \in LRAutomaton.terminals
  <2>1. CASE n <= l
    <3>1. n \in 2 .. l /\ n \in 1 .. l + m
      BY <1>4, <2>1
    <3> QED
      BY <1>3, <1>4, <1>5, <2>1, <3>1 DEF Begins
  <2>2. CASE ~(n <= l)
    <3>1. n - l \in 1 .. m /\ n \in 1 .. l + m
      BY <1>4, <2>2
    <3>2. \A k \in 1 .. m : y[k] \in LRAutomaton.terminals
      BY <1>5
    <3>3. z[n] = y[n - l]
      BY <1>3, <1>4, <1>5, <2>2, <3>1
    <3> QED
      BY <3>1, <3>2, <3>3
  <2> QED
    BY <2>1, <2>2
<1> QED
  BY <1>2, <1>3, <1>4, <1>5, <1>6 DEF Begins

LEMMA PartsOfAStream ==
  ASSUME NEW s, Begins(s), NEW n \in 1 .. Len(s)
  PROVE  /\ Begins(SubSeq(s, 1, n)) /\ Len(SubSeq(s, 1, n)) = n
         /\ SubSeq(s, n + 1, Len(s)) \in Seq(LRAutomaton.terminals)
         /\ Len(SubSeq(s, n + 1, Len(s))) = Len(s) - n
<1>1. PICK l \in Nat : l = Len(s)
  BY DEF Begins
<1>2. PICK x : x = SubSeq(s, 1, n)
  OBVIOUS
<1>3. PICK y : y = SubSeq(s, n + 1, l)
  OBVIOUS
<1>4. /\ \A k \in 1 .. l : s[k] \in Int
      /\ \A k \in 2 .. l : s[k] \in LRAutomaton.terminals
      /\ n \in 1 .. l
  BY <1>1 DEF Begins
<1>5. /\ x \in Seq(Int) /\ Len(x) = n
      /\ \A k \in 1 .. n : x[k] = s[k]
  BY <1>1, <1>2, <1>4 DEF Begins
<1>6. Begins(x)
  <2>1. ASSUME NEW k \in 2 .. Len(x) PROVE x[k] \in LRAutomaton.terminals
    <3>1. k \in 1 .. n /\ k \in 2 .. l
      BY <1>4, <1>5
    <3> QED
      BY <1>4, <1>5, <3>1
  <2>2. Len(x) >= 1
    BY <1>4, <1>5
  <2> QED
    BY <1>5, <2>1, <2>2 DEF Begins
<1>7. y \in Seq(LRAutomaton.terminals) /\ Len(y) = l - n
  <2>1. PICK m \in Int : m = n + 1
    BY <1>4
  <2>2. \A k \in m .. l : s[k] \in LRAutomaton.terminals
    BY <1>4, <2>1
  <2>3. l \in Int /\ y = SubSeq(s, m, l)
    BY <1>3, <2>1
  <2>4. PICK T : T = LRAutomaton.terminals
    OBVIOUS
  <2>5. l \in Int /\ \A k \in m .. l : s[k] \in T
    BY <2>2, <2>4
  <2>6. /\ SubSeq(s, m, l) \in Seq(T)
        /\ Len(SubSeq(s, m, l)) = IF m <= l THEN l - m + 1 ELSE 0
    BY ONLY <2>1, <2>5, SubSeqProperties
  <2> QED
    BY <1>4, <2>1, <2>3, <2>4, <2>6
<1> QED
  BY <1>1, <1>2, <1>3, <1>5, <1>6, <1>7

(* A client that corrects the stream leaves the stacks alone.              *)
LEMMA CorrectKeepsStacks ==
  ASSUME StacksInv, Correct
  PROVE  StacksInv'
<1>1. /\ pc = "refused" /\ pc' = "ready" /\ offered \in 1 .. len - 1
      /\ UNCHANGED <<stack, action, offered, markerKind, stale>>
  BY DEF Correct, MayEdit, history
<1>2. /\ IsViable(LRAutomaton, stack) /\ Begins(kinds) /\ len = Len(kinds) /\ len \in Nat
      /\ markerKind \in Markers
      /\ ~stale => Describes(action, stack)
  BY <1>1 DEF StacksInv, StackInv, StreamInv, DescribedInv, Begins
<1>3. PICK n \in 1 .. len - 2 :
        \/ \E kind \in Corrections : NewStream([kinds EXCEPT ![n + 1] = kind])
        \/ NewStream(SubSeq(kinds, 1, n) \o SubSeq(kinds, n + 2, Len(kinds)))
  <2>1. PICK n \in {offered, offered + 1} :
          /\ n < len - 1
          /\ \/ \E kind \in Corrections : NewStream([kinds EXCEPT ![n + 1] = kind])
             \/ NewStream(SubSeq(kinds, 1, n) \o SubSeq(kinds, n + 2, Len(kinds)))
    BY DEF Correct
  <2>2. n \in 1 .. len - 2
    BY <1>1, <1>2, <2>1
  <2> QED
    BY <2>1, <2>2
<1>4. Begins(kinds') /\ len' = Len(kinds') /\ len' >= 2
  <2>1. ASSUME NEW kind \in Corrections, NewStream([kinds EXCEPT ![n + 1] = kind])
        PROVE  Begins(kinds') /\ len' = Len(kinds') /\ len' >= 2
    <3>1. kind \in LRAutomaton.terminals /\ kind \in Int
      BY TableAssumption
    <3>2. PICK s : s = [kinds EXCEPT ![n + 1] = kind]
      OBVIOUS
    <3>3. /\ s \in Seq(Int) /\ Len(s) = len
          /\ \A k \in 1 .. len : s[k] = IF k = n + 1 THEN kind ELSE kinds[k]
      BY <1>2, <3>1, <3>2 DEF Begins
    <3>4. kinds' = s /\ len' = Len(s)
      BY <2>1, <3>2 DEF NewStream
    <3>5. \A k \in 2 .. len : kinds[k] \in LRAutomaton.terminals
      BY <1>2 DEF Begins
    <3>6. \A k \in 2 .. Len(s) : s[k] \in LRAutomaton.terminals
      <4>1. SUFFICES ASSUME NEW k \in 2 .. Len(s) PROVE s[k] \in LRAutomaton.terminals
        OBVIOUS
      <4>2. k \in 2 .. len /\ k \in 1 .. len
        BY <1>2, <3>3
      <4> QED
        BY <3>1, <3>3, <3>5, <4>2
    <3>7. Begins(s) /\ Len(s) >= 2
      BY <1>1, <1>2, <3>3, <3>6 DEF Begins
    <3> QED
      BY <3>4, <3>7
  <2>2. CASE NewStream(SubSeq(kinds, 1, n) \o SubSeq(kinds, n + 2, Len(kinds)))
    <3>1. n \in 1 .. Len(kinds) /\ n + 1 \in 1 .. Len(kinds) /\ (n + 1) + 1 = n + 2
      BY <1>2
    <3>2. /\ Begins(SubSeq(kinds, 1, n)) /\ Len(SubSeq(kinds, 1, n)) = n
          /\ SubSeq(kinds, n + 2, Len(kinds)) \in Seq(LRAutomaton.terminals)
          /\ Len(SubSeq(kinds, n + 2, Len(kinds))) = len - (n + 1)
      <4>1. PICK m \in 1 .. Len(kinds) : m = n + 1
        BY <3>1
      <4>2. /\ SubSeq(kinds, m + 1, Len(kinds)) \in Seq(LRAutomaton.terminals)
            /\ Len(SubSeq(kinds, m + 1, Len(kinds))) = Len(kinds) - m
        BY <1>2, PartsOfAStream
      <4>3. m + 1 = n + 2
        BY <4>1
      <4> QED
        BY <1>2, <3>1, <4>1, <4>2, <4>3, PartsOfAStream
    <3>3. PICK s : s = SubSeq(kinds, 1, n) \o SubSeq(kinds, n + 2, Len(kinds))
      OBVIOUS
    <3>4. Begins(s) /\ Len(s) = n + (len - (n + 1))
      BY <3>2, <3>3, BeginsAndGoesOn
    <3>5. Len(s) >= 2
      BY <1>2, <3>4
    <3>6. kinds' = s /\ len' = Len(s)
      BY <2>2, <3>3 DEF NewStream
    <3> QED
      BY <3>4, <3>5, <3>6 DEF Begins
  <2> QED
    BY <1>3, <2>1, <2>2
<1>5. StreamInv' /\ StackInv' /\ TrialInv' /\ DescribedInv'
  BY <1>1, <1>2, <1>4 DEF StreamInv, StackInv, TrialInv, DescribedInv, Describes, TokenAt, Begins
<1> QED
  BY <1>5 DEF StacksInv

LEMMA ErrorResetPopsKeepsStacks ==
  ASSUME StacksInv, ErrorResetPops
  PROVE  StacksInv'
<1>1. /\ pc = "refused" /\ pc' = "ready" /\ offered \in 1 .. len - 1
      /\ RecoveryPoints # {} /\ stack' = SubSeq(stack, 1, Max(RecoveryPoints))
      /\ stale' = (stale \/ stack' # stack)
      /\ UNCHANGED <<action, offered, markerKind>>
  BY DEF ErrorResetPops, MayEdit
<1>2. /\ IsViable(LRAutomaton, stack) /\ Begins(kinds) /\ len = Len(kinds) /\ len \in Nat
      /\ markerKind \in Markers
      /\ ~stale => Describes(action, stack)
  BY <1>1 DEF StacksInv, StackInv, StreamInv, DescribedInv, Begins
<1>3. PICK P : P = RecoveryPoints
  OBVIOUS
<1>4. P \subseteq 1 .. Len(stack) /\ P # {} /\ Len(stack) \in Nat
  BY <1>1, <1>2, <1>3 DEF RecoveryPoints, IsViable
<1>5. Max(P) \in P
  <2>1. PICK S : S = {Len(stack) - p : p \in P}
    OBVIOUS
  <2>2. S \in SUBSET Nat /\ S # {}
    <3>1. \A p \in P : Len(stack) - p \in Nat
      BY <1>4
    <3>2. S \in SUBSET Nat
      BY <2>1, <3>1
    <3>3. PICK p \in P : TRUE
      BY <1>4
    <3>4. Len(stack) - p \in S
      BY <2>1, <3>3
    <3> QED
      BY <3>2, <3>4
  <2>3. PICK n \in S : \A m \in S : n <= m
    BY <2>2, LeastElement
  <2>4. PICK x \in P : n = Len(stack) - x
    BY <2>1
  <2>5. \A y \in P : x >= y
    <3>1. SUFFICES ASSUME NEW y \in P PROVE x >= y
      OBVIOUS
    <3>2. Len(stack) - y \in S
      BY <2>1
    <3>3. n <= Len(stack) - y
      BY <2>3, <3>2
    <3> QED
      BY <1>4, <2>4, <3>3
  <2> QED
    BY <2>5 DEF Max
<1>6. PICK u \in 1 .. Len(stack) : u = Max(RecoveryPoints)
  BY <1>3, <1>4, <1>5
<1>7. IsViable(LRAutomaton, SubSeq(stack, 1, u))
  BY <1>2, BottomIsViable
<1>8. IsViable(LRAutomaton, stack')
  BY <1>1, <1>6, <1>7
<1>9. Begins(kinds') /\ len' = Len(kinds') /\ len' >= 2
  <2>1. PICK n \in 1 .. Len(kinds) : n = offered /\ n <= len - 1
    BY <1>1, <1>2
  <2>2. PICK x : x = SubSeq(kinds, 1, n)
    OBVIOUS
  <2>3. PICK y : y = SubSeq(kinds, n + 1, Len(kinds))
    OBVIOUS
  <2>4. PICK error : error = <<ERROR_SYMBOL>>
    OBVIOUS
  <2>5. /\ Begins(x) /\ Len(x) = n
        /\ y \in Seq(LRAutomaton.terminals) /\ Len(y) = len - n
    BY <1>2, <2>2, <2>3, PartsOfAStream
  <2>6. error \in Seq(LRAutomaton.terminals) /\ Len(error) = 1
    <3>1. ERROR_SYMBOL \in LRAutomaton.terminals
      BY TableAssumption
    <3>2. PICK T : T = LRAutomaton.terminals
      OBVIOUS
    <3>3. PICK e : e = ERROR_SYMBOL
      OBVIOUS
    <3>4. e \in T /\ error = <<e>>
      BY <2>4, <3>1, <3>2, <3>3
    <3>5. error \in Seq(T) /\ Len(error) = 1
      BY ONLY <3>4
    <3> QED
      BY <3>2, <3>5
  <2>7. Begins(x \o error) /\ Len(x \o error) = n + 1
    BY <2>5, <2>6, BeginsAndGoesOn
  <2>8. PICK s : s = (x \o error) \o y
    OBVIOUS
  <2>9. Begins(s) /\ Len(s) = (n + 1) + (len - n)
    BY <2>5, <2>7, <2>8, BeginsAndGoesOn
  <2>10. kinds' = s /\ len' = Len(s)
    BY <2>1, <2>2, <2>3, <2>4, <2>8 DEF ErrorResetPops, NewStream
  <2>11. Len(s) >= 2
    BY <1>2, <2>1, <2>9
  <2> QED
    BY <2>9, <2>10, <2>11
<1>10. StreamInv'
  BY <1>1, <1>2, <1>9 DEF StreamInv, Begins
<1>11. StackInv' /\ TrialInv'
  BY <1>1, <1>2, <1>8 DEF StackInv, TrialInv
<1>12. DescribedInv'
  BY <1>1, <1>2 DEF DescribedInv, Describes, TokenAt
<1> QED
  BY <1>10, <1>11, <1>12 DEF StacksInv

LEMMA ErrorResetRestartsKeepsStacks ==
  ASSUME StacksInv, ErrorResetRestarts
  PROVE  StacksInv'
<1>1. /\ pc = "refused" /\ offered \in 1 .. len - 1
      /\ resetParserEntry /\ UNCHANGED markerKind
      /\ offered' = IF markerKind = 0 THEN 1 ELSE 0
  BY DEF ErrorResetRestarts, MayEdit
<1>2. Begins(kinds) /\ len = Len(kinds) /\ len \in Nat /\ markerKind \in Markers
  BY DEF StacksInv, StreamInv, Begins
<1>3. Begins(kinds') /\ len' = Len(kinds') /\ len' >= 2
  <2>1. PICK n \in 1 .. Len(kinds) : n = offered /\ n <= len - 1
    BY <1>1, <1>2
  <2>2. PICK y : y = SubSeq(kinds, n + 1, Len(kinds))
    OBVIOUS
  <2>3. y \in Seq(LRAutomaton.terminals) /\ Len(y) = len - n
    BY <1>2, <2>2, PartsOfAStream
  <2>4. PICK x : x = <<0>>
    OBVIOUS
  <2>5. Begins(x) /\ Len(x) = 1
    BY <2>4 DEF Begins
  <2>6. PICK s : s = x \o y
    OBVIOUS
  <2>7. Begins(s) /\ Len(s) = 1 + (len - n)
    BY <2>3, <2>5, <2>6, BeginsAndGoesOn
  <2>8. kinds' = s /\ len' = Len(s)
    BY <2>1, <2>2, <2>4, <2>6 DEF ErrorResetRestarts, NewStream
  <2>9. Len(s) >= 2
    BY <1>2, <2>1, <2>7
  <2> QED
    BY <2>7, <2>8, <2>9
<1>4. StreamInv'
  BY <1>1, <1>2, <1>3 DEF StreamInv, Begins
<1>5. StackInv' /\ TrialInv' /\ DescribedInv'
  BY <1>1, <1>2, ResetKeepsStacks
<1> QED
  BY <1>4, <1>5 DEF StacksInv

LEMMA ResetBeginsStacks ==
  ASSUME StacksInv, Reset
  PROVE  StacksInv'
<1>1. /\ resetParserEntry /\ UNCHANGED <<kinds, len, markerKind>>
      /\ offered' = IF markerKind = 0 THEN 1 ELSE 0
  BY DEF Reset, stream
<1>2. StreamInv' /\ markerKind \in Markers
  BY <1>1 DEF StacksInv, StreamInv, Begins
<1>3. StackInv' /\ TrialInv' /\ DescribedInv'
  BY <1>1, <1>2, ResetKeepsStacks
<1> QED
  BY <1>2, <1>3 DEF StacksInv

(* Elsewhere the stack is another one's.                                   *)
LEMMA StacksElsewhere ==
  ASSUME StacksInv, UNCHANGED <<kinds, len, markerKind>>,
         pc' \notin {"ready", "simulate", "refused"}
  PROVE  StacksInv'
<1>1. StreamInv'
  BY DEF StacksInv, StreamInv, Begins
<1> QED
  BY <1>1 DEF StacksInv, StackInv, TrialInv, DescribedInv

LEMMA StutterKeepsStacks ==
  ASSUME StacksInv, UNCHANGED vars
  PROVE  StacksInv'
<1>1. UNCHANGED <<kinds, len, markerKind, pc, stack, offered, currentAction, sym, at,
                  location_top, pos, locationStack, action, save_action_length, stale, before>>
  BY DEF vars, stream, simulation, client, history
<1>2. StreamInv'
  BY <1>1 DEF StacksInv, StreamInv, Begins
<1>3. StackInv'
  BY <1>1 DEF StacksInv, StackInv
<1>4. Simulated' = Simulated
  BY <1>1 DEF Simulated, StateAt
<1>5. TrialInv'
  BY <1>1, <1>4 DEF StacksInv, TrialInv
<1>6. DescribedInv'
  BY <1>1, <1>4 DEF StacksInv, DescribedInv, Describes, TokenAt
<1> QED
  BY <1>2, <1>3, <1>5, <1>6 DEF StacksInv

LEMMA PassesKeepStacks ==
  ASSUME StacksInv,
         Call \/ BatchTurn \/ BatchAccept \/ BatchError \/ Stop \/ StartReplay
           \/ ReplayTurn \/ ReplayEnd \/ Leave \/ GiveUp \/ Accepted \/ Cancel
  PROVE  StacksInv'
  <1> USE StacksElsewhere DEF stream
  <1>1. CASE Call  BY <1>1 DEF Call
  <1>2. CASE BatchTurn  BY <1>2 DEF BatchTurn, InBatch
  <1>3. CASE BatchAccept  BY <1>3 DEF BatchAccept, BatchEnd, Finish
  <1>4. CASE BatchError  BY <1>4 DEF BatchError, BatchEnd, Finish
  <1>5. CASE Stop  BY <1>5 DEF Stop, Finish
  <1>6. CASE StartReplay  BY <1>6 DEF StartReplay
  <1>7. CASE ReplayTurn  BY <1>7 DEF ReplayTurn
  <1>8. CASE ReplayEnd  BY <1>8 DEF ReplayEnd, Finish
  <1>9. CASE Leave  BY <1>9 DEF Leave, Finish
  <1>10. CASE GiveUp  BY <1>10 DEF GiveUp, Finish
  <1>11. CASE Accepted  BY <1>11 DEF Accepted
  <1>12. CASE Cancel  BY <1>12 DEF Cancel
  <1> QED  BY <1>1, <1>2, <1>3, <1>4, <1>5, <1>6, <1>7, <1>8, <1>9, <1>10, <1>11, <1>12

LEMMA InitMakesStacks ==
  ASSUME Init
  PROVE  StacksInv
<1>1. PICK input \in Inputs : kinds = <<0>> \o input /\ len = Len(input) + 1
  BY DEF Init
<1>2. input \in Seq(LRAutomaton.terminals) /\ input # << >>
  BY TableAssumption
<1>3. PICK x : x = <<0>>
  OBVIOUS
<1>4. Begins(x) /\ Len(x) = 1
  BY <1>3 DEF Begins
<1>5. Begins(x \o input) /\ Len(x \o input) = 1 + Len(input)
  BY <1>2, <1>4, BeginsAndGoesOn
<1>6. Len(input) \in Nat /\ Len(input) >= 1
  BY <1>2
<1>7. StreamInv
  <2>0. PICK s : s = x \o input
    OBVIOUS
  <2>1. Begins(kinds) /\ len = Len(kinds) /\ markerKind \in Markers
    <3>1. kinds = s /\ Begins(s) /\ len = Len(s)
      BY <1>1, <1>3, <1>5, <1>6, <2>0
    <3> QED
      BY <3>1 DEF Init
  <2>2. len >= 2
    BY <1>1, <1>6
  <2> QED
    BY <2>1, <2>2 DEF StreamInv
<1> QED
  BY <1>7 DEF StacksInv, StackInv, TrialInv, DescribedInv, Init

LEMMA NextKeepsStacks ==
  ASSUME StacksInv, IInv, [Next]_vars
  PROVE  StacksInv'
  <1>1. CASE Work
    BY <1>1, PassesKeepStacks, SimulateReduceKeepsStacks, AdvanceKeepsStacks,
       RefusedKeepsStacks DEF Work
  <1>2. CASE Client
    BY <1>2, PassesKeepStacks, OfferKeepsStacks, ResetBeginsStacks, CorrectKeepsStacks,
       ErrorResetPopsKeepsStacks, ErrorResetRestartsKeepsStacks DEF Client, IInv
  <1>3. CASE Cancel
    BY <1>3, PassesKeepStacks
  <1>4. CASE UNCHANGED vars
    BY <1>4, StutterKeepsStacks
  <1> QED  BY <1>1, <1>2, <1>3, <1>4 DEF Next

(* For every table that is made of an automaton, and every stream and      *)
(* client: what the invariant says of the stacks and the log.              *)
THEOREM StacksInvariance == Spec => []StacksInv
  BY InitMakesStacks, NextKeepsStacks, Invariance, PTL DEF Spec

(* No reduction, simulated or not, goes below the bottom of the stack or   *)
(* asks for a goto that is not in the table, and the table never wants     *)
(* more tokens of lookahead than the client offers.                        *)
StacksAreViable ==
  /\ pc \in {"ready", "simulate", "refused"} => IsViable(LRAutomaton, stack)
  /\ pc = "simulate" => /\ IsViable(LRAutomaton, Simulated)
                        /\ Answers(LRAutomaton, Simulated, currentAction)
                        /\ ~(currentAction > LA_STATE_OFFSET)

THEOREM ParserStaysInTheTable == Spec => []StacksAreViable
  <1>1. StacksInv => StacksAreViable
    BY DEF StacksInv, StackInv, TrialInv, StacksAreViable
  <1> QED  BY <1>1, StacksInvariance, PTL

(* The states that the simulation keeps above the untouched part of the    *)
(* stack are the stack that the logged reductions make of it, and the log  *)
(* builds the stack and has taken the tokens before the one on offer.      *)
THEOREM TwoStacksAreAlwaysOne == Spec => []TwoStacksAreOne
  <1>1. StacksInv => TwoStacksAreOne
    BY DEF StacksInv, TrialInv, DescribedInv, Describes, TwoStacksAreOne
  <1> QED  BY <1>1, StacksInvariance, PTL

-----------------------------------------------------------------------------
(* The tokens that are taken, by number.                                   *)
Tokens == [n \in Int |-> TokenAt(n)]

LEMMA TokensFollow ==
  ASSUME markerKind \in Int, NEW n \in Nat
  PROVE  /\ TokenAt(n) \in Nat /\ TokenAt(n + 1) = TokenAt(n) + 1
         /\ getPrevious(TokenAt(n)) = TokenAt(n - 1)
         /\ Tokens[n] = TokenAt(n) /\ Tokens[n - 1] = TokenAt(n - 1)
<1>1. n \in Int /\ n - 1 \in Int
  OBVIOUS
<1>2. Tokens[n] = TokenAt(n) /\ Tokens[n - 1] = TokenAt(n - 1)
  BY ONLY <1>1 DEF Tokens
<1> QED
  BY <1>2 DEF TokenAt, getPrevious

(* A driver before its next turn: its stack is a path of the automaton,    *)
(* every symbol on it has its place and its node, and the tokens that they *)
(* cover are those before the cursor.                                      *)
Driving ==
  /\ markerKind \in Int /\ len \in Nat
  /\ stack \in Seq(Int) /\ currentAction \in Int
  /\ IsViable(LRAutomaton, Pushed)
  /\ derived \in Symbols /\ Len(derived) = Len(stack)
  /\ Linked(parseStack, derived)
  /\ index = TokenAt(Covered(derived)) /\ curtok = index /\ index \in 0 .. len - 1
  /\ lastToken = TokenAt(Covered(derived) - 1)
  /\ 1 .. Len(derived) \subseteq DOMAIN locationStack
  /\ \A p \in 1 .. Len(derived) : locationStack[p] = TokenAt(Until(derived, p - 1))

LEMMA PlacesAreThere ==
  ASSUME Driving, NEW locations, locations = Places
  PROVE  /\ Len(stack) \in Nat /\ Len(Pushed) = Len(stack) + 1
         /\ \A p \in 1 .. Len(stack) : locations[p] = TokenAt(Until(derived, p - 1))
         /\ locations[Len(Pushed)] = curtok
         /\ 1 .. Len(Pushed) \subseteq DOMAIN locations
<1>1. PICK n \in Nat : n = Len(stack)
  BY DEF Driving
<1>2. Len(Pushed) = n + 1
  BY <1>1 DEF Driving, Pushed
<1>3. PICK D : D = DOMAIN locationStack
  OBVIOUS
<1>4. locations = [q \in D \cup {n + 1} |-> IF q = n + 1 THEN curtok ELSE locationStack[q]]
  BY <1>2, <1>3 DEF Places, Written
<1>5. 1 .. n \subseteq D /\ \A p \in 1 .. n : locationStack[p] = TokenAt(Until(derived, p - 1))
  BY <1>1, <1>3 DEF Driving
<1>6. locations[n + 1] = curtok
  BY <1>4
<1>7. ASSUME NEW p \in 1 .. n PROVE locations[p] = TokenAt(Until(derived, p - 1))
  <2>1. p \in D /\ p # n + 1
    BY <1>5
  <2> QED
    BY <1>4, <1>5, <2>1
<1>8. 1 .. n + 1 \subseteq DOMAIN locations
  BY <1>4, <1>5
<1> QED
  BY <1>1, <1>2, <1>6, <1>7, <1>8

(* The symbols on the stack, or those and the terminal that is taken.      *)
SymbolsThen(symbols) == symbols = derived \/ symbols = Append(derived, Terminal)

(* What a rule action asks for is what is there.                           *)
ShowsRight(shown, n, answers, symbols, top) ==
  /\ Showing(shown, n, answers, Tokens) /\ shown.top = top
  /\ top \in Nat /\ top <= n /\ n - 1 <= top
  /\ symbols \in Symbols /\ Covered(symbols) \in Nat
  /\ top < n => /\ answers.first[n] = Tokens[answers.taken]
                /\ answers.prior[n] = Tokens[answers.taken - 1]

LEMMA AnswersAreRight ==
  ASSUME Driving, AllSaw(nodes, Tokens), NEW locations, locations = Places,
         NEW symbols, SymbolsThen(symbols), NEW last, last = TokenAt(Covered(symbols) - 1),
         NEW top, top = Len(symbols),
         NEW first, first = [p \in 1 .. Len(Pushed) |-> locations[p]],
         NEW prior, prior = [p \in 1 .. Len(Pushed) |-> getPrevious(locations[p])],
         NEW answers, answers = Answering(first, prior, last, Covered(symbols)),
         NEW shown, shown = Shown(top, WithRoom(parseStack, Pushed), nodes, symbols)
  PROVE  ShowsRight(shown, Len(Pushed), answers, symbols, top)
<1>1. PICK n \in Nat : n = Len(stack) /\ Len(Pushed) = n + 1
  BY PlacesAreThere
<1>2. /\ \A p \in 1 .. n : locations[p] = TokenAt(Until(derived, p - 1))
      /\ locations[n + 1] = curtok
  BY <1>1, PlacesAreThere
<1>3. /\ derived \in Symbols /\ Len(derived) = n /\ Linked(parseStack, derived)
      /\ curtok = TokenAt(Covered(derived)) /\ markerKind \in Int
  BY <1>1 DEF Driving
<1>4. PICK room : room = WithRoom(parseStack, Pushed)
  OBVIOUS
<1>5. /\ n + 1 <= Len(room) /\ Linked(room, derived)
      /\ Append(derived, Terminal) \in Symbols /\ Len(Append(derived, Terminal)) = n + 1
      /\ \A p \in 0 .. n : Until(Append(derived, Terminal), p) = Until(derived, p)
      /\ Linked(room, Append(derived, Terminal))
  <2>1. Len(Pushed) = Len(derived) + 1
    BY <1>1, <1>3
  <2> QED
    BY <1>1, <1>3, <1>4, <2>1, RoomIsMade
<1>6. PICK taken \in Nat : taken = Covered(symbols)
  <2>1. symbols \in Symbols
    BY <1>3, <1>5 DEF SymbolsThen
  <2>2. Len(symbols) \in 0 .. Len(symbols) /\ Until(symbols, Len(symbols)) = Covered(symbols)
    BY <2>1, UntilAll
  <2> QED
    BY <2>1, <2>2, UntilIsNat
<1>7. /\ symbols \in Symbols /\ Linked(room, symbols) /\ top \in Nat /\ top \in n .. n + 1
      /\ \A p \in 0 .. n : Until(symbols, p) = Until(derived, p)
  <2>1. CASE symbols = derived
    BY <1>3, <1>5, <2>1
  <2>2. CASE symbols = Append(derived, Terminal)
    BY <1>3, <1>5, <2>2
  <2> QED
    BY <2>1, <2>2 DEF SymbolsThen
<1>8. Until(derived, n) = Covered(derived) /\ \A p \in 0 .. n : Until(derived, p) \in Nat
  BY <1>3, UntilAll, UntilIsNat
<1>9. ASSUME NEW p \in 1 .. n + 1
      PROVE  /\ Until(derived, p - 1) \in Nat
             /\ first[p] = Tokens[Until(derived, p - 1)]
             /\ prior[p] = Tokens[Until(derived, p - 1) - 1]
  <2>1. PICK u \in Nat : u = Until(derived, p - 1)
    <3>1. p - 1 \in 0 .. n
      OBVIOUS
    <3> QED
      BY <1>8, <3>1
  <2>2. locations[p] = TokenAt(u)
    <3>1. CASE p \in 1 .. n
      BY <1>2, <2>1, <3>1
    <3>2. CASE p = n + 1
      <4>1. p - 1 = n
        BY <3>2
      <4> QED
        BY <1>2, <1>3, <1>8, <2>1, <3>2, <4>1
    <3> QED
      BY <3>1, <3>2
  <2>3. /\ getPrevious(TokenAt(u)) = TokenAt(u - 1)
        /\ Tokens[u] = TokenAt(u) /\ Tokens[u - 1] = TokenAt(u - 1)
    BY <1>3, TokensFollow
  <2>4. first[p] = locations[p] /\ prior[p] = getPrevious(locations[p])
    BY <1>1
  <2> QED
    BY <2>1, <2>2, <2>3, <2>4
<1>10. /\ answers.first = first /\ answers.prior = prior
       /\ answers.last = last /\ answers.taken = taken
  BY <1>6 DEF Answering
<1>11. /\ shown.top = top /\ shown.parseStack = room /\ shown.nodes = nodes
       /\ shown.derived = symbols
  BY <1>4 DEF Shown
<1>12. ASSUME NEW p \in 1 .. top
       PROVE  first[p] = Tokens[Until(symbols, p - 1)] /\ prior[p] = Tokens[Until(symbols, p - 1) - 1]
  <2>1. p \in 1 .. n + 1 /\ p - 1 \in 0 .. n
    BY <1>7
  <2> QED
    BY <1>7, <1>9, <2>1
<1>13. Showing(shown, n + 1, answers, Tokens)
  <2>1. answers.last = Tokens[answers.taken - 1]
    <3>1. last = TokenAt(taken - 1)
      BY ONLY <1>6, last = TokenAt(Covered(symbols) - 1), Zenon
    <3>2. TokenAt(taken - 1) = Tokens[taken - 1]
      BY <1>3, TokensFollow
    <3> QED
      BY ONLY <1>10, <3>1, <3>2, Zenon
  <2>2. Placed(answers.first, symbols, top, Tokens) /\ PlacedBefore(answers.prior, symbols, top, Tokens)
    BY ONLY <1>10, <1>12 DEF Placed, PlacedBefore
  <2> QED
    BY <1>5, <1>6, <1>7, <1>10, <1>11, <2>1, <2>2 DEF Showing
<1>14. ASSUME top < n + 1
       PROVE  first[n + 1] = Tokens[taken] /\ prior[n + 1] = Tokens[taken - 1]
  <2>1. symbols = derived
    BY <1>1, <1>5, <1>7, <1>14 DEF SymbolsThen
  <2>2. n + 1 \in 1 .. n + 1 /\ (n + 1) - 1 = n
    OBVIOUS
  <2>3. Until(derived, n) = taken
    BY <1>6, <1>8, <2>1
  <2> QED
    BY <1>9, <2>2, <2>3
<1>15. ShowsRight(shown, n + 1, answers, symbols, top)
  <2>1. top \in Nat /\ top <= n + 1 /\ n + 1 - 1 <= top
    BY <1>1, <1>7
  <2>2. symbols \in Symbols /\ Covered(symbols) \in Nat
    BY <1>6, <1>7
  <2> QED
    BY <1>10, <1>11, <1>13, <1>14, <2>1, <2>2 DEF ShowsRight
<1> QED
  BY <1>1, <1>15

(* A rule whose right-hand side is on top, and those it sets off: their    *)
(* actions see their tokens, and the stack that is left is the table's.    *)
RulesRan(symbols, top, rule) ==
  LET r == Reached(Pushed, top, rule)
  IN  /\ r[1] \in 1 .. Len(Pushed)
      /\ stack' = SubSeq(Pushed, 1, r[1]) /\ currentAction' = r[2]
      /\ derived' \in Symbols /\ Len(derived') = r[1] /\ Covered(derived') = Covered(symbols)
      /\ Linked(parseStack', derived') /\ AllSaw(nodes', Tokens)
      /\ \A p \in 1 .. r[1] : locationStack'[p] = TokenAt(Until(derived', p - 1))

LEMMA RulesSee ==
  ASSUME Driving, AllSaw(nodes, Tokens), locationStack' = Places,
         NEW symbols, SymbolsThen(symbols), lastToken' = TokenAt(Covered(symbols) - 1),
         NEW top, top = Len(symbols), NEW rule \in 0 .. NUM_RULES,
         NEW left \in Int, left = top - (rhs(rule) - 1),
         <<Pushed[Len(Pushed)], Len(Pushed) - left, lhs(rule)>> \in LRAutomaton.items,
         processReductions(top, rule, symbols)
  PROVE  RulesRan(symbols, top, rule)
<1>1. PICK s : s = Pushed
  OBVIOUS
<1>2. PICK locations : locations = locationStack'
  OBVIOUS
<1>3. PICK last : last = lastToken'
  OBVIOUS
<1>4. PICK first : first = [p \in 1 .. Len(s) |-> locations[p]]
  OBVIOUS
<1>5. PICK prior : prior = [p \in 1 .. Len(s) |-> getPrevious(locations[p])]
  OBVIOUS
<1>6. PICK answers : answers = Answering(first, prior, last, Covered(symbols))
  OBVIOUS
<1>7. PICK shown : shown = Shown(top, WithRoom(parseStack, s), nodes, symbols)
  OBVIOUS
<1>8. PICK run : run = process_reductions(s, shown, rule, answers, {})
  OBVIOUS
<1>9. /\ stack' = SubSeq(s, 1, run.shown.top) /\ currentAction' = run.act
      /\ parseStack' = run.shown.parseStack /\ nodes' = run.shown.nodes
      /\ derived' = run.shown.derived
  BY <1>1, <1>2, <1>3, <1>4, <1>5, <1>6, <1>7, <1>8
     DEF processReductions, getToken, getLastToken
<1>10. PICK n \in Nat : n = Len(s) /\ n > 0 /\ n \in 1 .. n
  BY <1>1 DEF Driving, IsViable
<1>11. /\ Showing(shown, n, answers, Tokens) /\ shown.top = top
       /\ top \in Nat /\ top <= n /\ n - 1 <= top
       /\ symbols \in Symbols /\ Covered(symbols) \in Nat
       /\ top < n => /\ answers.first[n] = Tokens[answers.taken]
                     /\ answers.prior[n] = Tokens[answers.taken - 1]
  <2>1. locations = Places /\ last = TokenAt(Covered(symbols) - 1)
    BY <1>2, <1>3
  <2>2. /\ first = [p \in 1 .. Len(Pushed) |-> locations[p]]
        /\ prior = [p \in 1 .. Len(Pushed) |-> getPrevious(locations[p])]
    BY ONLY <1>1, <1>4, <1>5
  <2>3. shown = Shown(top, WithRoom(parseStack, Pushed), nodes, symbols)
    BY ONLY <1>1, <1>7
  <2>4. ShowsRight(shown, Len(Pushed), answers, symbols, top)
    BY ONLY <1>6, <2>1, <2>2, <2>3, AnswersAreRight, Driving, AllSaw(nodes, Tokens),
            SymbolsThen(symbols), top = Len(symbols)
  <2>5. n = Len(Pushed)
    BY <1>1, <1>10
  <2> QED
    BY ONLY <2>4, <2>5 DEF ShowsRight
<1>12. IsAutomaton(LRAutomaton) /\ IsViable(LRAutomaton, s)
  BY <1>1, TableAssumption DEF Driving
<1>13. <<s[n], n - left, lhs(rule)>> \in LRAutomaton.items
  BY <1>1, <1>10
<1>14. left \in 1 .. n
  <2>1. PICK k : k = n - left
    OBVIOUS
  <2>2. k \in Nat /\ n - k \in 1 .. n
    BY <1>10, <1>12, <1>13, <2>1, ItemsBegin
  <2> QED
    BY ONLY <1>10, <2>1, <2>2, left \in Int
<1>15. \/ left <= shown.top
       \/ /\ answers.first[left] = Tokens[answers.taken]
          /\ answers.prior[left] = Tokens[answers.taken - 1]
  <2>1. CASE left <= top
    BY <1>11, <2>1
  <2>2. CASE ~(left <= top)
    <3>1. left = n /\ top < n
      BY <1>10, <1>11, <1>14, <2>2
    <3> QED
      BY <1>11, <3>1
  <2> QED
    BY <2>1, <2>2
<1>16. PICK r : r = Reached(s, top, rule)
  OBVIOUS
<1>17. /\ run.shown.top \in 1 .. n /\ Showing(run.shown, n, answers, Tokens)
       /\ <<run.shown.top, run.act>> = r
  <2>1. OnTop(LRAutomaton, s, n, top, rule, left)
    BY <1>10, <1>11, <1>13 DEF OnTop
  <2>2. Showing(shown, Len(s), answers, Tokens) /\ top = shown.top
    BY <1>10, <1>11
  <2>3. Told(answers, left, top, Tokens)
    BY <1>11, <1>15 DEF Told
  <2>4. PICK ends : ends = {}
    OBVIOUS
  <2>5. run = process_reductions(s, shown, rule, answers, ends)
    BY ONLY <1>8, <2>4, Zenon
  <2>6. PICK T : T = Tokens
    OBVIOUS
  <2>7. Showing(shown, Len(s), answers, T) /\ top = shown.top /\ Told(answers, left, top, T)
    BY ONLY <2>2, <2>3, <2>6, Zenon
  <2>8. PICK a : a = LRAutomaton
    OBVIOUS
  <2>9. IsAutomaton(a) /\ IsViable(a, s) /\ OnTop(a, s, n, top, rule, left)
    BY ONLY <1>12, <2>1, <2>8, Zenon
  <2>10. left \in 1 .. n /\ RunShows(run, s, top, rule, left, ends, answers, T)
    BY ONLY <2>5, <2>7, <2>9, ProcessReductionsShow
  <2> QED
    BY <1>10, <1>11, <1>16, <2>4, <2>6, <2>10 DEF RunShows, Reaches
<1>18. r[1] = run.shown.top /\ r[2] = run.act /\ r[1] \in 1 .. n
  BY <1>17
<1>19. /\ derived' \in Symbols /\ Len(derived') = r[1] /\ Covered(derived') = Covered(symbols)
       /\ Linked(parseStack', derived') /\ AllSaw(nodes', Tokens)
       /\ Placed(first, derived', r[1], Tokens)
  <2>1. answers.first = first /\ answers.taken = Covered(symbols)
    BY <1>6 DEF Answering
  <2> QED
    BY <1>9, <1>17, <1>18, <2>1 DEF Showing
<1>20. ASSUME NEW p \in 1 .. r[1] PROVE locationStack'[p] = TokenAt(Until(derived', p - 1))
  <2>1. PICK d : d = derived'
    OBVIOUS
  <2>2. p \in 1 .. n /\ p - 1 \in 0 .. Len(d)
    BY ONLY <1>10, <1>18, <1>19, <2>1, p \in 1 .. r[1]
  <2>3. first[p] = locations[p]
    BY <1>4, <1>10, <2>2
  <2>4. PICK u \in Nat : u = Until(d, p - 1)
    BY <1>19, <2>1, <2>2, UntilIsNat
  <2>5. first[p] = Tokens[u] /\ Tokens[u] = TokenAt(u)
    BY <1>19, <2>1, <2>4, TokensFollow DEF Placed, Driving
  <2> QED
    BY <1>2, <2>1, <2>3, <2>4, <2>5
<1> QED
  BY <1>1, <1>9, <1>10, <1>16, <1>18, <1>19, <1>20 DEF RulesRan

LEMMA RulesDrive ==
  ASSUME Driving, UNCHANGED <<markerKind, len>>, locationStack' = Places,
         NEW symbols, NEW top, NEW rule, RulesRan(symbols, top, rule),
         NEW after, IsViable(LRAutomaton, after),
         after = LET r == Reached(Pushed, top, rule) IN Append(SubSeq(Pushed, 1, r[1]), r[2]),
         lastToken' = TokenAt(Covered(symbols) - 1), index' = TokenAt(Covered(symbols)),
         curtok' = index', index' \in 0 .. len - 1
  PROVE  Driving' /\ Pushed' = after /\ AllSaw(nodes', Tokens')
<1>1. PICK r : r = Reached(Pushed, top, rule)
  OBVIOUS
<1>2. PICK n \in Nat : n = Len(Pushed) /\ n = Len(stack) + 1
  BY PlacesAreThere
<1>3. /\ r[1] \in 1 .. n /\ stack' = SubSeq(Pushed, 1, r[1]) /\ currentAction' = r[2]
      /\ derived' \in Symbols /\ Len(derived') = r[1] /\ Covered(derived') = Covered(symbols)
      /\ Linked(parseStack', derived') /\ AllSaw(nodes', Tokens)
      /\ \A p \in 1 .. r[1] : locationStack'[p] = TokenAt(Until(derived', p - 1))
  BY <1>1, <1>2 DEF RulesRan
<1>4. \A m : TokenAt(m)' = TokenAt(m)
  BY DEF TokenAt
<1>5. Tokens' = Tokens
  BY DEF Tokens, TokenAt
<1>6. Pushed' = after
  BY <1>1, <1>3 DEF Pushed
<1>7. stack' \in Seq(Int) /\ Len(stack') = r[1]
  <2>1. PICK s : s = Pushed
    OBVIOUS
  <2>2. s \in Seq(Int) /\ n = Len(s) /\ stack' = SubSeq(s, 1, r[1])
    BY <1>2, <1>3, <2>1 DEF Driving, IsViable
  <2>3. PICK m : m = r[1]
    OBVIOUS
  <2>4. m \in 1 .. n /\ stack' = SubSeq(s, 1, m)
    BY <1>3, <2>2, <2>3
  <2> QED
    BY ONLY <2>2, <2>3, <2>4
<1>8. currentAction' \in Int
  <2>1. PICK s : s = SubSeq(Pushed, 1, r[1])
    OBVIOUS
  <2>2. after \in Seq(Int) /\ after = Append(s, r[2]) /\ s \in Seq(Int) /\ Len(s) \in Nat
    BY <1>1, <1>3, <1>7, <2>1 DEF IsViable
  <2>3. after[Len(s) + 1] = r[2] /\ Len(after) = Len(s) + 1
    <3>1. PICK x : x = r[2]
      OBVIOUS
    <3>2. after = Append(s, x)
      BY ONLY <2>2, <3>1
    <3>3. after[Len(s) + 1] = x /\ Len(after) = Len(s) + 1
      BY ONLY <2>2, <3>2
    <3> QED
      BY ONLY <3>1, <3>3
  <2>4. after[Len(s) + 1] \in Int
    BY <2>2, <2>3
  <2> QED
    BY <1>3, <2>3, <2>4
<1>9. 1 .. Len(derived') \subseteq DOMAIN locationStack'
  <2>1. PICK locations : locations = locationStack'
    OBVIOUS
  <2>2. 1 .. n \subseteq DOMAIN locations
    BY <1>2, <2>1, PlacesAreThere
  <2>3. 1 .. r[1] \subseteq 1 .. n
    BY <1>3
  <2> QED
    BY <1>3, <2>1, <2>2, <2>3
<1>10. /\ markerKind' \in Int /\ len' \in Nat /\ index' \in 0 .. len' - 1
  BY DEF Driving
<1>11. index' = TokenAt(Covered(derived))' /\ lastToken' = TokenAt(Covered(derived) - 1)'
  <2>1. PICK c : c = Covered(symbols)
    OBVIOUS
  <2>2. Covered(derived)' = c
    BY <1>3, <2>1
  <2>3. index' = TokenAt(c) /\ lastToken' = TokenAt(c - 1)
    BY <2>1
  <2>4. index' = TokenAt(c)' /\ lastToken' = TokenAt(c - 1)'
    BY <1>4, <2>3
  <2> QED
    BY <2>2, <2>4 DEF TokenAt
<1>12. (\A p \in 1 .. Len(derived) : locationStack[p] = TokenAt(Until(derived, p - 1)))'
  <2>1. SUFFICES ASSUME NEW p \in 1 .. Len(derived')
                 PROVE  locationStack'[p] = TokenAt(Until(derived, p - 1))'
    OBVIOUS
  <2>2. PICK u : u = Until(derived', p - 1)
    OBVIOUS
  <2>3. locationStack'[p] = TokenAt(u)
    BY <1>3, <2>2
  <2>4. locationStack'[p] = TokenAt(u)'
    BY <1>4, <2>3
  <2> QED
    BY <2>2, <2>4 DEF TokenAt
<1>13. Driving'
  BY <1>3, <1>6, <1>7, <1>8, <1>9, <1>10, <1>11, <1>12 DEF Driving, TokenAt
<1> QED
  BY <1>3, <1>5, <1>6, <1>13

(* The next token is taken: it is the one before the cursor.               *)
LEMMA TokenIsTaken ==
  ASSUME Driving, TakeToken, curtok < len - 1,
         NEW symbols, symbols = Append(derived, Terminal)
  PROVE  /\ Covered(symbols) \in Nat /\ Covered(symbols) = Covered(derived) + 1
         /\ lastToken' = TokenAt(Covered(symbols) - 1) /\ index' = TokenAt(Covered(symbols))
         /\ curtok' = index' /\ index' \in 0 .. len - 1
<1>1. PICK c \in Nat : c = Covered(derived)
  <2>1. derived \in Symbols
    BY DEF Driving
  <2>2. Len(derived) \in 0 .. Len(derived) /\ Until(derived, Len(derived)) = Covered(derived)
    BY <2>1, UntilAll
  <2> QED
    BY <2>1, <2>2, UntilIsNat
<1>2. PICK t : t = TokenAt(c)
  OBVIOUS
<1>3. /\ t \in Nat /\ TokenAt(c + 1) = t + 1
      /\ index = t /\ curtok = t /\ len \in Nat /\ index \in 0 .. len - 1
  BY <1>1, <1>2, TokensFollow DEF Driving
<1>4. Covered(symbols) = c + 1
  <2>1. derived \in Symbols /\ Linked(parseStack, derived)
    BY DEF Driving
  <2>2. Len(Pushed) = Len(derived) + 1
    BY PlacesAreThere DEF Driving
  <2>3. PICK room : room = WithRoom(parseStack, Pushed)
    OBVIOUS
  <2> QED
    BY <1>1, <2>1, <2>2, <2>3, RoomIsMade
<1>5. lastToken' = t /\ index' = t + 1 /\ curtok' = t + 1
  BY <1>3 DEF TakeToken, getNext
<1>6. PICK d \in Nat : d = c + 1 /\ d - 1 = c
  BY <1>1
<1>7. Covered(symbols) = d /\ TokenAt(d) = t + 1 /\ TokenAt(d - 1) = t
  BY <1>2, <1>3, <1>4, <1>6
<1>8. lastToken' = TokenAt(Covered(symbols) - 1) /\ index' = TokenAt(Covered(symbols))
  BY ONLY <1>5, <1>7, Zenon
<1> QED
  BY <1>1, <1>3, <1>4, <1>5, <1>7, <1>8

(* A turn: the rule actions see their tokens, the stack is the table's,    *)
(* and the next token is taken or not.                                     *)
Drives(act) ==
  /\ Driving' /\ AllSaw(nodes', Tokens')
  /\ Pushed' = AfterAction(Pushed, act)
  /\ Covered(derived') = IF IsReduce(act) THEN Covered(derived) ELSE Covered(derived) + 1

LEMMA ReduceDrives ==
  ASSUME Driving, AllSaw(nodes, Tokens), UNCHANGED <<markerKind, len>>,
         NEW act, TurnReduce(act), Answers(LRAutomaton, Pushed, act)
  PROVE  Drives(act)
<1>1. PICK s : s = Pushed
  OBVIOUS
<1>2. PICK a : a = LRAutomaton
  OBVIOUS
<1>3. /\ IsAutomaton(a) /\ IsViable(a, s) /\ Answers(a, s, act) /\ IsReduce(act)
      /\ locationStack' = Places /\ index' = index /\ lastToken' = lastToken /\ curtok' = curtok
      /\ processReductions(Len(Pushed) - 1, act, derived)
  BY <1>1, <1>2, TableAssumption DEF TurnReduce, Driving
<1>4. PICK n \in Nat : n = Len(stack) /\ Len(s) = n + 1 /\ Len(derived) = n
  BY <1>1, PlacesAreThere DEF Driving
<1>5. PICK top : top = Len(s) - 1
  OBVIOUS
<1>6. top = n
  BY <1>4, <1>5
<1>7. /\ act \in 0 .. NUM_RULES /\ rhs(act) \in Nat
      /\ <<s[Len(s)], rhs(act), lhs(act)>> \in a.items
  BY <1>3, ReduceHasItem
<1>8. PICK left \in Int : left = top - (rhs(act) - 1)
  BY <1>6, <1>7
<1>9. Len(s) - left = rhs(act)
  BY <1>4, <1>6, <1>7, <1>8
<1>10. RulesRan(derived, top, act)
  <2>1. <<s[Len(s)], Len(s) - left, lhs(act)>> \in a.items
    BY <1>7, <1>9
  <2>2. SymbolsThen(derived) /\ lastToken' = TokenAt(Covered(derived) - 1)
    BY <1>3 DEF SymbolsThen, Driving
  <2>3. processReductions(top, act, derived) /\ top = Len(derived)
    BY <1>1, <1>3, <1>4, <1>5, <1>6
  <2> QED
    BY <1>1, <1>2, <1>3, <1>7, <1>8, <2>1, <2>2, <2>3, RulesSee
<1>11. PICK after : after = AfterReduce(s, act)
  OBVIOUS
<1>12. /\ after = LET r == Reached(s, top, act) IN Append(SubSeq(s, 1, r[1]), r[2])
       /\ IsViable(a, after)
  BY <1>3, <1>5, <1>11, ReduceArrives
<1>13. after = AfterAction(s, act)
  BY <1>3, <1>11, ActionTaken
<1>14. /\ lastToken' = TokenAt(Covered(derived) - 1) /\ index' = TokenAt(Covered(derived))
       /\ curtok' = index' /\ index' \in 0 .. len - 1
  BY <1>3 DEF Driving
<1>15. Driving' /\ Pushed' = after /\ AllSaw(nodes', Tokens')
  BY <1>1, <1>2, <1>3, <1>10, <1>12, <1>14, RulesDrive
<1>16. Covered(derived') = Covered(derived)
  BY <1>10 DEF RulesRan
<1> QED
  BY <1>1, <1>3, <1>13, <1>15, <1>16 DEF Drives

LEMMA ShiftReduceDrives ==
  ASSUME Driving, AllSaw(nodes, Tokens), UNCHANGED <<markerKind, len>>, curtok < len - 1,
         NEW act, TurnShiftReduce(act), Answers(LRAutomaton, Pushed, act)
  PROVE  Drives(act)
<1>1. PICK s : s = Pushed
  OBVIOUS
<1>2. PICK a : a = LRAutomaton
  OBVIOUS
<1>3. PICK rule : rule = act - ERROR_ACTION
  OBVIOUS
<1>4. PICK symbols : symbols = Append(derived, Terminal)
  OBVIOUS
<1>5. PICK top : top = Len(s)
  OBVIOUS
<1>6. /\ IsAutomaton(a) /\ IsViable(a, s) /\ Answers(a, s, act) /\ IsShiftReduce(act)
      /\ locationStack' = Places /\ TakeToken
      /\ processReductions(top, rule, symbols)
  BY <1>1, <1>2, <1>3, <1>4, <1>5, TableAssumption DEF TurnShiftReduce, Driving
<1>7. PICK n \in Nat : n = Len(stack) /\ top = n + 1 /\ Len(derived) = n
  BY <1>1, <1>5, PlacesAreThere DEF Driving
<1>8. /\ rule \in 0 .. NUM_RULES /\ rhs(rule) \in Nat /\ rhs(rule) > 0
      /\ <<s[Len(s)], rhs(rule) - 1, lhs(rule)>> \in a.items
  BY <1>3, <1>6, ShiftReduceHasItem
<1>9. PICK left \in Int : left = top - (rhs(rule) - 1)
  BY <1>7, <1>8
<1>10. Len(s) - left = rhs(rule) - 1
  BY <1>5, <1>7, <1>8, <1>9
<1>11. /\ Covered(symbols) \in Nat /\ Covered(symbols) = Covered(derived) + 1
       /\ lastToken' = TokenAt(Covered(symbols) - 1) /\ index' = TokenAt(Covered(symbols))
       /\ curtok' = index' /\ index' \in 0 .. len - 1
  BY <1>4, <1>6, TokenIsTaken
<1>12. <<s[Len(s)], Len(s) - left, lhs(rule)>> \in a.items
  BY <1>8, <1>10
<1>13. RulesRan(symbols, top, rule)
  <2>1. SymbolsThen(symbols) /\ top = Len(symbols)
    <3>1. derived \in Symbols /\ Linked(parseStack, derived) /\ Len(s) = Len(derived) + 1
      BY <1>5, <1>7 DEF Driving
    <3>2. PICK room : room = WithRoom(parseStack, s)
      OBVIOUS
    <3>3. Len(symbols) = Len(s)
      BY <1>4, <3>1, <3>2, RoomIsMade
    <3> QED
      BY <1>4, <1>5, <3>3 DEF SymbolsThen
  <2>2. <<Pushed[Len(Pushed)], Len(Pushed) - left, lhs(rule)>> \in LRAutomaton.items
    BY ONLY <1>1, <1>2, <1>12, Zenon
  <2> QED
    BY <1>6, <1>8, <1>9, <1>11, <2>1, <2>2, RulesSee
<1>14. PICK after : after = AfterShiftReduce(s, act)
  OBVIOUS
<1>15. IsViable(a, after)
  BY <1>6, <1>14, ShiftReduceArrives
<1>16. after = LET r == Reached(s, top, rule) IN Append(SubSeq(s, 1, r[1]), r[2])
  <2>1. Arrives(a, s, left, Reached(s, top, rule))
    <3>1. PICK p \in 1 .. Len(s) : p = Len(s)
      BY <1>6 DEF IsViable
    <3>2. <<s[p], p - left, lhs(rule)>> \in a.items
      BY <1>12, <3>1
    <3>3. top \in Int
      BY <1>7
    <3> QED
      BY <1>6, <1>8, <1>9, <3>1, <3>2, <3>3, ReachedArrives
  <2>2. after = Reductions(s, top, rule)
    BY <1>3, <1>5, <1>14 DEF AfterShiftReduce
  <2> QED
    BY <1>6, <1>9, <2>1, <2>2, ArrivalIsTaken
<1>17. after = AfterAction(s, act)
  BY <1>6, <1>14, KindsAreDistinct, ActionTaken
<1>18. Driving' /\ Pushed' = after /\ AllSaw(nodes', Tokens')
  BY <1>1, <1>2, <1>6, <1>11, <1>13, <1>15, <1>16, RulesDrive
<1>19. Covered(derived') = Covered(symbols)
  BY <1>13 DEF RulesRan
<1> QED
  BY <1>1, <1>6, <1>11, <1>17, <1>18, <1>19, KindsAreDistinct DEF Drives

LEMMA ShiftDrives ==
  ASSUME Driving, AllSaw(nodes, Tokens), UNCHANGED <<markerKind, len>>, curtok < len - 1,
         NEW act, TurnShift(act), Answers(LRAutomaton, Pushed, act)
  PROVE  Drives(act)
<1>1. PICK s : s = Pushed
  OBVIOUS
<1>2. PICK locations : locations = locationStack'
  OBVIOUS
<1>3. PICK symbols : symbols = Append(derived, Terminal)
  OBVIOUS
<1>4. PICK room : room = WithRoom(parseStack, s)
  OBVIOUS
<1>5. /\ IsAutomaton(LRAutomaton) /\ IsViable(LRAutomaton, s) /\ Answers(LRAutomaton, s, act)
      /\ IsShift(act) /\ act \in Int /\ locationStack' = Places /\ TakeToken
      /\ stack' = s /\ currentAction' = act /\ parseStack' = room /\ derived' = symbols
      /\ nodes' = nodes
  BY <1>1, <1>3, <1>4, TableAssumption, LoggedActions DEF TurnShift, Driving
<1>6. PICK n \in Nat : n = Len(stack) /\ Len(s) = n + 1 /\ Len(derived) = n
  BY <1>1, PlacesAreThere DEF Driving
<1>7. /\ \A p \in 1 .. n : locations[p] = TokenAt(Until(derived, p - 1))
      /\ locations[n + 1] = curtok /\ 1 .. n + 1 \subseteq DOMAIN locations
  BY <1>1, <1>2, <1>5, <1>6, PlacesAreThere
<1>8. /\ symbols \in Symbols /\ Len(symbols) = n + 1 /\ Linked(room, symbols)
      /\ \A p \in 0 .. n : Until(symbols, p) = Until(derived, p)
      /\ Until(derived, n) = Covered(derived)
  <2>1. derived \in Symbols /\ Linked(parseStack, derived) /\ Len(s) = Len(derived) + 1
    BY <1>6 DEF Driving
  <2>2. Len(symbols) = Len(s) /\ \A p \in 0 .. Len(derived) : Until(symbols, p) = Until(derived, p)
    BY <1>3, <1>4, <2>1, RoomIsMade
  <2>3. symbols \in Symbols /\ Linked(room, symbols)
    BY <1>3, <1>4, <2>1, RoomIsMade
  <2> QED
    BY <1>6, <2>1, <2>2, <2>3, UntilAll
<1>9. /\ Covered(symbols) = Covered(derived) + 1
      /\ lastToken' = TokenAt(Covered(symbols) - 1) /\ index' = TokenAt(Covered(symbols))
      /\ curtok' = index' /\ index' \in 0 .. len - 1
  BY <1>3, <1>5, TokenIsTaken
<1>10. \A m : TokenAt(m)' = TokenAt(m)
  BY DEF TokenAt
<1>11. ASSUME NEW p \in 1 .. n + 1 PROVE locations[p] = TokenAt(Until(symbols, p - 1))
  <2>1. p - 1 \in 0 .. n
    BY <1>6
  <2>2. PICK q : q = p - 1
    OBVIOUS
  <2>3. Until(symbols, q) = Until(derived, q)
    BY <1>8, <2>1, <2>2
  <2>4. CASE p \in 1 .. n
    BY <1>7, <2>2, <2>3, <2>4
  <2>5. CASE p = n + 1
    <3>1. q = n
      BY <2>2, <2>5
    <3>2. curtok = TokenAt(Covered(derived))
      BY DEF Driving
    <3>3. locations[p] = TokenAt(Until(derived, q))
      BY <1>7, <1>8, <2>5, <3>1, <3>2
    <3> QED
      BY <2>2, <2>3, <3>3
  <2> QED
    BY <2>4, <2>5
<1>12. Pushed' = Append(s, act) /\ IsViable(LRAutomaton, Append(s, act))
  BY <1>5, ShiftArrives DEF Pushed, AfterShift
<1>13. index' = TokenAt(Covered(derived))' /\ lastToken' = TokenAt(Covered(derived) - 1)'
  <2>1. PICK c : c = Covered(symbols)
    OBVIOUS
  <2>2. Covered(derived)' = c
    BY <1>5, <2>1
  <2>3. index' = TokenAt(c)' /\ lastToken' = TokenAt(c - 1)'
    BY <1>9, <1>10, <2>1
  <2> QED
    BY <2>2, <2>3 DEF TokenAt
<1>14. (\A p \in 1 .. Len(derived) : locationStack[p] = TokenAt(Until(derived, p - 1)))'
  <2>1. SUFFICES ASSUME NEW p \in 1 .. n + 1
                 PROVE  locationStack'[p] = TokenAt(Until(derived, p - 1))'
    BY <1>5, <1>8
  <2>2. PICK u : u = Until(symbols, p - 1)
    OBVIOUS
  <2>3. locationStack'[p] = TokenAt(u)'
    BY <1>2, <1>10, <1>11, <2>2
  <2>4. u = Until(derived, p - 1)'
    BY <1>5, <2>2
  <2> QED
    BY <2>3, <2>4 DEF TokenAt
<1>15. /\ stack' \in Seq(Int) /\ currentAction' \in Int /\ derived' \in Symbols
       /\ Len(derived') = Len(stack') /\ Linked(parseStack', derived')
       /\ 1 .. Len(derived') \subseteq DOMAIN locationStack'
  BY <1>2, <1>5, <1>6, <1>7, <1>8 DEF IsViable
<1>16. /\ markerKind' \in Int /\ len' \in Nat /\ index' \in 0 .. len' - 1
  BY <1>9 DEF Driving
<1>17. Driving'
  BY <1>9, <1>12, <1>13, <1>14, <1>15, <1>16 DEF Driving, TokenAt
<1>18. Tokens' = Tokens
  BY DEF Tokens, TokenAt
<1>19. Append(s, act) = AfterAction(s, act) /\ ~IsReduce(act)
  BY <1>5, KindsAreDistinct, ActionTaken DEF AfterShift
<1> QED
  BY <1>1, <1>5, <1>9, <1>12, <1>17, <1>18, <1>19 DEF Drives

LEMMA TurnDrives ==
  ASSUME Driving, AllSaw(nodes, Tokens), UNCHANGED <<markerKind, len>>,
         NEW act, Turn(act), Answers(LRAutomaton, Pushed, act),
         IsReduce(act) \/ curtok < len - 1
  PROVE  Drives(act)
<1>1. CASE TurnReduce(act)
  BY <1>1, ReduceDrives
<1>2. CASE TurnShiftReduce(act)
  <2>1. curtok < len - 1
    BY <1>2, KindsAreDistinct DEF TurnShiftReduce
  <2> QED
    BY <1>2, <2>1, ShiftReduceDrives
<1>3. CASE TurnShift(act)
  <2>1. curtok < len - 1
    BY <1>3, KindsAreDistinct DEF TurnShift
  <2> QED
    BY <1>3, <2>1, ShiftDrives
<1> QED
  BY <1>1, <1>2, <1>3 DEF Turn

-----------------------------------------------------------------------------
(* What the rule actions rest on.  The stream ends with EOF, and EOF is    *)
(* never taken.                                                            *)
EndInv == kinds[len] = EOFT_SYMBOL

Parsing == pc \in {"ready", "simulate", "refused", "accepted", "replay"}

OfferedInv ==
  /\ Parsing => offered \in Nat /\ offered <= len - 1
  /\ pc = "simulate" /\ offered = len - 1 => sym[at + 1] = EOFT_SYMBOL
  /\ pc = "simulate" /\ sym[at + 1] = EOFT_SYMBOL =>
       ~IsShift(currentAction) /\ ~IsShiftReduce(currentAction)

(* A log holds what the table has answered on the stacks that it builds;   *)
(* the one that is replayed takes the tokens before the one on offer.      *)
Builds(log) ==
  \A n \in 0 .. Len(log) - 1 :
    Answers(LRAutomaton, StackAfter(Started, SubSeq(log, 1, n)), log[n + 1])

BuiltInv ==
  /\ Parsing /\ ~stale => Builds(action)
  /\ pc = "simulate" /\ ~stale => Builds(before[2])
  /\ pc \in {"accepted", "replay"} /\ ~stale => TokenAt(TokensTaken(action)) = offered
  /\ pc = "replay" => ~stale

(* So a driver stays on paths of the automaton.                            *)
BatchInv ==
  pc = "batch" =>
    /\ Driving
    /\ current_kind = IF curtok = 0 THEN markerKind ELSE getKind(curtok)

ReplayInv ==
  pc = "replay" =>
    /\ Driving /\ i \in 0 .. Len(action)
    /\ Pushed = StackAfter(Started, SubSeq(action, 1, i))
    /\ Covered(derived) = TokensTaken(SubSeq(action, 1, i))

SeenInv == AllSaw(nodes, Tokens)

ActionsInv == EndInv /\ OfferedInv /\ BuiltInv /\ BatchInv /\ ReplayInv /\ SeenInv

(* A pass begins with the start state alone and the first token.           *)
LEMMA StartPassDrives ==
  ASSUME StreamInv, StartPass, UNCHANGED <<markerKind, len>>
  PROVE  /\ Driving' /\ SeenInv' /\ Pushed' = Started /\ Covered(derived') = 0
         /\ curtok' = IF markerKind = 0 THEN 1 ELSE 0
<1>1. /\ markerKind \in Int /\ len \in Nat /\ len >= 2
      /\ markerKind # 0 => markerKind \in LRAutomaton.terminals
  BY TableAssumption DEF StreamInv, Begins
<1>2. PICK first \in {0, 1} : first = IF markerKind = 0 THEN 1 ELSE 0
  OBVIOUS
<1>3. /\ index' = first /\ curtok' = first /\ lastToken' = 0
      /\ stack' = << >> /\ currentAction' = START_STATE
      /\ parseStack' = << >> /\ nodes' = << >> /\ derived' = << >>
  BY <1>1, <1>2 DEF StartPass, getNext, getPrevious, peek
<1>4. Pushed' = Started /\ IsViable(LRAutomaton, Started)
  BY <1>3, StartIsViable DEF Pushed, Started
<1>5. Covered(<< >>) = 0
  BY CoveredNothing
<1>6. TokenAt(0)' = first /\ TokenAt(0 - 1)' = 0
  BY <1>1, <1>2 DEF TokenAt
<1>7. index' = TokenAt(Covered(derived))' /\ lastToken' = TokenAt(Covered(derived) - 1)'
  <2>1. Covered(derived)' = 0
    BY <1>3, <1>5
  <2> QED
    BY <1>3, <1>6, <2>1 DEF TokenAt
<1>8. << >> \in Symbols /\ Linked(<< >>, << >>) /\ Len(<< >>) = 0
  BY DEF Symbols, Linked
<1>9. /\ stack' \in Seq(Int) /\ currentAction' \in Int /\ derived' \in Symbols
      /\ Len(derived') = Len(stack') /\ Linked(parseStack', derived')
      /\ Len(derived') = 0
  BY <1>3, <1>8, LayoutAssumption
<1>10. /\ 1 .. Len(derived') \subseteq DOMAIN locationStack'
       /\ (\A p \in 1 .. Len(derived) : locationStack[p] = TokenAt(Until(derived, p - 1)))'
  BY <1>9
<1>11. /\ markerKind' \in Int /\ len' \in Nat /\ index' \in 0 .. len' - 1
  BY <1>1, <1>2, <1>3
<1>12. Driving'
  BY <1>3, <1>4, <1>7, <1>9, <1>10, <1>11 DEF Driving, TokenAt
<1>13. AllSaw(<< >>, Tokens')
  <2>1. PICK S : S = {}
    OBVIOUS
  <2>2. << >> \in Seq(S) /\ \A x \in S : Saw(x, Tokens')
    BY <2>1
  <2> QED
    BY <2>2 DEF AllSaw
<1> QED
  BY <1>2, <1>3, <1>4, <1>5, <1>12, <1>13 DEF SeenInv

(* On EOF the table answers at once, and never takes it.                   *)
LEMMA EofIsNotTaken ==
  ASSUME NEW st, IsViable(LRAutomaton, st), NEW s, NEW j, s[j + 1] = EOFT_SYMBOL
  PROVE  LET act == tActionIn(Last(st), s, j) IN ~IsShift(act) /\ ~IsShiftReduce(act)
<1>1. PICK state : state = Last(st)
  OBVIOUS
<1>2. state \in StatesOf(LRAutomaton)
  BY <1>1, TopIsAState
<1>3. PICK act : act = tableAction(state, EOFT_SYMBOL)
  OBVIOUS
<1>4. ~IsShift(act) /\ ~IsShiftReduce(act) /\ ~(act > LA_STATE_OFFSET)
  BY <1>2, <1>3, TableAssumption
<1>5. tActionIn(state, s, j) = act
  <2>1. tableAction(state, s[j + 1]) = act
    BY <1>3
  <2> QED
    BY <1>4, <2>1, tActionInAtOnce
<1> QED
  BY <1>1, <1>4, <1>5

(* A log with one more answer of the table.                                *)
LEMMA OneMoreBuilds ==
  ASSUME NEW log \in Seq(Int), Builds(log), NEW act \in Int,
         Answers(LRAutomaton, StackAfter(Started, log), act)
  PROVE  Builds(Append(log, act))
<1>1. PICK l \in Nat : l = Len(log)
  OBVIOUS
<1>2. PICK more : more = Append(log, act)
  OBVIOUS
<1>3. /\ more \in Seq(Int) /\ Len(more) = l + 1 /\ more[l + 1] = act
      /\ \A n \in 1 .. l : more[n] = log[n]
  BY <1>1, <1>2, AppendProperties
<1>4. SUFFICES ASSUME NEW n \in 0 .. l
               PROVE  Answers(LRAutomaton, StackAfter(Started, SubSeq(more, 1, n)), more[n + 1])
  BY <1>2, <1>3 DEF Builds
<1>5. SubSeq(more, 1, n) = SubSeq(log, 1, n)
  <2>1. n \in Nat /\ n <= Len(log)
    BY <1>1
  <2> QED
    BY <1>2, <2>1, AppendKeepsPrefix
<1>6. CASE n = l
  <2>1. SubSeq(log, 1, n) = log
    BY <1>1, <1>6, WholePrefix
  <2> QED
    BY <1>3, <1>5, <1>6, <2>1
<1>7. CASE n # l
  <2>1. n \in 0 .. Len(log) - 1 /\ n + 1 \in 1 .. l
    BY <1>1, <1>7
  <2>2. Answers(LRAutomaton, StackAfter(Started, SubSeq(log, 1, n)), log[n + 1])
    BY <2>1 DEF Builds
  <2>3. more[n + 1] = log[n + 1]
    BY <1>3, <2>1
  <2> QED
    BY <1>5, <2>2, <2>3
<1> QED
  BY <1>6, <1>7

(* The place in the buffer where the offer begins holds that token.        *)
LEMMA BufferBegins ==
  ASSUME StreamInv, offered \in Nat, offered # 0, offered <= len - 1
  PROVE  Buffer[((offered - 1) % MAX_LA) + 1] = getKind(offered)
<1>1. PICK M \in Nat \ {0} : M = MAX_LA
  BY TableAssumption
<1>2. PICK o \in Nat : o = offered /\ o - 1 \in Int
  OBVIOUS
<1>3. PICK d \in Int : d = (o - 1) \div M
  BY <1>2
<1>4. PICK r \in 0 .. M - 1 : r = (o - 1) % M
  BY <1>2
<1>5. o - 1 = M * d + r
  BY <1>2, <1>3, <1>4
<1>6. PICK e \in Int : e = -d
  OBVIOUS
<1>7. (M * e) % M = 0 /\ M * e = -(M * d)
  BY <1>6
<1>8. PICK x \in Int : x = M * d
  OBVIOUS
<1>9. (r + 1) - o = M * e
  <2>1. o - 1 = x + r /\ M * e = -x
    BY ONLY <1>5, <1>7, <1>8, Zenon
  <2>2. PICK y : y = M * e
    OBVIOUS
  <2>3. (r + 1) - o = y
    BY ONLY <2>1, <2>2, o \in Nat, x \in Int, r \in 0 .. M - 1
  <2> QED
    BY ONLY <2>2, <2>3, Zenon
<1>10. PICK k \in 1 .. M : k = r + 1
  BY <1>4
<1>11. (k - o) % M = 0
  BY <1>7, <1>9, <1>10
<1>12. PICK b : b = Buffer
  OBVIOUS
<1>13. b[k] = LET n == o + ((k - o) % M) IN getKind(IF n < len THEN n ELSE len - 1)
  BY <1>1, <1>2, <1>10, <1>12 DEF Buffer
<1>14. o + ((k - o) % M) = o /\ o < len
  BY <1>2, <1>11 DEF StreamInv, Begins
<1>15. b[k] = getKind(o)
  BY <1>13, <1>14
<1> QED
  BY <1>1, <1>2, <1>4, <1>10, <1>12, <1>15

(* What the rule actions saw stays what they saw.                          *)
LEMMA SeenStays ==
  ASSUME SeenInv, UNCHANGED <<nodes, markerKind>>
  PROVE  SeenInv'
<1>1. Tokens' = Tokens
  BY DEF Tokens, TokenAt
<1> QED
  BY <1>1 DEF SeenInv

LEMMA OfferKeepsActions ==
  ASSUME ActionsInv, StacksInv, Offer
  PROVE  ActionsInv'
<1>1. PICK b : b = Buffer
  OBVIOUS
<1>2. PICK j : j = (offered - 1) % MAX_LA
  OBVIOUS
<1>3. /\ pc = "ready" /\ pc' = "simulate" /\ sym' = b /\ at' = j
      /\ currentAction' = tActionIn(Last(stack), b, j)
      /\ before' = <<stack, action>>
      /\ UNCHANGED <<stack, action, offered, stale, kinds, len, markerKind, nodes>>
  BY <1>1, <1>2 DEF Offer, StartParse, stream, client, built
<1>4. /\ IsViable(LRAutomaton, stack) /\ offered \in Nat /\ offered # 0
      /\ StreamInv /\ offered <= len - 1 /\ EndInv /\ SeenInv
      /\ ~stale => Builds(action)
  BY <1>3 DEF StacksInv, StackInv, ActionsInv, OfferedInv, BuiltInv, Parsing
<1>5. b[j + 1] = getKind(offered)
  BY <1>1, <1>2, <1>4, BufferBegins
<1>6. offered = len - 1 => b[j + 1] = EOFT_SYMBOL
  <2>1. len \in Nat
    BY <1>4 DEF StreamInv, Begins
  <2> QED
    BY <1>4, <1>5, <2>1 DEF EndInv, getKind
<1>7. b[j + 1] = EOFT_SYMBOL => ~IsShift(currentAction') /\ ~IsShiftReduce(currentAction')
  BY <1>3, <1>4, EofIsNotTaken
<1>8. OfferedInv'
  BY <1>3, <1>4, <1>6, <1>7 DEF OfferedInv, Parsing, IsShift, IsShiftReduce
<1>9. BuiltInv'
  <2>1. before'[2] = action
    BY <1>3
  <2> QED
    BY <1>3, <1>4, <2>1 DEF BuiltInv, Parsing, Builds
<1> QED
  BY <1>3, <1>4, <1>8, <1>9, SeenStays DEF ActionsInv, EndInv, BatchInv, ReplayInv

(* The answer that is logged is one on the stack that the log builds.      *)
LEMMA TriedBuilds ==
  ASSUME ActionsInv, StacksInv, IInv, pc = "simulate", ~stale, currentAction \in Int
  PROVE  Builds(Append(action, currentAction))
<1>1. /\ action \in Seq(Int) /\ Builds(action)
      /\ Answers(LRAutomaton, Simulated, currentAction)
      /\ StackAfter(Started, action) = Simulated
  BY DEF ActionsInv, BuiltInv, Parsing, StacksInv, TrialInv, DescribedInv, Describes,
         IInv, LogInv
<1>2. PICK act \in Int : act = currentAction
  OBVIOUS
<1>3. Answers(LRAutomaton, StackAfter(Started, action), act)
  BY <1>1, <1>2
<1>4. Builds(Append(action, act))
  BY <1>1, <1>3, OneMoreBuilds
<1> QED
  BY <1>2, <1>4

LEMMA SimulateReduceKeepsActions ==
  ASSUME ActionsInv, StacksInv, IInv, SimulateReduce
  PROVE  ActionsInv'
<1>1. /\ pc = "simulate" /\ pc' = "simulate" /\ currentAction \in Int
      /\ action' = Append(action, currentAction)
      /\ UNCHANGED <<offered, stale, before, kinds, len, markerKind, nodes, sym, at>>
  BY DEF SimulateReduce, stream, client, history, built, IsReduce
<1>2. PICK s : s = AfterReduce(Simulated, currentAction)
  OBVIOUS
<1>3. IsViable(LRAutomaton, s) /\ currentAction' = tActionIn(Last(s), sym, at)
  BY <1>2, SimulateWritesTheStack DEF StacksInv
<1>4. sym[at + 1] = EOFT_SYMBOL => ~IsShift(currentAction') /\ ~IsShiftReduce(currentAction')
  BY <1>3, EofIsNotTaken
<1>5. /\ offered \in Nat /\ offered <= len - 1 /\ EndInv /\ SeenInv
      /\ offered = len - 1 => sym[at + 1] = EOFT_SYMBOL
      /\ ~stale => Builds(before[2])
  BY <1>1 DEF ActionsInv, OfferedInv, BuiltInv, Parsing
<1>6. OfferedInv'
  BY <1>1, <1>4, <1>5 DEF OfferedInv, Parsing, IsShift, IsShiftReduce
<1>7. BuiltInv'
  <2>1. ~stale => Builds(action')
    BY <1>1, TriedBuilds
  <2> QED
    BY <1>1, <1>5, <2>1 DEF BuiltInv, Parsing, Builds
<1> QED
  BY <1>1, <1>5, <1>6, <1>7, SeenStays DEF ActionsInv, EndInv, BatchInv, ReplayInv

LEMMA AdvanceKeepsActions ==
  ASSUME ActionsInv, StacksInv, IInv, Advance
  PROVE  ActionsInv'
<1>1. /\ pc = "simulate" /\ pc' = "ready" /\ currentAction \in Int
      /\ IsShift(currentAction) \/ IsShiftReduce(currentAction)
      /\ action' = Append(action, currentAction) /\ offered' = offered + 1
      /\ UNCHANGED <<stale, kinds, len, markerKind, nodes>>
  BY LoggedActions DEF Advance, stream, history, built
<1>2. offered \in Nat /\ offered <= len - 1 /\ offered # len - 1 /\ EndInv /\ SeenInv
  BY <1>1 DEF ActionsInv, OfferedInv, Parsing
<1>3. len \in Nat
  BY DEF StacksInv, StreamInv, Begins
<1>4. OfferedInv'
  BY <1>1, <1>2, <1>3 DEF OfferedInv, Parsing
<1>5. BuiltInv'
  <2>1. ~stale => Builds(action')
    BY <1>1, TriedBuilds
  <2> QED
    BY <1>1, <2>1 DEF BuiltInv, Parsing, Builds
<1> QED
  BY <1>1, <1>2, <1>4, <1>5, SeenStays DEF ActionsInv, EndInv, BatchInv, ReplayInv

LEMMA AnsweredKeepsActions ==
  ASSUME ActionsInv, StacksInv, IInv, Accepted \/ Refused
  PROVE  ActionsInv'
<1>1. /\ pc = "simulate" /\ pc' \in {"accepted", "refused"}
      /\ pc' = "accepted" => action' = action
      /\ pc' = "refused" => action' = SubSeq(action, 1, save_action_length)
      /\ UNCHANGED <<offered, stale, before, kinds, len, markerKind, nodes>>
  BY DEF Accepted, Refused, stream, client, history, built
<1>2. /\ offered \in Nat /\ offered <= len - 1 /\ EndInv /\ SeenInv
      /\ ~stale => Builds(action) /\ Builds(before[2])
      /\ ~stale => TokenAt(TokensTaken(action)) = offered
      /\ SubSeq(action, 1, save_action_length) = before[2]
  BY <1>1 DEF ActionsInv, OfferedInv, BuiltInv, Parsing, StacksInv, DescribedInv, Describes,
              IInv, SimulationInv
<1>3. OfferedInv'
  BY <1>1, <1>2 DEF OfferedInv, Parsing
<1>4. BuiltInv'
  BY <1>1, <1>2 DEF BuiltInv, Parsing, Builds, TokenAt
<1> QED
  BY <1>1, <1>2, <1>3, <1>4, SeenStays DEF ActionsInv, EndInv, BatchInv, ReplayInv

(* Whatever the client does about a refused token, the stream still ends   *)
(* with EOF.                                                               *)
LEMMA EndStays ==
  ASSUME NEW x \in Seq(Int), NEW s \in Seq(Int), NEW n \in 0 .. Len(s) - 1,
         NEW t, t = x \o SubSeq(s, n + 1, Len(s))
  PROVE  t[Len(t)] = s[Len(s)]
<1>1. PICK l \in Nat : l = Len(s)
  OBVIOUS
<1>2. PICK m \in Nat : m = n + 1 /\ m \in 1 .. l
  BY <1>1
<1>3. PICK y : y = SubSeq(s, m, l)
  OBVIOUS
<1>4. /\ y \in Seq(Int) /\ Len(y) = l - m + 1
      /\ \A k \in 1 .. l - m + 1 : y[k] = s[m + k - 1]
  <2>1. \A k \in m .. l : s[k] \in Int
    BY <1>1, <1>2
  <2> QED
    BY <1>1, <1>2, <1>3, <2>1, SubSeqProperties
<1>5. PICK k \in 1 .. l : k = l - m + 1 /\ m + k - 1 = l
  <2>1. PICK k : k = l - m + 1
    OBVIOUS
  <2>2. k \in 1 .. l /\ m + k - 1 = l
    BY ONLY <1>2, <2>1, l \in Nat
  <2> QED
    BY <2>1, <2>2
<1>6. Len(y) = k /\ y[k] = s[l]
  BY <1>4, <1>5
<1>7. PICK b \in Nat : b = Len(x)
  OBVIOUS
<1>8. t = x \o y
  BY <1>1, <1>2, <1>3
<1>9. /\ Len(t) = b + k
      /\ \A p \in 1 .. b + k : t[p] = IF p <= b THEN x[p] ELSE y[p - b]
  <2>1. y \in Seq(Int)
    BY <1>4
  <2> QED
    BY ONLY x \in Seq(Int), <2>1, <1>6, <1>7, <1>8, ConcatProperties
<1>10. b + k \in 1 .. b + k /\ ~(b + k <= b) /\ (b + k) - b = k
  BY <1>5, <1>7
<1> QED
  BY <1>1, <1>6, <1>9, <1>10

LEMMA Joined ==
  ASSUME NEW x \in Seq(Int), NEW y \in Seq(Int), NEW z, z = x \o y
  PROVE  z \in Seq(Int) /\ Len(z) = Len(x) + Len(y)
BY ConcatProperties

LEMMA CorrectKeepsActions ==
  ASSUME ActionsInv, StacksInv, Correct
  PROVE  ActionsInv'
<1>1. /\ pc = "refused" /\ pc' = "ready" /\ offered \in 1 .. len - 1
      /\ UNCHANGED <<action, offered, markerKind, stale, nodes>>
  BY DEF Correct, MayEdit, history, built
<1>2. /\ kinds \in Seq(Int) /\ len = Len(kinds) /\ len \in Nat /\ len >= 2
      /\ kinds[len] = EOFT_SYMBOL /\ SeenInv
      /\ ~stale => Builds(action)
  BY <1>1 DEF StacksInv, StreamInv, Begins, ActionsInv, EndInv, BuiltInv, Parsing
<1>3. PICK n \in {offered, offered + 1} :
        /\ n < len - 1
        /\ \/ \E kind \in Corrections : NewStream([kinds EXCEPT ![n + 1] = kind])
           \/ NewStream(SubSeq(kinds, 1, n) \o SubSeq(kinds, n + 2, Len(kinds)))
  BY DEF Correct
<1>4. n \in 1 .. len - 2 /\ offered <= n
  BY <1>1, <1>2, <1>3
<1>5. kinds'[len'] = EOFT_SYMBOL /\ offered <= len' - 1
  <2>1. ASSUME NEW kind \in Corrections, NewStream([kinds EXCEPT ![n + 1] = kind])
        PROVE  kinds'[len'] = EOFT_SYMBOL /\ offered <= len' - 1
    <3>1. PICK m \in 1 .. len : m = n + 1 /\ m # len
      BY <1>2, <1>4
    <3>2. PICK s : s = [kinds EXCEPT ![m] = kind]
      OBVIOUS
    <3>3. kinds' = s /\ len' = Len(s)
      BY <2>1, <3>1, <3>2 DEF NewStream
    <3>4. kind \in Int
      BY TableAssumption
    <3>5. Len(s) = len /\ s[len] = kinds[len]
      BY <1>2, <3>1, <3>2, <3>4
    <3> QED
      BY <1>1, <1>2, <3>3, <3>5
  <2>2. CASE NewStream(SubSeq(kinds, 1, n) \o SubSeq(kinds, n + 2, Len(kinds)))
    <3>1. PICK m \in 0 .. Len(kinds) - 1 : m = n + 1 /\ m + 1 = n + 2
      BY <1>2, <1>4
    <3>2. PICK x : x = SubSeq(kinds, 1, n)
      OBVIOUS
    <3>3. PICK s : s = x \o SubSeq(kinds, m + 1, Len(kinds))
      OBVIOUS
    <3>4. kinds' = s /\ len' = Len(s)
      BY <2>2, <3>1, <3>2, <3>3 DEF NewStream
    <3>5. x \in Seq(Int) /\ Len(x) = n
      BY <1>2, <1>4, <3>2
    <3>6. s[Len(s)] = kinds[Len(kinds)]
      <4>1. kinds \in Seq(Int) /\ x \in Seq(Int) /\ m \in 0 .. Len(kinds) - 1
        BY <1>2, <3>5
      <4> QED
        BY ONLY <3>3, <4>1, EndStays
    <3>7. Len(s) = len - 1
      <4>1. PICK y : y = SubSeq(kinds, m + 1, Len(kinds))
        OBVIOUS
      <4>2. m + 1 \in 2 .. Len(kinds) /\ len - (m + 1) + 1 = len - 1 - n
        BY <1>2, <1>4, <3>1
      <4>3. PICK q \in 2 .. Len(kinds) : q = m + 1 /\ len - q + 1 = len - 1 - n
        BY <4>2
      <4>4. y = SubSeq(kinds, q, Len(kinds))
        BY <4>1, <4>3
      <4>5. y \in Seq(Int) /\ Len(y) = len - q + 1
        <5>1. \A k \in q .. Len(kinds) : kinds[k] \in Int
          BY <1>2
        <5> QED
          BY <1>2, <4>4, <5>1, SubSeqProperties
      <4>6. s = x \o y
        BY <3>3, <4>1
      <4>7. Len(s) = Len(x) + Len(y)
        BY <3>5, <4>5, <4>6, ConcatProperties
      <4> QED
        BY <1>2, <1>4, <3>5, <4>3, <4>5, <4>7
    <3> QED
      BY <1>1, <1>2, <1>4, <3>4, <3>6, <3>7
  <2> QED
    BY <1>3, <2>1, <2>2
<1>6. OfferedInv'
  BY <1>1, <1>2, <1>5 DEF OfferedInv, Parsing
<1>7. BuiltInv'
  BY <1>1, <1>2 DEF BuiltInv, Parsing, Builds
<1> QED
  BY <1>1, <1>2, <1>5, <1>6, <1>7, SeenStays DEF ActionsInv, EndInv, BatchInv, ReplayInv

LEMMA ErrorResetPopsKeepsActions ==
  ASSUME ActionsInv, StacksInv, ErrorResetPops
  PROVE  ActionsInv'
<1>1. /\ pc = "refused" /\ pc' = "ready" /\ offered \in 1 .. len - 1
      /\ stale' = (stale \/ stack' # stack)
      /\ UNCHANGED <<action, offered, markerKind, nodes>>
  BY DEF ErrorResetPops, MayEdit, built
<1>2. /\ kinds \in Seq(Int) /\ len = Len(kinds) /\ len \in Nat
      /\ kinds[len] = EOFT_SYMBOL /\ SeenInv
      /\ ~stale => Builds(action)
  BY <1>1 DEF StacksInv, StreamInv, Begins, ActionsInv, EndInv, BuiltInv, Parsing
<1>3. PICK n \in 0 .. Len(kinds) - 1 : n = offered /\ n \in 1 .. Len(kinds)
  BY <1>1, <1>2
<1>4. PICK x : x = SubSeq(kinds, 1, n)
  OBVIOUS
<1>5. PICK error : error = <<ERROR_SYMBOL>>
  OBVIOUS
<1>6. PICK y : y = SubSeq(kinds, n + 1, Len(kinds))
  OBVIOUS
<1>7. PICK s : s = (x \o error) \o y
  OBVIOUS
<1>8. kinds' = s /\ len' = Len(s)
  BY <1>3, <1>4, <1>5, <1>6, <1>7 DEF ErrorResetPops, NewStream
<1>9. x \in Seq(Int) /\ Len(x) = n
  BY <1>2, <1>3, <1>4
<1>10. error \in Seq(Int) /\ Len(error) = 1
  <2>1. PICK e \in Int : e = ERROR_SYMBOL
    BY TableAssumption
  <2> QED
    BY <1>5, <2>1
<1>11. y \in Seq(Int) /\ Len(y) = len - n
  <2>1. PICK m \in 1 .. Len(kinds) : m = n + 1
    BY <1>3
  <2>2. \A k \in m .. Len(kinds) : kinds[k] \in Int
    BY <1>2, <2>1
  <2>3. y \in Seq(Int) /\ Len(y) = Len(kinds) - m + 1
    BY <1>2, <1>6, <2>1, <2>2, SubSeqProperties
  <2> QED
    BY <1>2, <1>3, <2>1, <2>3
<1>12. PICK z : z = x \o error
  OBVIOUS
<1>13. z \in Seq(Int) /\ Len(z) = n + 1
  <2>1. z \in Seq(Int) /\ Len(z) = Len(x) + Len(error)
    BY ONLY <1>9, <1>10, <1>12, Joined
  <2> QED
    BY ONLY <1>9, <1>10, <2>1
<1>14. s[Len(s)] = EOFT_SYMBOL
  <2>1. s = z \o SubSeq(kinds, n + 1, Len(kinds))
    BY ONLY <1>6, <1>7, <1>12, Zenon
  <2> QED
    <3>1. kinds \in Seq(Int) /\ n \in 0 .. Len(kinds) - 1 /\ kinds[Len(kinds)] = EOFT_SYMBOL
      BY <1>2, <1>3
    <3> QED
      BY ONLY <1>13, <2>1, <3>1, EndStays
<1>15. Len(s) = (n + 1) + (len - n)
  <2>1. s = z \o y /\ z \in Seq(Int) /\ y \in Seq(Int)
    BY <1>7, <1>11, <1>12, <1>13
  <2>2. Len(s) = Len(z) + Len(y)
    BY ONLY <2>1, Joined
  <2> QED
    BY ONLY <1>11, <1>13, <2>2
<1>16. kinds'[len'] = EOFT_SYMBOL /\ offered <= len' - 1
  BY <1>1, <1>2, <1>3, <1>8, <1>14, <1>15
<1>17. OfferedInv'
  BY <1>1, <1>2, <1>16 DEF OfferedInv, Parsing
<1>18. BuiltInv'
  BY <1>1, <1>2 DEF BuiltInv, Parsing, Builds
<1> QED
  BY <1>1, <1>2, <1>16, <1>17, <1>18, SeenStays DEF ActionsInv, EndInv, BatchInv, ReplayInv

(* To reset the parser: the log is empty, and only the marker is tried.    *)
LEMMA ResetParserEntryKeepsActions ==
  ASSUME resetParserEntry, UNCHANGED markerKind, len' \in Nat, len' >= 2,
         offered' = IF markerKind = 0 THEN 1 ELSE 0
  PROVE  OfferedInv' /\ BuiltInv' /\ BatchInv' /\ ReplayInv'
<1>1. stack' = Started /\ action' = << >> /\ IsViable(LRAutomaton, Started)
  BY StartIsViable DEF resetParserEntry, Started
<1>2. Builds(<< >>)
  BY DEF Builds
<1>3. PICK l \in Nat : l = len'
  OBVIOUS
<1>4. l >= 2
  BY ONLY <1>3, len' >= 2, Zenon
<1>5. CASE markerKind = 0
  <2>1. pc' = "ready" /\ offered' = 1
    BY <1>5 DEF resetParserEntry
  <2>2. OfferedInv'
    <3>1. 1 <= len' - 1
      <4>1. 1 <= l - 1
        BY ONLY l \in Nat, <1>4
      <4> QED
        BY ONLY <4>1, <1>3, Zenon
    <3> QED
      BY ONLY <2>1, <3>1 DEF OfferedInv, Parsing
  <2>3. BuiltInv'
    BY <1>1, <1>2, <2>1 DEF BuiltInv, Parsing, Builds
  <2> QED
    BY <2>1, <2>2, <2>3 DEF BatchInv, ReplayInv
<1>6. CASE markerKind # 0
  <2>1. PICK s : s = <<markerKind>>
    OBVIOUS
  <2>2. StartParse(Started, << >>, s, 0)
    BY <1>6, <2>1 DEF resetParserEntry
  <2>3. /\ pc' = "simulate" /\ offered' = 0 /\ sym' = s /\ at' = 0
        /\ currentAction' = tActionIn(Last(Started), s, 0)
        /\ before' = <<Started, << >>>>
    BY <1>6, <2>2 DEF StartParse
  <2>4. s[0 + 1] = EOFT_SYMBOL => ~IsShift(currentAction') /\ ~IsShiftReduce(currentAction')
    BY <1>1, <2>3, EofIsNotTaken
  <2>5. OfferedInv'
    <3>1. PICK symbol : symbol = s[0 + 1]
      OBVIOUS
    <3>2. sym'[at' + 1] = symbol
      BY <2>3, <3>1
    <3>3. offered' \in Nat /\ offered' <= len' - 1 /\ offered' # len' - 1
      <4>1. 0 \in Nat /\ 0 <= l - 1 /\ 0 # l - 1
        BY ONLY l \in Nat, <1>4
      <4> QED
        BY ONLY <2>3, <4>1, <1>3, Zenon
    <3> QED
      BY <2>3, <2>4, <3>1, <3>2, <3>3 DEF OfferedInv, Parsing, IsShift, IsShiftReduce
  <2>6. BuiltInv'
    <3>1. before'[2] = << >>
      BY <2>3
    <3> QED
      BY <1>1, <1>2, <2>3, <3>1 DEF BuiltInv, Parsing, Builds
  <2> QED
    BY <2>3, <2>5, <2>6 DEF BatchInv, ReplayInv
<1> QED
  BY <1>5, <1>6

LEMMA ResetKeepsActions ==
  ASSUME ActionsInv, StacksInv, Reset
  PROVE  ActionsInv'
<1>1. /\ resetParserEntry /\ UNCHANGED <<kinds, len, markerKind, nodes>>
      /\ offered' = IF markerKind = 0 THEN 1 ELSE 0
  BY DEF Reset, stream, built
<1>2. len' \in Nat /\ len' >= 2
  BY <1>1 DEF StacksInv, StreamInv, Begins
<1>3. OfferedInv' /\ BuiltInv' /\ BatchInv' /\ ReplayInv'
  BY <1>1, <1>2, ResetParserEntryKeepsActions
<1>4. EndInv' /\ SeenInv'
  BY <1>1, SeenStays DEF ActionsInv, EndInv
<1> QED
  BY <1>3, <1>4 DEF ActionsInv

LEMMA ErrorResetRestartsKeepsActions ==
  ASSUME ActionsInv, StacksInv, StacksInv', ErrorResetRestarts
  PROVE  ActionsInv'
<1>1. /\ resetParserEntry /\ UNCHANGED <<markerKind, nodes>> /\ offered \in 1 .. len - 1
      /\ offered' = IF markerKind = 0 THEN 1 ELSE 0
  BY DEF ErrorResetRestarts, MayEdit, built
<1>2. len' \in Nat /\ len' >= 2
  BY DEF StacksInv, StreamInv, Begins
<1>3. OfferedInv' /\ BuiltInv' /\ BatchInv' /\ ReplayInv'
  BY <1>1, <1>2, ResetParserEntryKeepsActions
<1>4. EndInv'
  <2>1. kinds \in Seq(Int) /\ len = Len(kinds) /\ kinds[len] = EOFT_SYMBOL
    BY DEF StacksInv, StreamInv, Begins, ActionsInv, EndInv
  <2>2. PICK n \in 0 .. Len(kinds) - 1 : n = offered
    BY <1>1, <2>1
  <2>3. PICK x : x = <<0>>
    OBVIOUS
  <2>4. PICK s : s = x \o SubSeq(kinds, n + 1, Len(kinds))
    OBVIOUS
  <2>5. kinds' = s /\ len' = Len(s)
    BY <2>2, <2>3, <2>4 DEF ErrorResetRestarts, NewStream
  <2>6. x \in Seq(Int)
    BY <2>3
  <2>7. s[Len(s)] = EOFT_SYMBOL
    BY <2>1, <2>4, <2>6, EndStays
  <2> QED
    BY <2>5, <2>7 DEF EndInv
<1>5. SeenInv'
  BY <1>1, SeenStays DEF ActionsInv
<1> QED
  BY <1>3, <1>4, <1>5 DEF ActionsInv

-----------------------------------------------------------------------------
(* What begins, ends or interrupts a pass.                                 *)
LEMMA PassEndsActions ==
  ASSUME ActionsInv, BatchAccept \/ BatchError \/ Stop \/ GiveUp \/ Leave \/ ReplayEnd
  PROVE  ActionsInv'
<1>1. pc' = "idle" /\ UNCHANGED <<kinds, len, markerKind, nodes>>
  <2>1. CASE BatchAccept  BY <2>1 DEF BatchAccept, BatchEnd, Finish, stream, built
  <2>2. CASE BatchError  BY <2>2 DEF BatchError, BatchEnd, Finish, stream, built
  <2>3. CASE Stop  BY <2>3 DEF Stop, Finish, stream, built
  <2>4. CASE GiveUp  BY <2>4 DEF GiveUp, Finish, stream, built
  <2>5. CASE Leave  BY <2>5 DEF Leave, Finish, stream, built
  <2>6. CASE ReplayEnd  BY <2>6 DEF ReplayEnd, Finish, stream, built
  <2> QED  BY <2>1, <2>2, <2>3, <2>4, <2>5, <2>6
<1>2. EndInv' /\ SeenInv'
  BY <1>1, SeenStays DEF ActionsInv, EndInv
<1>3. OfferedInv' /\ BuiltInv' /\ BatchInv' /\ ReplayInv'
  BY <1>1 DEF OfferedInv, BuiltInv, BatchInv, ReplayInv, Parsing
<1> QED
  BY <1>2, <1>3 DEF ActionsInv

LEMMA CallKeepsActions ==
  ASSUME ActionsInv, StacksInv, Call
  PROVE  ActionsInv'
<1>1. /\ StartPass /\ pc' = "batch" /\ UNCHANGED <<kinds, len, markerKind>>
      /\ current_kind' = IF markerKind = 0 THEN getKind(getNext(0)) ELSE markerKind
  BY DEF Call, stream
<1>2. StreamInv /\ EndInv /\ len \in Nat /\ len >= 2
  BY DEF StacksInv, StreamInv, Begins, ActionsInv
<1>3. Driving' /\ SeenInv' /\ curtok' = IF markerKind = 0 THEN 1 ELSE 0
  BY <1>1, <1>2, StartPassDrives
<1>4. current_kind' = (IF curtok = 0 THEN markerKind ELSE getKind(curtok))'
  <2>1. CASE markerKind = 0
    <3>1. current_kind' = getKind(1) /\ curtok' = 1
      BY <1>1, <1>2, <1>3, <2>1 DEF getNext
    <3> QED
      BY <1>1, <3>1 DEF getKind
  <2>2. CASE markerKind # 0
    BY <1>1, <1>3, <2>2
  <2> QED
    BY <2>1, <2>2
<1>5. BatchInv'
  BY <1>3, <1>4 DEF BatchInv
<1>6. EndInv' /\ OfferedInv' /\ BuiltInv' /\ ReplayInv'
  BY <1>1, <1>2 DEF EndInv, OfferedInv, BuiltInv, ReplayInv, Parsing
<1> QED
  BY <1>3, <1>5, <1>6 DEF ActionsInv

LEMMA StartReplayKeepsActions ==
  ASSUME ActionsInv, StacksInv, IInv, StartReplay
  PROVE  ActionsInv'
<1>1. /\ StartPass /\ pc = "accepted" /\ pc' = "replay" /\ i' = 0
      /\ UNCHANGED <<kinds, len, markerKind, action, offered, stale>> /\ ~stale
  BY DEF StartReplay, stream, client, history
<1>2. /\ StreamInv /\ EndInv /\ Builds(action) /\ action \in Seq(Int)
      /\ TokenAt(TokensTaken(action)) = offered
      /\ offered \in Nat /\ offered <= len - 1
  BY <1>1 DEF StacksInv, ActionsInv, OfferedInv, BuiltInv, Parsing, IInv, LogInv
<1>3. Driving' /\ SeenInv' /\ Pushed' = Started /\ Covered(derived') = 0
  BY <1>1, <1>2, StartPassDrives
<1>4. PICK none : none = SubSeq(action, 1, 0)
  OBVIOUS
<1>5. none = << >> /\ 0 \in 0 .. Len(action)
  BY <1>2, <1>4
<1>6. StackAfter(Started, none) = Started /\ TokensTaken(none) = 0
  BY <1>5, StackAfterNothing, TokensTakenByNothing
<1>7. ReplayInv'
  <2>1. SubSeq(action', 1, i') = none
    BY <1>1, <1>4
  <2>2. /\ Pushed' = StackAfter(Started, SubSeq(action', 1, i'))
        /\ Covered(derived') = TokensTaken(SubSeq(action', 1, i'))
    BY <1>3, <1>6, <2>1
  <2>3. i' \in 0 .. Len(action')
    BY <1>1, <1>5
  <2> QED
    BY <1>3, <2>2, <2>3 DEF ReplayInv
<1>8. OfferedInv'
  BY <1>1, <1>2 DEF OfferedInv, Parsing
<1>9. BuiltInv'
  BY <1>1, <1>2 DEF BuiltInv, Parsing, Builds, TokenAt
<1>10. EndInv' /\ BatchInv'
  BY <1>1, <1>2 DEF EndInv, BatchInv
<1> QED
  BY <1>3, <1>7, <1>8, <1>9, <1>10 DEF ActionsInv

(* The Monitor and a client that does nothing change nothing of it.        *)
LEMMA StutterKeepsActions ==
  ASSUME ActionsInv, Cancel \/ UNCHANGED vars
  PROVE  ActionsInv'
<1>1. UNCHANGED <<stream, driver, built, simulation, client, history, markerKind, stack,
                  locationStack, action, currentAction, pc>>
  BY DEF Cancel, vars
<1>2. UNCHANGED <<kinds, len, index, lastToken, curtok, current_kind, i, parseStack, nodes,
                  derived, sym, at, offered, before, stale, markerKind, stack, locationStack,
                  action, currentAction, pc>>
  BY <1>1 DEF stream, driver, built, simulation, client, history
<1>3. EndInv' /\ SeenInv'
  BY <1>2, SeenStays DEF ActionsInv, EndInv
<1>4. OfferedInv'
  BY <1>2 DEF ActionsInv, OfferedInv, Parsing
<1>5. BuiltInv'
  BY <1>2 DEF ActionsInv, BuiltInv, Parsing, Builds, TokenAt
<1>6. Pushed' = Pushed /\ Driving' = Driving
  BY <1>2 DEF Driving, Pushed, TokenAt
<1>7. BatchInv' /\ ReplayInv'
  BY <1>2, <1>6 DEF ActionsInv, BatchInv, ReplayInv, getKind
<1> QED
  BY <1>3, <1>4, <1>5, <1>7 DEF ActionsInv

(* A driver has taken so many tokens and stands at the next one.           *)
LEMMA DriverStands ==
  ASSUME Driving
  PROVE  /\ Covered(derived) \in Nat /\ curtok = TokenAt(Covered(derived)) /\ index = curtok
         /\ curtok \in 0 .. len - 1 /\ len \in Nat
         /\ curtok = 0 => markerKind # 0
         /\ Covered(derived) > 0 /\ markerKind # 0 => curtok = Covered(derived)
         /\ Covered(derived) > 0 => curtok > 0
         /\ IsViable(LRAutomaton, Pushed) /\ Last(Pushed) = currentAction
<1>1. PICK c \in Nat : c = Covered(derived)
  <2>1. derived \in Symbols
    BY DEF Driving
  <2>2. Len(derived) \in 0 .. Len(derived) /\ Until(derived, Len(derived)) = Covered(derived)
    BY <2>1, UntilAll
  <2> QED
    BY <2>1, <2>2, UntilIsNat
<1>2. PICK t : t = TokenAt(c)
  OBVIOUS
<1>3. index = t /\ curtok = t /\ len \in Nat /\ t \in 0 .. len - 1
  BY <1>1, <1>2 DEF Driving
<1>4. t = IF markerKind = 0 THEN c + 1 ELSE c
  BY <1>2 DEF TokenAt
<1>5. Last(Pushed) = currentAction
  BY PlacesAreThere DEF Driving, Pushed, Last
<1> QED
  BY <1>1, <1>2, <1>3, <1>4, <1>5 DEF Driving

(* What a driver looks up is an answer of the table, and it takes a token  *)
(* only where one is left.                                                 *)
LEMMA NextActionAnswers ==
  ASSUME StreamInv, EndInv, Driving,
         current_kind = IF curtok = 0 THEN markerKind ELSE getKind(curtok)
  PROVE  /\ Answers(LRAutomaton, Pushed, NextAction)
         /\ curtok < len - 1 \/ (~IsShift(NextAction) /\ ~IsShiftReduce(NextAction))
<1>1. /\ Begins(kinds) /\ len = Len(kinds) /\ len \in Nat /\ len >= 2
      /\ markerKind \in Markers
  BY DEF StreamInv, Begins
<1>2. /\ index = curtok /\ curtok \in 0 .. len - 1
      /\ curtok = 0 => markerKind # 0
      /\ IsViable(LRAutomaton, Pushed) /\ Last(Pushed) = currentAction
  BY DriverStands
<1>3. \A token \in 1 .. len - 1 : getKind(token) \in LRAutomaton.terminals
  <2>1. SUFFICES ASSUME NEW token \in 1 .. len - 1
                 PROVE  kinds[token + 1] \in LRAutomaton.terminals
    BY DEF getKind
  <2>2. token + 1 \in 2 .. Len(kinds)
    BY <1>1
  <2> QED
    BY <1>1, <2>2 DEF Begins
<1>4. current_kind \in LRAutomaton.terminals
  <2>1. CASE curtok = 0
    BY <1>1, <1>2, <2>1, TableAssumption
  <2>2. CASE curtok # 0
    <3>1. curtok \in 1 .. len - 1
      BY <1>1, <1>2, <2>2
    <3> QED
      BY <1>3, <2>2, <3>1
  <2> QED
    BY <2>1, <2>2
<1>5. Answers(LRAutomaton, Pushed, NextAction)
  <2>1. PICK a : a = LRAutomaton
    OBVIOUS
  <2>2. PICK s : s = Pushed
    OBVIOUS
  <2>3. Reads(a, 1)
    BY <1>1, <1>3, <2>1 DEF Reads
  <2>4. PICK first : first = 1
    OBVIOUS
  <2>5. index \in Int /\ index >= first - 1
    BY <1>1, <1>2, <2>4
  <2>6. IsAutomaton(a) /\ IsViable(a, s) /\ current_kind \in a.terminals /\ Reads(a, first)
    BY <1>2, <1>4, <2>1, <2>2, <2>3, <2>4, TableAssumption
  <2>7. Answers(a, s, tAction(Last(s), current_kind, index))
    BY ONLY <2>5, <2>6, tActionAnswers
  <2> QED
    BY <1>2, <2>1, <2>2, <2>7 DEF NextAction
<1>6. CASE curtok = len - 1
  <2>1. current_kind = EOFT_SYMBOL
    <3>1. curtok # 0 /\ curtok + 1 = len
      BY <1>1, <1>6
    <3> QED
      BY <3>1 DEF EndInv, getKind
  <2>2. PICK act : act = tableAction(currentAction, EOFT_SYMBOL)
    OBVIOUS
  <2>3. currentAction \in StatesOf(LRAutomaton)
    BY <1>2, TopIsAState
  <2>4. ~IsShift(act) /\ ~IsShiftReduce(act) /\ ~(act > LA_STATE_OFFSET)
    BY <2>2, <2>3, TableAssumption
  <2>5. NextAction = act
    BY <2>1, <2>2, <2>4 DEF NextAction, tAction, AsksForMore
  <2> QED
    BY <1>5, <2>4, <2>5
<1>7. CASE curtok # len - 1
  <2>1. curtok < len - 1
    BY <1>1, <1>2, <1>7
  <2> QED
    BY <1>5, <2>1
<1> QED
  BY <1>6, <1>7

LEMMA BatchTurnKeepsActions ==
  ASSUME ActionsInv, StacksInv, BatchTurn
  PROVE  ActionsInv'
<1>1. PICK act : act = NextAction
  OBVIOUS
<1>2. /\ pc = "batch" /\ pc' = "batch" /\ Turn(act)
      /\ current_kind' = IF IsReduce(act) THEN current_kind ELSE getKind(curtok')
      /\ UNCHANGED <<kinds, len, markerKind>>
  BY <1>1 DEF BatchTurn, InBatch, stream
<1>3. /\ StreamInv /\ EndInv /\ Driving /\ AllSaw(nodes, Tokens)
      /\ current_kind = IF curtok = 0 THEN markerKind ELSE getKind(curtok)
  BY <1>2 DEF StacksInv, ActionsInv, BatchInv, SeenInv
<1>4. Answers(LRAutomaton, Pushed, act) /\ (IsReduce(act) \/ curtok < len - 1)
  <2>1. IsReduce(act) \/ IsShift(act) \/ IsShiftReduce(act)
    BY <1>2 DEF Turn, TurnReduce, TurnShiftReduce, TurnShift
  <2> QED
    BY <1>1, <1>3, <2>1, NextActionAnswers
<1>5. Drives(act)
  BY <1>2, <1>3, <1>4, TurnDrives
<1>6. current_kind' = (IF curtok = 0 THEN markerKind ELSE getKind(curtok))'
  <2>1. CASE IsReduce(act)
    <3>1. curtok' = curtok
      BY <1>2, <2>1, KindsAreDistinct DEF Turn, TurnReduce, TurnShiftReduce, TurnShift
    <3> QED
      BY <1>2, <1>3, <2>1, <3>1 DEF getKind
  <2>2. CASE ~IsReduce(act)
    <3>1. PICK c \in Nat : c = Covered(derived)
      BY <1>3, DriverStands
    <3>2. PICK d : d = Covered(derived')
      OBVIOUS
    <3>3. d = c + 1
      BY <1>5, <2>2, <3>1, <3>2 DEF Drives
    <3>4. curtok' = TokenAt(d)'
      BY <1>5, <3>2 DEF Drives, Driving, TokenAt
    <3>5. curtok' # 0
      BY <3>1, <3>3, <3>4 DEF TokenAt
    <3> QED
      BY <1>2, <2>2, <3>5 DEF getKind
  <2> QED
    BY <2>1, <2>2
<1>7. BatchInv' /\ SeenInv'
  BY <1>5, <1>6 DEF Drives, BatchInv, SeenInv
<1>8. EndInv' /\ OfferedInv' /\ BuiltInv' /\ ReplayInv'
  BY <1>2, <1>3 DEF EndInv, OfferedInv, BuiltInv, ReplayInv, Parsing
<1> QED
  BY <1>7, <1>8 DEF ActionsInv

(* The log takes the tokens before the one on offer, so one is left where  *)
(* an action of it takes one.                                              *)
LEMMA ReplayTurnKeepsActions ==
  ASSUME ActionsInv, StacksInv, IInv, ReplayTurn
  PROVE  ActionsInv'
<1>1. /\ pc = "replay" /\ pc' = "replay" /\ i' = i + 1 /\ i < Len(action) /\ Turn(action[i + 1])
      /\ UNCHANGED <<kinds, len, markerKind, action, offered, stale>>
  BY DEF ReplayTurn, stream, client, history
<1>2. /\ Driving /\ i \in 0 .. Len(action) /\ EndInv /\ AllSaw(nodes, Tokens)
      /\ Pushed = StackAfter(Started, SubSeq(action, 1, i))
      /\ Covered(derived) = TokensTaken(SubSeq(action, 1, i))
      /\ Builds(action) /\ action \in Seq(Int) /\ TokenAt(TokensTaken(action)) = offered
      /\ offered \in Nat /\ offered <= len - 1 /\ ~stale
  BY <1>1 DEF ActionsInv, ReplayInv, BuiltInv, OfferedInv, SeenInv, Parsing, IInv, LogInv
<1>3. PICK k \in Nat : k = i
  BY <1>2
<1>4. PICK act : act = action[k + 1]
  OBVIOUS
<1>5. PICK part : part = SubSeq(action, 1, k)
  OBVIOUS
<1>6. PICK more : more = SubSeq(action, 1, k + 1)
  OBVIOUS
<1>7. k \in 0 .. Len(action) - 1 /\ Len(action) \in Nat /\ k + 1 \in 0 .. Len(action)
  BY <1>1, <1>2, <1>3
<1>8. part \in Seq(Int) /\ act \in Int /\ more = Append(part, act)
  <2>1. 0 \in Nat /\ 0 <= k /\ k < Len(action)
    BY <1>7
  <2>2. PICK m : m = 0
    OBVIOUS
  <2>3. /\ SubSeq(action, m + 1, k) \in Seq(Int) /\ action[k + 1] \in Int
        /\ SubSeq(action, m + 1, k + 1) = Append(SubSeq(action, m + 1, k), action[k + 1])
    BY <1>2, <1>3, <2>1, <2>2, SubSeqOneMore
  <2>4. m + 1 = 1
    BY <2>2
  <2> QED
    BY <1>4, <1>5, <1>6, <2>3, <2>4
<1>9. Answers(LRAutomaton, Pushed, act)
  BY <1>2, <1>3, <1>4, <1>7 DEF Builds
<1>10. PICK c \in Nat : c = Covered(derived)
  BY <1>2, DriverStands
<1>11. PICK t : t = TokensTaken(more)
  OBVIOUS
<1>12. t = IF IsReduce(act) THEN c ELSE c + 1
  BY <1>2, <1>3, <1>5, <1>8, <1>10, <1>11, TokensTakenByOneMore
<1>13. IsReduce(act) \/ curtok < len - 1
  <2>1. SUFFICES ASSUME ~IsReduce(act) PROVE curtok < len - 1
    OBVIOUS
  <2>2. PICK z : z = TokensTaken(action)
    OBVIOUS
  <2>3. z \in Nat /\ t <= z
    <3>1. PICK n : n = k + 1
      OBVIOUS
    <3>2. n \in 0 .. Len(action) /\ more = SubSeq(action, 1, n)
      BY <1>6, <1>7, <3>1
    <3> QED
      BY <1>2, <1>11, <2>2, <3>2, TokensTakenByPart
  <2>4. t = c + 1
    BY <1>12, <2>1
  <2>5. curtok = TokenAt(c) /\ TokenAt(z) = offered /\ len \in Nat
    BY <1>2, <1>10, <2>2, DriverStands
  <2>6. TokenAt(c) < TokenAt(z)
    BY <1>10, <2>3, <2>4 DEF TokenAt
  <2>7. TokenAt(c) \in Nat
    BY <1>10 DEF TokenAt
  <2> QED
    BY <1>2, <2>5, <2>6, <2>7
<1>14. Drives(act)
  BY <1>1, <1>2, <1>3, <1>4, <1>9, <1>13, TurnDrives
<1>15. ReplayInv'
  <2>1. SubSeq(action', 1, i') = more
    BY <1>1, <1>3, <1>6
  <2>2. Pushed' = StackAfter(Started, more)
    <3>1. StackAfter(Started, more) = AfterAction(StackAfter(Started, part), act)
      BY <1>8, StackAfterOneMore
    <3> QED
      BY <1>2, <1>3, <1>5, <1>14, <3>1 DEF Drives
  <2>3. Covered(derived') = t
    BY <1>10, <1>12, <1>14 DEF Drives
  <2>4. i' \in 0 .. Len(action')
    BY <1>1, <1>3, <1>7
  <2> QED
    BY <1>11, <1>14, <2>1, <2>2, <2>3, <2>4 DEF ReplayInv, Drives
<1>16. SeenInv'
  BY <1>14 DEF Drives, SeenInv
<1>17. OfferedInv'
  BY <1>1, <1>2 DEF OfferedInv, Parsing
<1>18. BuiltInv'
  BY <1>1, <1>2 DEF BuiltInv, Parsing, Builds, TokenAt
<1>19. EndInv' /\ BatchInv'
  BY <1>1, <1>2 DEF EndInv, BatchInv
<1> QED
  BY <1>15, <1>16, <1>17, <1>18, <1>19 DEF ActionsInv

LEMMA InitMakesActions ==
  ASSUME Init
  PROVE  ActionsInv
<1>1. PICK input \in Inputs : kinds = <<0>> \o input /\ len = Len(input) + 1
  BY DEF Init
<1>2. /\ input \in Seq(LRAutomaton.terminals) /\ input # << >>
      /\ input[Len(input)] = EOFT_SYMBOL
  BY TableAssumption
<1>3. PICK l \in Nat : l = Len(input) /\ l >= 1
  BY <1>2
<1>4. PICK x : x = <<0>>
  OBVIOUS
<1>5. PICK y : y = x \o input
  OBVIOUS
<1>6. y[l + 1] = input[l]
  BY <1>2, <1>3, <1>4, <1>5
<1>7. EndInv
  BY <1>1, <1>2, <1>3, <1>4, <1>5, <1>6 DEF EndInv
<1>8. SeenInv
  <2>1. PICK S : S = {}
    OBVIOUS
  <2>2. nodes \in Seq(S) /\ \A x0 \in S : Saw(x0, Tokens)
    BY <2>1 DEF Init
  <2> QED
    BY <2>2 DEF SeenInv, AllSaw
<1> QED
  BY <1>7, <1>8 DEF ActionsInv, OfferedInv, BuiltInv, BatchInv, ReplayInv, Parsing, Init

LEMMA NextKeepsActions ==
  ASSUME ActionsInv, StacksInv, StacksInv', IInv, [Next]_vars
  PROVE  ActionsInv'
  <1>1. CASE Work
    BY <1>1, BatchTurnKeepsActions, PassEndsActions, SimulateReduceKeepsActions,
       AdvanceKeepsActions, AnsweredKeepsActions, ReplayTurnKeepsActions DEF Work
  <1>2. CASE Client
    BY <1>2, CallKeepsActions, PassEndsActions, OfferKeepsActions, ResetKeepsActions,
       CorrectKeepsActions, ErrorResetPopsKeepsActions, ErrorResetRestartsKeepsActions,
       StartReplayKeepsActions DEF Client
  <1>3. CASE Cancel \/ UNCHANGED vars
    BY <1>3, StutterKeepsActions
  <1> QED  BY <1>1, <1>2, <1>3 DEF Next

THEOREM ActionsInvariance == Spec => []ActionsInv
  BY InitMakesActions, NextKeepsActions, StacksInvariance, Invariance, PTL DEF Spec

(* A node that was shown the n-th token taken saw that token.              *)
LEMMA SeenNode ==
  ASSUME markerKind \in Int, NEW x, Saw(x, Tokens)
  PROVE  SawItsTokens(x, TokenAt)
<1>1. /\ x.taken \in Nat /\ x.derived \in Symbols /\ DOMAIN x.parts = 1 .. Len(x.derived)
  BY DEF Saw
<1>2. PICK c \in Nat : c = Covered(x.derived)
  <2>1. Len(x.derived) \in 0 .. Len(x.derived) /\ Until(x.derived, Len(x.derived)) = Covered(x.derived)
    BY <1>1, UntilAll
  <2> QED
    BY <1>1, <2>1, UntilIsNat
<1>3. PICK start \in Int : start = x.taken - c
  BY <1>1, <1>2
<1>4. \A n \in Int : Tokens[n] = TokenAt(n)
  BY DEF Tokens
<1>5. x.first = TokenAt(start) /\ x.last = TokenAt(x.taken - 1)
  <2>1. x.first = Tokens[start] /\ x.last = Tokens[x.taken - 1]
    BY <1>2, <1>3 DEF Saw
  <2>2. x.taken - 1 \in Int
    BY <1>1
  <2> QED
    BY <1>3, <1>4, <2>1, <2>2
<1>6. ASSUME NEW p \in 1 .. Len(x.derived)
      PROVE  /\ x.parts[p].first = TokenAt(start + Before(x.derived, p))
             /\ x.parts[p].last = TokenAt(start + Before(x.derived, p + 1) - 1)
             /\ x.derived[p].node # 0 => x.parts[p].node = x.derived[p].node
  <2>1. PICK l \in Nat : l = Len(x.derived)
    BY <1>1 DEF Symbols
  <2>2. p - 1 \in 0 .. l /\ p \in 0 .. l /\ p + 1 - 1 = p
    BY <2>1
  <2>3. PICK u \in Nat : u = Until(x.derived, p - 1)
    <3>1. PICK q : q = p - 1
      OBVIOUS
    <3> QED
      BY <1>1, <2>1, <2>2, <3>1, UntilIsNat
  <2>4. PICK v \in Nat : v = Until(x.derived, p)
    BY <1>1, <2>1, <2>2, UntilIsNat
  <2>5. u = Before(x.derived, p) /\ v = Before(x.derived, p + 1)
    BY <2>2, <2>3, <2>4 DEF Before, Until
  <2>6. /\ x.parts[p].first = Tokens[start + u] /\ x.parts[p].last = Tokens[start + v - 1]
        /\ x.derived[p].node # 0 => x.parts[p].node = x.derived[p].node
    BY <1>2, <1>3, <2>3, <2>4 DEF Saw
  <2>7. start + u \in Int /\ start + v - 1 \in Int
    BY <1>3, <2>3, <2>4
  <2> QED
    BY <1>4, <2>5, <2>6, <2>7
<1> QED
  BY <1>1, <1>2, <1>3, <1>5, <1>6 DEF SawItsTokens

(* Whichever way of parsing, whatever the client corrects and restarts and *)
(* although the simulation writes over the places of the stack: every rule *)
(* action sees the tokens that its symbols cover, and their nodes.         *)
THEOREM RuleActionsAlwaysSeeTheirTokens == Spec => []RuleActionsSeeTheirTokens
  <1>1. ActionsInv /\ StacksInv => RuleActionsSeeTheirTokens
    <2>1. SUFFICES ASSUME ActionsInv, StacksInv, NEW k \in DOMAIN nodes
                   PROVE  SawItsTokens(nodes[k], TokenAt)
      BY DEF RuleActionsSeeTheirTokens
    <2>2. PICK S : nodes \in Seq(S) /\ \A x \in S : Saw(x, Tokens)
      BY <2>1 DEF ActionsInv, SeenInv, AllSaw
    <2>3. nodes[k] \in S
      BY <2>1, <2>2
    <2>4. markerKind \in Int
      BY <2>1, TableAssumption DEF StacksInv, StreamInv
    <2> QED
      BY <2>2, <2>3, <2>4, SeenNode
  <1> QED  BY <1>1, ActionsInvariance, StacksInvariance, PTL

=============================================================================
