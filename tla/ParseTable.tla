----------------------------- MODULE ParseTable -----------------------------
(***************************************************************************)
(* A parse table as the LPG generator lays it out and as ParseTableProxy   *)
(* reads it: one array per column, states, rules and symbols as indices.   *)
(*                                                                         *)
(* An action is one number.  In increasing order: reduce by a rule, shift  *)
(* to a state, accept, the index of a conflict row in baseAction, error,   *)
(* shift and reduce by a rule, and look ahead one more token.  baseAction  *)
(* also holds the left-hand sides of the rules and the gotos.              *)
(***************************************************************************)
EXTENDS Alternatives

CONSTANTS
  baseCheck,               \* the lengths of the rules
  termAction, termCheck,   \* the actions on terminals
  asr,                     \* state |-> the terminals that have an action in it
  NUM_RULES, START_STATE, ACCEPT_ACTION, ERROR_ACTION, LA_STATE_OFFSET,
  EOFT_SYMBOL, ERROR_SYMBOL,
  NT_OFFSET                \* added to a nonterminal to make a symbol of it

(* The actions keep to their ranges and every conflict row ends with a 0.  *)
ASSUME LayoutAssumption ==
  /\ NUM_RULES \in Nat /\ START_STATE \in Int /\ ACCEPT_ACTION \in Int
  /\ ERROR_ACTION \in Int /\ LA_STATE_OFFSET \in Int
  /\ NUM_RULES < START_STATE /\ START_STATE < ACCEPT_ACTION
  /\ ACCEPT_ACTION < ERROR_ACTION /\ ERROR_ACTION + NUM_RULES <= LA_STATE_OFFSET
  /\ \A i \in ACCEPT_ACTION + 1 .. ERROR_ACTION - 1 :
       /\ baseAction[i] \in Nat
       /\ baseAction[i] # 0 => i + 1 \in ACCEPT_ACTION + 1 .. ERROR_ACTION - 1

rhs(rule) == baseCheck[rule]
lhs(rule) == baseAction[rule]

ntAction(state, sym) == baseAction[state + sym]

(* The row at i: the entry of sym, or the default at its start.            *)
Entered(i, sym) == termAction[IF termCheck[i + sym] = sym THEN i + sym ELSE i]

tableAction(state, sym) == Entered(baseAction[state], sym)

lookAhead(la_state, sym) == Entered(la_state, sym)

(* The columns of the table are unsigned.                                  *)
IsReduce(act) == act \in 0 .. NUM_RULES
IsShift(act) == act \in NUM_RULES + 1 .. ACCEPT_ACTION - 1
IsConflict(act) == act \in ACCEPT_ACTION + 1 .. ERROR_ACTION - 1
IsShiftReduce(act) == act \in ERROR_ACTION + 1 .. LA_STATE_OFFSET

-----------------------------------------------------------------------------
(* A reduction and the goto-reductions that it sets off, where top is the  *)
(* position of the last symbol of the rule: what is left of the stack s,   *)
(* and the state to go to.                                                 *)
Reached(s, top, rule) ==
  LET reached[at \in Int \X (0 .. NUM_RULES)] ==
        LET act == ntAction(s[at[1]], lhs(at[2]))
        IN  IF IsReduce(act) THEN reached[<<at[1] - (rhs(act) - 1), act>>] ELSE <<at[1], act>>
  IN  reached[<<top - (rhs(rule) - 1), rule>>]

Reductions(s, top, rule) ==
  LET GoneTo[r \in Int \X Int] == Append(SubSeq(s, 1, r[1]), r[2])
  IN  GoneTo[Reached(s, top, rule)]

(* The stack after a reduce, a shift-reduce and a shift.  The symbol a     *)
(* shift-reduce shifts is never pushed.                                    *)
AfterReduce(s, act) == Reductions(s, Len(s) - 1, act)

AfterShiftReduce(s, act) == Reductions(s, Len(s), act - ERROR_ACTION)

AfterShift(s, act) == Append(s, act)

(* What one action of the log does to the stack, and how many tokens it    *)
(* takes.                                                                  *)
AfterAction(s, act) ==
  IF IsReduce(act) \/ IsShiftReduce(act)
  THEN Reductions(s, IF IsReduce(act) THEN Len(s) - 1 ELSE Len(s),
                     IF IsReduce(act) THEN act ELSE act - ERROR_ACTION)
  ELSE AfterShift(s, act)

(* The stack that a log of actions builds, and the tokens it takes.        *)
StackAfter(s, log) ==
  LET after[n \in 0 .. Len(log)] == IF n = 0 THEN s ELSE AfterAction(after[n - 1], log[n])
  IN  after[Len(log)]

TokensTaken(log) == Cardinality({i \in DOMAIN log : ~IsReduce(log[i])})
=============================================================================
