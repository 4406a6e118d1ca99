---------------------------- MODULE RuleActions -----------------------------
(***************************************************************************)
(* The rule actions of a generated parser and what the drivers show them.  *)
(*                                                                         *)
(* A rule action is the user's code.  It is taken to build a node from     *)
(* what the parser shows it: the first and the last token of each symbol   *)
(* on its right-hand side and the nodes of those that are nonterminals.    *)
(* With every symbol on the stack the history `derived' keeps what it      *)
(* really covers: its node, 0 for a terminal, and how many tokens.         *)
(***************************************************************************)
EXTENDS TokenStream

UNSET == -2      \* a position of parseStack nobody has written
NULLPTR == 0     \* nullptr: no node

Terminal == [node |-> 0, count |-> 1]

Covered(symbols) ==
  LET covered[n \in 0 .. Len(symbols)] ==
        IF n = 0 THEN 0 ELSE covered[n - 1] + symbols[n].count
  IN  covered[Len(symbols)]

(* What a driver has on its stack when rule actions run: the top, the      *)
(* nodes by position, the nodes built, and what the symbols cover.         *)
Shown(top, parseStack, nodes, derived) ==
  [top |-> top, parseStack |-> parseStack, nodes |-> nodes, derived |-> derived]

(* The arrays of a driver are not cut back: what is above the top of its   *)
(* stack stays there.                                                      *)
Written(array, p, value) ==
  [q \in DOMAIN array \cup {p} |-> IF q = p THEN value ELSE array[q]]

(* What a rule action asks for: the parser's answers for each position of  *)
(* the stack, the first token there and the one before it, and the last    *)
(* token.  So many tokens were taken.                                      *)
Answering(first, prior, last, taken) ==
  [first |-> first, prior |-> prior, last |-> last, taken |-> taken]

(* One turn of process_reductions: the action of the rule runs.            *)
RunRule(r, rule, answers) ==
  LET top == r.top - (rhs(rule) - 1)
      symbols == SubSeq(r.derived, top, Len(r.derived))
      node == [rule |-> rule,
               first |-> answers.first[top],
               last |-> answers.last,
               parts |-> [i \in 1 .. rhs(rule) |->
                            [first |-> answers.first[top + i - 1],
                             last |-> IF i >= rhs(rule) THEN answers.last
                                      ELSE answers.prior[top + i],
                             node |-> r.parseStack[top + i - 1]]],
               derived |-> symbols,
               taken |-> answers.taken]
      id == Len(r.nodes) + 1
  IN  Shown(top, [r.parseStack EXCEPT ![top] = id], Append(r.nodes, node),
            Append(SubSeq(r.derived, 1, top - 1), [node |-> id, count |-> Covered(symbols)]))

(* On stack s, with top the position of the last symbol of the rule: the   *)
(* rule and those of the goto-reductions that it sets off, what is left of *)
(* the stack, and where it goes on; a scanner's stop with a rule for a     *)
(* symbol of ends.                                                         *)
RulesOf(s, top, rule0, ends) ==
  LET rules[at \in Int \X (0 .. NUM_RULES) \X Seq(0 .. NUM_RULES)] ==
        LET act == ntAction(s[at[1]], lhs(at[2]))
        IN  IF lhs(at[2]) \notin ends /\ IsReduce(act)
            THEN rules[<<at[1] - (rhs(act) - 1), act, Append(at[3], act)>>]
            ELSE [top |-> at[1], act |-> act, rules |-> at[3]]
  IN  rules[<<top - (rhs(rule0) - 1), rule0, <<rule0>>>>]

(* Their actions run one after the other, each on what the one before has  *)
(* left (TLC is to compute that once, hence the set of one element).       *)
RunRules(shown, rules, answers) ==
  LET run[n \in 0 .. Len(rules)] ==
        IF n = 0 THEN shown
        ELSE CHOOSE r \in {RunRule(last, rules[n], answers) : last \in {run[n - 1]}} : TRUE
  IN  run[Len(rules)]

process_reductions(s, shown, rule, answers, ends) ==
  LET r == RulesOf(s, shown.top, rule, ends)
  IN  [shown |-> RunRules(shown, r.rules, answers), act |-> r.act]

(* parseStack has room for the state that has just been pushed.            *)
WithRoom(parseStack, s) ==
  IF Len(s) <= Len(parseStack) THEN parseStack ELSE Append(parseStack, UNSET)

-----------------------------------------------------------------------------
Before(symbols, i) == Covered(SubSeq(symbols, 1, i - 1))

(* A node saw the tokens its symbols cover: the first and the last one of  *)
(* the rule and of each symbol, also where symbols are empty, and the node *)
(* of each nonterminal.  TokenAt(n) is the n-th token taken, from 0.       *)
SawItsTokens(n, TokenAt(_)) ==
  LET start == n.taken - Covered(n.derived)
  IN  /\ n.first = TokenAt(start)
      /\ n.last = TokenAt(n.taken - 1)
      /\ \A i \in DOMAIN n.parts :
           /\ n.parts[i].first = TokenAt(start + Before(n.derived, i))
           /\ n.parts[i].last = TokenAt(start + Before(n.derived, i + 1) - 1)
           /\ n.derived[i].node # 0 => n.parts[i].node = n.derived[i].node
=============================================================================
