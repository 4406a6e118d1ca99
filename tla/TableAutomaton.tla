--------------------------- MODULE TableAutomaton ---------------------------
(***************************************************************************)
(* What the generator makes a table of: an LR automaton.  It is not in the *)
(* table; the parsers rely on it, because they look nothing up that they   *)
(* have not been told is there.                                            *)
(*                                                                         *)
(* An automaton a has edges: <<q, s>> if state s may be on top of q.  It   *)
(* has items: <<s, k, A>> if in state s the parser may be k symbols into a *)
(* rule for the nonterminal A; k symbols farther down is then a state that *)
(* knows where to go with A.  And it has what the table may answer with k  *)
(* tokens in state s: actions, <<s, k, act>>.                              *)
(***************************************************************************)
EXTENDS ParseTable

StatesOf(a) == {START_STATE} \cup {e[2] : e \in a.edges}

(* Nothing is below the start state, and below every state that is k       *)
(* symbols into a rule are states that are k - 1 symbols into it.          *)
ItemsReachDown(a) ==
  \A i \in a.items :
    i[2] > 0 => /\ i[1] # START_STATE
                /\ \A e \in a.edges : e[2] = i[1] => <<e[1], i[2] - 1, i[3]>> \in a.items

(* Where the parser goes with a nonterminal: to a state, or to a rule that *)
(* ends with it.  No nonterminal derives itself: a rank falls when the     *)
(* rule has no other symbol.                                               *)
GotosAreThere(a) ==
  \A i \in a.items :
    i[2] = 0 =>
      LET act == ntAction(i[1], i[3])
      IN  /\ a.rank[i[3]] \in Nat
          /\ IF IsReduce(act)
             THEN /\ rhs(act) > 0 /\ <<i[1], rhs(act) - 1, lhs(act)>> \in a.items
                  /\ rhs(act) = 1 => a.rank[lhs(act)] < a.rank[i[3]]
             ELSE <<i[1], act>> \in a.edges

(* A conflict is a row of actions, and every rest of it is one, too.       *)
RowIsThere(a, x) ==
  LET alternative == baseAction[x[3]]
  IN  /\ alternative # 0 /\ <<x[1], x[2], alternative>> \in a.actions
      /\ baseAction[x[3] + 1] # 0 => <<x[1], x[2], x[3] + 1>> \in a.actions

ActionsAreThere(a) ==
  /\ \A s \in StatesOf(a), t \in a.terminals : <<s, 1, tableAction(s, t)>> \in a.actions
  /\ \A x \in a.actions :
       LET act == x[3]
           rule == act - ERROR_ACTION
       IN  /\ IsReduce(act) => <<x[1], rhs(act), lhs(act)>> \in a.items
           /\ IsShift(act) => <<x[1], act>> \in a.edges
           /\ IsShiftReduce(act) =>
                /\ rule \in 0 .. NUM_RULES /\ rhs(rule) > 0
                /\ <<x[1], rhs(rule) - 1, lhs(rule)>> \in a.items
           /\ act > LA_STATE_OFFSET =>
                /\ x[2] < a.lookahead
                /\ \A t \in a.terminals :
                     <<x[1], x[2] + 1, lookAhead(act - LA_STATE_OFFSET, t)>> \in a.actions
           /\ IsConflict(act) => RowIsThere(a, x)

(* Numbers are numbers.                                                    *)
AutomatonTypes(a) ==
  /\ a.edges \subseteq Int \X Int
  /\ \A i \in a.items : i = <<i[1], i[2], i[3]>> /\ i[2] \in Nat
  /\ \A x \in a.actions : x = <<x[1], x[2], x[3]>> /\ x[2] \in Nat /\ x[3] \in Int
  /\ \A rule \in 0 .. NUM_RULES : rhs(rule) \in Nat
  /\ a.lookahead \in Nat

IsAutomaton(a) ==
  /\ AutomatonTypes(a)
  /\ \A e \in a.edges : e[2] # START_STATE
  /\ ItemsReachDown(a) /\ GotosAreThere(a) /\ ActionsAreThere(a)

(* A stack that spells a path of the automaton.                            *)
IsViable(a, s) ==
  /\ s \in Seq(Int) /\ Len(s) > 0 /\ s[1] = START_STATE
  /\ \A p \in 2 .. Len(s) : <<s[p - 1], s[p]>> \in a.edges

-----------------------------------------------------------------------------
(* The automaton of a table, as far as the terminals lead.                 *)
Automaton(terminals, lookahead) ==
  LET Parts == [edges : SUBSET (Int \X Int), items : SUBSET (Int \X Int \X Int),
                actions : SUBSET (Int \X Nat \X Int)]
      With(a, Test(_)) == {x \in a.actions : Test(x[3])}
      Begun(a) == {i \in a.items : i[2] = 0}
      Ends(i) == IsReduce(ntAction(i[1], i[3]))
      Item(state, rule, left) == <<state, rhs(rule) - left, lhs(rule)>>
      Wider(a) ==
        [edges |-> a.edges \cup {<<x[1], x[3]>> : x \in With(a, IsShift)}
                     \cup {<<i[1], ntAction(i[1], i[3])>> : i \in {j \in Begun(a) : ~Ends(j)}},
         items |-> a.items \cup {Item(x[1], x[3], 0) : x \in With(a, IsReduce)}
                     \cup {Item(x[1], x[3] - ERROR_ACTION, 1) : x \in With(a, IsShiftReduce)}
                     \cup {Item(i[1], ntAction(i[1], i[3]), 1) : i \in {j \in Begun(a) : Ends(j)}}
                     \cup {<<x[2][1], x[1][2] - 1, x[1][3]>> :
                             x \in {y \in (a.items \ Begun(a)) \X a.edges : y[2][2] = y[1][1]}},
         actions |-> a.actions
                       \cup {<<s, 1, tableAction(s, t)>> : s \in StatesOf(a), t \in terminals}
                       \cup {<<x[1], x[2] + 1, lookAhead(x[3] - LA_STATE_OFFSET, t)>> :
                               x \in With(a, LAMBDA act : act > LA_STATE_OFFSET), t \in terminals}
                       \cup {<<x[1], x[2], baseAction[x[3]]>> : x \in With(a, IsConflict)}
                       \cup {<<x[1], x[2], x[3] + 1>> :
                               x \in With(a, LAMBDA act : IsConflict(act) /\ baseAction[act + 1] # 0)}]
      explored[a \in Parts] == IF Wider(a) = a THEN a ELSE explored[Wider(a)]
      whole == explored[[edges |-> {}, items |-> {}, actions |-> {}]]
      nonterminals == {i[3] : i \in Begun(whole)}
      rank[nt \in nonterminals] ==
        LET alone == {i \in Begun(whole) : /\ i[3] = nt /\ Ends(i)
                                           /\ rhs(ntAction(i[1], nt)) = 1}
        IN  Max({0} \cup {rank[lhs(ntAction(i[1], nt))] + 1 : i \in alone})
  IN  [edges |-> whole.edges, items |-> whole.items, actions |-> whole.actions,
       rank |-> rank, terminals |-> terminals, lookahead |-> lookahead]
=============================================================================
