------------------------------ MODULE GLRParser -----------------------------
(***************************************************************************)
(* GLRParser: parseEntryNoRepair.  All configurations that are alive are   *)
(* advanced in turn, each with a stack of its own, until they shift; where *)
(* the table has a conflict, a configuration is copied for every           *)
(* alternative.  Rule actions run at once.  What the copies have in common *)
(* is shared through four tables that live as long as the parse: the packed *)
(* forest (sppfNodes), the nodes of the AST by reduction (familyCache) and *)
(* by symbol and extent (forestCache), and the graph of stacks (gssNodes). *)
(*                                                                         *)
(* A node of the AST that is found again by its symbol and extent becomes  *)
(* an alternative: it is hung into the nextAst chain of the first one.     *)
(* Rules with one symbol and no action leave the node of that symbol.      *)
(***************************************************************************)
EXTENDS RuleActions, TableAutomaton

CONSTANTS
  Inputs,        \* entry point |-> its token streams: sequences of kinds that end with EOF
  Monitored,     \* the Monitor may cancel
  NUM_STATES,
  NoAction,      \* external: the rules whose action is empty
  Grammar,       \* rule |-> its right-hand side, for the properties
  StartSymbol,   \* marker |-> the symbol of its entry point, the same
  LRAutomaton    \* the automaton that the table is made of, for the proofs

VARIABLES
  pc, result,
  marker,            \* the argument of parseEntry: 0, or the kind of a marker
  live, next,        \* the configurations of this round and of the next one
  work, out,         \* of one step: those to go on with, those that have shifted
  stepAccepts, accepts,
  guard,             \* the turns that the step has left
  errorTok,
  forest             \* the four tables, and the AST (nodes, nextAst)

vars == <<kinds, len, index, pc, result, marker, live, next, work, out,
          stepAccepts, accepts, guard, errorTok, forest>>
step == <<work, out, stepAccepts, guard>>
input == <<kinds, len, index, marker>>

expandConflict(act) ==
  LET n == CHOOSE n \in 1 .. ERROR_ACTION : /\ baseAction[act + n] = 0
                                            /\ \A i \in 0 .. n - 1 : baseAction[act + i] # 0
  IN  [i \in 1 .. n |-> baseAction[act + i - 1]]

(* What there is to do in a turn of stepConfig.                            *)
candidates(act) == IF IsConflict(act) THEN expandConflict(act) ELSE <<act>>

(* The table is made of an automaton that knows the tokens and the markers *)
(* of the entry points.  No state takes EOF, or looks behind it.           *)
ASSUME TableAssumption ==
  /\ IsAutomaton(LRAutomaton)
  /\ DOMAIN Inputs \ {0} \subseteq LRAutomaton.terminals
  /\ \A m \in DOMAIN Inputs : \A s \in Inputs[m] :
       s \in Seq(LRAutomaton.terminals) /\ s # <<>> /\ s[Len(s)] = EOFT_SYMBOL
  /\ \A s \in StatesOf(LRAutomaton) :
       LET act == tableAction(s, EOFT_SYMBOL)
       IN  /\ ~(act > LA_STATE_OFFSET)
           /\ \A cand \in ToSet(candidates(act)) : ~IsShift(cand) /\ ~IsShiftReduce(cand)

parseStackRoot == IF marker = 0 THEN 0 ELSE 1

Put(f, key, value) == [k \in DOMAIN f \cup {key} |-> IF k = key THEN value ELSE f[k]]

-----------------------------------------------------------------------------
(* The packed forest.  A node is found by a number; the symbol is          *)
(* multiplied by so much that only the extents can be mixed up.            *)
SppfKey(symbol, left, right) == <<symbol, left * 31 + right>>

sppfSymbol(sppf, symbol, left, right) ==
  LET key == SppfKey(symbol, left, right)
  IN  IF key \in DOMAIN sppf THEN sppf
      ELSE Put(sppf, key, [symbol |-> symbol, left |-> left, right |-> right, packs |-> <<>>,
                           astForest |-> NULLPTR])

(* Mutant: a node keeps its first pack.                                    *)
addFirstPacked(packs, pack) == IF packs = <<>> THEN <<pack>> ELSE packs

addPacked(packs, pack) ==
  IF \E i \in DOMAIN packs : packs[i] = pack THEN packs ELSE Append(packs, pack)

terminalSppf(sppf, kind, tok) ==
  LET key == SppfKey(kind, tok, tok)
      known == sppfSymbol(sppf, kind, tok, tok)
  IN  IF known[key].packs # <<>> THEN known
      ELSE [known EXCEPT ![key].packs = <<[rule |-> -kind, children |-> <<>>]>>]

-----------------------------------------------------------------------------
(* The chain of alternatives that begins with a node.                      *)
Chain(nextAst, root) ==
  LET chain[a \in Nat] == IF a = NULLPTR THEN <<>> ELSE <<a>> \o chain[nextAst[a]]
  IN  chain[root]

(* appendNextAst hangs what root's chain does not have yet behind it.  It  *)
(* fails if the two meet again further on.                                 *)
CanAppend(nextAst, root, alt) ==
  LET old == ToSet(Chain(nextAst, root))
      added == SelectSeq(Chain(nextAst, alt), LAMBDA a : a \notin old)
  IN  NULLPTR \notin {root, alt} /\ IsSuffix(added, Chain(nextAst, alt))

Appended(nextAst, root, alt) ==
  LET old == Chain(nextAst, root)
      added == SelectSeq(Chain(nextAst, alt), LAMBDA a : a \notin ToSet(old))
  IN  IF added = <<>> THEN nextAst ELSE [nextAst EXCEPT ![Last(old)] = Head(added)]

sameSpan(nodes, a, b) == nodes[a].first = nodes[b].first /\ nodes[a].last = nodes[b].last

-----------------------------------------------------------------------------
(* A configuration.  parseStack above the root is cleared with every push, *)
(* and the root is pushed once.  gss is the chain that starts at gssTip:   *)
(* gssPop takes its last node off, gssRelabel labels it.                   *)
Start(curtok, kind) ==
  [states |-> <<>>, locations |-> <<>>, symbols |-> <<>>, asts |-> <<>>, sppfs |-> <<>>,
   derived |-> <<>>, gss |-> <<>>, action |-> START_STATE, curtok |-> curtok,
   lastToken |-> 0, kind |-> kind]

GssNode(state, i) ==
  [state |-> state, index |-> i, symbol |-> 0, ast |-> NULLPTR, sppf |-> NULLPTR]

(* Mutant: a node is labelled only once.                                   *)
gssRelabelOnce(gss, symbol, ast, sppf) ==
  [gss EXCEPT ![Len(gss)] = IF @.symbol # 0 THEN @
                            ELSE [@ EXCEPT !.symbol = symbol, !.ast = ast, !.sppf = sppf]]

gssRelabel(gss, symbol, ast, sppf) ==
  [gss EXCEPT ![Len(gss)] = [@ EXCEPT !.symbol = symbol, !.ast = ast, !.sppf = sppf]]

(* The node of the shared graph gets an edge without a label.              *)
GssEdge(gss, state, i) ==
  [state |-> state, index |-> i, symbol |-> 0,
   predecessor |-> IF gss = <<>> THEN NULLPTR ELSE <<Last(gss).state, Last(gss).index>>]

Pushed(c) ==
  [c EXCEPT !.states = Append(@, c.action), !.locations = Append(@, c.curtok),
            !.symbols = Append(@, 0), !.asts = Append(@, NULLPTR), !.sppfs = Append(@, NULLPTR),
            !.gss = Append(@, GssNode(c.action, c.curtok))]

SameKey(c, d) ==
  /\ c.curtok = d.curtok /\ c.kind = d.kind /\ c.lastToken = d.lastToken
  /\ c.action = d.action /\ c.states = d.states /\ c.locations = d.locations
  /\ c.symbols = d.symbols

-----------------------------------------------------------------------------
(* m is a copy of a configuration on its way through one action: the       *)
(* configuration, the top of its stack, the tables, and whether an         *)
(* exception was thrown.                                                   *)

(* Mutant: only the same reduction is looked up.                           *)
CanonicalByReduction(m, reduction, symbol, ast) ==
  LET f == m.forest
  IN  IF reduction \in DOMAIN f.familyCache THEN [m EXCEPT !.ast = f.familyCache[reduction]]
      ELSE [m EXCEPT !.ast = ast, !.forest.familyCache = Put(@, reduction, ast)]

(* The node that stands for the result: the one of the same reduction, or  *)
(* the first one of the same symbol and extent, which takes it as an       *)
(* alternative.                                                            *)
Canonical(m, reduction, symbol, ast) ==
  LET f == m.forest
      key == <<symbol, f.nodes[ast].first, f.nodes[ast].last>>
      Found(a) == [m EXCEPT !.ast = a, !.forest.familyCache = Put(@, reduction, a)]
  IN  IF reduction \in DOMAIN f.familyCache THEN [m EXCEPT !.ast = f.familyCache[reduction]]
      ELSE IF key \notin DOMAIN f.forestCache
      THEN [Found(ast) EXCEPT !.forest.forestCache = Put(@, key, ast)]
      ELSE IF ~CanAppend(f.nextAst, f.forestCache[key], ast) THEN [m EXCEPT !.thrown = TRUE]
      ELSE [Found(f.forestCache[key])
              EXCEPT !.forest.nextAst = Appended(@, f.forestCache[key], ast)]

(* The rule action runs on the stack below m.top.                          *)
WithAction(m, rule, top) ==
  LET c == m.config
      prior == [i \in DOMAIN c.locations |-> getPrevious(c.locations[i])]
      run == RunRule(Shown(m.top, c.asts, m.forest.nodes, c.derived), rule,
                     Answering(c.locations, prior, c.lastToken, Covered(c.derived)))
  IN  IF rule \in NoAction THEN [m EXCEPT !.ast = c.asts[top]]
      ELSE [m EXCEPT !.ast = run.parseStack[top], !.forest.nodes = run.nodes,
                     !.forest.nextAst = Append(@, NULLPTR)]

(* The packed node of the result, and the result on the stack.             *)
WithResult(m, rule, top, symbol, children) ==
  LET c == m.config
      n == m.forest.nodes[m.ast]
      left == IF m.ast = NULLPTR THEN c.locations[top] ELSE n.first
      right == IF m.ast = NULLPTR THEN c.lastToken ELSE n.last
      key == SppfKey(symbol, left, right)
      gss == IF rhs(rule) > 0 THEN SubSeq(c.gss, 1, Len(c.gss) - (rhs(rule) - 1))
             ELSE Append(c.gss, GssNode(c.states[top], c.locations[top]))
      edges == IF rhs(rule) > 0 THEN {} ELSE {GssEdge(c.gss, c.states[top], c.locations[top])}
      sppf == [sppfSymbol(m.forest.sppfNodes, symbol, left, right) EXCEPT
                 ![key].packs = addPacked(@, [rule |-> rule, children |-> children]),
                 ![key].astForest = IF m.ast = NULLPTR THEN @ ELSE m.ast]
      Below(s, e) == Append(SubSeq(s, 1, top - 1), e)
  IN  [m EXCEPT
        !.top = top,
        !.forest.gssNodes = @ \cup edges,
        !.forest.sppfNodes = sppf,
        !.config = [c EXCEPT
          !.states = SubSeq(@, 1, top), !.locations = SubSeq(@, 1, top),
          !.symbols = Below(@, symbol), !.asts = Below(@, m.ast), !.sppfs = Below(@, key),
          !.derived = Below(@, [node |-> m.ast, count |-> Covered(SubSeq(@, top, Len(@)))]),
          !.gss = gssRelabel(gss, symbol, m.ast, key),
          !.action = ntAction(c.states[top], lhs(rule))]]

Reduced(m, rule) ==
  LET c == m.config
      top == m.top - (rhs(rule) - 1)
      handle == top .. top + rhs(rule) - 1
      Part(s) == [i \in 1 .. rhs(rule) |-> s[top + i - 1]]
      reduction == <<rule, c.lastToken, Part(c.locations), Part(c.symbols), Part(c.asts)>>
      acted == WithAction(m, rule, top)
      found == IF acted.ast = NULLPTR THEN acted
               ELSE Canonical(acted, reduction, NT_OFFSET + lhs(rule), acted.ast)
  IN  IF m.thrown THEN m
      ELSE IF found.thrown THEN found
      ELSE WithResult(found, rule, top, NT_OFFSET + lhs(rule), Part(c.sppfs))

(* applyReduceClosure: the rule and the goto-reductions behind it.         *)
applyReduceClosure(m, rule) == FoldLeft(Reduced, m, RulesOf(m.config.states, m.top, rule, {}).rules)

(* Mutant: the last token taken stays as it is.                            *)
TakenUnnoticed(c) ==
  LET key == SppfKey(c.kind, c.curtok, c.curtok)
      top == Len(c.states)
  IN  [c EXCEPT !.symbols[top] = c.kind, !.sppfs[top] = key,
                !.derived = Append(@, Terminal), !.gss = gssRelabel(@, c.kind, NULLPTR, key),
                !.curtok = getNext(c.curtok), !.kind = getKind(getNext(c.curtok))]

(* A token is taken: it becomes the symbol on top of the stack.            *)
Taken(c) ==
  LET key == SppfKey(c.kind, c.curtok, c.curtok)
      top == Len(c.states)
  IN  [c EXCEPT !.symbols[top] = c.kind, !.sppfs[top] = key,
                !.derived = Append(@, Terminal), !.gss = gssRelabel(@, c.kind, NULLPTR, key),
                !.lastToken = c.curtok, !.curtok = getNext(c.curtok),
                !.kind = getKind(getNext(c.curtok))]

Copy(c, f) == [config |-> c, top |-> Len(c.states), ast |-> NULLPTR, forest |-> f, thrown |-> FALSE]

(* What one action of the table makes of a copy of s.config.  s collects   *)
(* what the actions of a conflict make one after the other.                *)
applyConcreteAction(s, cand) ==
  LET c == s.config
      popped == [Copy([c EXCEPT !.gss = Front(@)], s.forest) EXCEPT !.top = @ - 1]
      taken == Copy(Taken(c), [s.forest EXCEPT !.sppfNodes = terminalSppf(@, c.kind, c.curtok)])
      Collect(m) == [s EXCEPT !.forest = m.forest, !.thrown = m.thrown,
                              !.work = IF m.thrown THEN @ ELSE Append(@, m.config)]
      root == parseStackRoot + 1
  IN  IF s.thrown THEN s
      ELSE IF IsReduce(cand) THEN Collect(applyReduceClosure(popped, cand))
      ELSE IF IsShiftReduce(cand) THEN Collect(applyReduceClosure(taken, cand - ERROR_ACTION))
      ELSE IF IsShift(cand)
      THEN [s EXCEPT !.forest = taken.forest, !.out = Append(@, [taken.config EXCEPT !.action = cand])]
      ELSE IF cand = ACCEPT_ACTION
      THEN [s EXCEPT !.accepts =
              Append(@, [ast |-> c.asts[root], symbol |-> c.symbols[root], sppf |-> c.sppfs[root]])]
      ELSE s

-----------------------------------------------------------------------------
(* packAccept and the packing of what has shifted: what is there already   *)
(* takes the other one's nodes as alternatives, if it can.                 *)
CanPack(f, a, b) ==
  a = b \/ (CanAppend(f.nextAst, a, b) /\ sameSpan(f.nodes, a, b))

packAccept(s, cand) ==
  LET same == {i \in DOMAIN s.accepts :
                 IF cand.ast = NULLPTR THEN s.accepts[i].ast = NULLPTR
                 ELSE s.accepts[i].symbol = cand.symbol /\ CanPack(s.forest, s.accepts[i].ast, cand.ast)}
  IN  IF same = {} THEN [s EXCEPT !.accepts = Append(@, cand)]
      ELSE IF cand.ast = NULLPTR THEN s
      ELSE [s EXCEPT !.forest.nextAst = Appended(@, s.accepts[Min(same)].ast, cand.ast)]

packConfig(s, c) ==
  LET packs == {i \in DOMAIN s.next :
                  /\ SameKey(s.next[i], c)
                  /\ \A k \in DOMAIN c.asts : CanPack(s.forest, s.next[i].asts[k], c.asts[k])}
      AppendAt(nextAst, k) ==
        IF c.asts[k] = NULLPTR THEN nextAst
        ELSE Appended(nextAst, s.next[Min(packs)].asts[k], c.asts[k])
  IN  IF packs = {} THEN [s EXCEPT !.next = Append(@, c)]
      ELSE [s EXCEPT !.forest.nextAst = FoldLeft(AppendAt, @, [k \in DOMAIN c.asts |-> k])]

-----------------------------------------------------------------------------
Outcome(kind, ast, sppf, token) == [kind |-> kind, ast |-> ast, sppf |-> sppf, token |-> token]

NoForest == [nodes |-> <<>>, nextAst |-> <<>>, familyCache |-> <<>>, forestCache |-> <<>>,
             sppfNodes |-> <<>>, gssNodes |-> {}]

Init ==
  /\ marker \in DOMAIN Inputs
  /\ kinds \in {<<0>> \o s : s \in Inputs[marker]} /\ len = Len(kinds) /\ index = getNext(0)
  /\ errorTok = IF marker = 0 THEN index ELSE getPrevious(index)
  /\ live = <<Start(errorTok, IF marker = 0 THEN getKind(index) ELSE marker)>>
  /\ pc = "round" /\ result = Outcome("none", NULLPTR, NULLPTR, 0)
  /\ next = <<>> /\ work = <<>> /\ out = <<>> /\ stepAccepts = <<>> /\ accepts = <<>>
  /\ guard = 0 /\ forest = NoForest

Return(outcome) == pc' = "done" /\ result' = outcome

(* A round begins.  The limit on the number of rounds is never reached: a  *)
(* configuration gets a token farther in each.                             *)
Round ==
  /\ pc = "round" /\ pc' = "step" /\ next' = <<>>
  /\ UNCHANGED <<input, result, live, step, accepts, errorTok, forest>>

Cancelled ==
  /\ Monitored /\ pc = "round" /\ Return(Outcome("cancelled", NULLPTR, NULLPTR, 0))
  /\ UNCHANGED <<input, live, next, step, accepts, errorTok, forest>>

(* stepConfig begins on the next configuration of the round.               *)
BeginStep ==
  /\ pc = "step" /\ live # <<>>
  /\ errorTok' = Max({errorTok, Head(live).curtok})
  /\ work' = <<Head(live)>> /\ live' = Tail(live)
  /\ out' = <<>> /\ stepAccepts' = <<>> /\ guard' = NUM_STATES * 4 + 8
  /\ pc' = "work"
  /\ UNCHANGED <<input, result, next, accepts, forest>>

(* One turn of stepConfig: the configuration put there last goes on.       *)
Turn ==
  /\ pc = "work" /\ work # <<>> /\ guard > 0
  /\ LET c == Pushed(Last(work))
         act == tAction(Last(work).action, c.kind, c.curtok)
         edge == GssEdge(Last(work).gss, c.action, c.curtok)
         s == FoldLeft(applyConcreteAction,
                       [config |-> c, work |-> Front(work), out |-> out, accepts |-> stepAccepts,
                        forest |-> [forest EXCEPT !.gssNodes = @ \cup {edge}], thrown |-> FALSE],
                       candidates(act))
     IN  /\ work' = s.work /\ out' = s.out /\ stepAccepts' = s.accepts /\ forest' = s.forest
         /\ IF s.thrown THEN Return(Outcome("cannot merge", NULLPTR, NULLPTR, 0))
            ELSE UNCHANGED <<pc, result>>
  /\ guard' = guard - 1
  /\ UNCHANGED <<input, live, next, accepts, errorTok>>

(* The guard against grammars that derive a symbol from itself.            *)
GuardThrows ==
  /\ pc = "work" /\ work # <<>> /\ guard = 0
  /\ Return(Outcome("cyclic", NULLPTR, NULLPTR, 0))
  /\ UNCHANGED <<input, live, next, step, accepts, errorTok, forest>>

(* stepConfig has returned: its results are packed.                        *)
EndStep ==
  /\ pc = "work" /\ work = <<>>
  /\ LET joined == FoldLeft(packAccept, [accepts |-> accepts, forest |-> forest], stepAccepts)
         packed == FoldLeft(packConfig, [next |-> next, forest |-> joined.forest], out)
     IN  /\ accepts' = joined.accepts /\ next' = packed.next
         /\ forest' = [forest EXCEPT !.nextAst = packed.forest.nextAst]
  /\ pc' = "step" /\ out' = <<>> /\ stepAccepts' = <<>>
  /\ UNCHANGED <<input, result, live, work, guard, errorTok>>

(* Mutant: another round begins with nothing left.                         *)
EndEmptyRound ==
  /\ pc = "step" /\ live = <<>> /\ (next # <<>> \/ accepts = <<>>)
  /\ live' = next /\ next' = <<>> /\ pc' = "round"
  /\ UNCHANGED <<input, result, step, accepts, errorTok, forest>>

EndRound ==
  /\ pc = "step" /\ live = <<>> /\ next # <<>>
  /\ live' = next /\ next' = <<>> /\ pc' = "round"
  /\ UNCHANGED <<input, result, step, accepts, errorTok, forest>>

BadParse ==
  /\ pc = "step" /\ live = <<>> /\ next = <<>> /\ accepts = <<>>
  /\ Return(Outcome("bad", NULLPTR, NULLPTR, errorTok))
  /\ UNCHANGED <<input, live, next, step, accepts, errorTok, forest>>

(* What was accepted is joined.                                            *)
Accept ==
  /\ pc = "step" /\ live = <<>> /\ next = <<>> /\ accepts # <<>>
  /\ LET first == Head(accepts)
         Join(m, other) ==
           IF m.thrown \/ other.symbol # first.symbol \/ ~CanAppend(m.nextAst, first.ast, other.ast)
           THEN [m EXCEPT !.thrown = TRUE]
           ELSE [m EXCEPT !.nextAst = Appended(@, first.ast, other.ast)]
         m == FoldLeft(Join, [nextAst |-> forest.nextAst, thrown |-> FALSE], Tail(accepts))
     IN  /\ forest' = [forest EXCEPT !.nextAst = m.nextAst]
         /\ Return(IF m.thrown THEN Outcome("cannot merge", NULLPTR, NULLPTR, 0)
                   ELSE Outcome("tree", first.ast, first.sppf, 0))
  /\ UNCHANGED <<input, live, next, step, accepts, errorTok>>

ParseStep ==
  \/ Round \/ BeginStep \/ Turn \/ GuardThrows \/ EndStep \/ EndRound \/ BadParse \/ Accept

(* parse has returned: the only place where nothing is left to do.         *)
Returned == pc = "done" /\ UNCHANGED vars

Next == ParseStep \/ Cancelled \/ Returned

(* WF_vars(ParseStep), with what enables it written out: one of its        *)
(* actions is enabled until the parse is done, or TLC would report a       *)
(* deadlock.                                                               *)
Fairness == []<>(pc = "done") \/ []<><<ParseStep>>_vars

Spec == Init /\ [][Next]_vars /\ Fairness

-----------------------------------------------------------------------------
(* What the grammar says of the tokens 1 .. len - 2: all <<symbol, left,   *)
(* right>> such that the symbol derives the tokens from left to right.     *)

(* The ways to cut the tokens from left to right into what alpha derives.  *)
Cuts(derivable, alpha0, left0, right) ==
  LET cuts[alpha \in Seq(Nat), left \in Nat] ==
        IF alpha = <<>> THEN IF left = right + 1 THEN {<<>>} ELSE {}
        ELSE UNION {{<<x>> \o rest : rest \in cuts[Tail(alpha), x[3] + 1]} :
                      x \in {y \in derivable : y[1] = Head(alpha) /\ y[2] = left /\ y[3] <= right}}
  IN  cuts[alpha0, left0]

Derivable ==
  LET extents == {e \in (1 .. len - 1) \X (0 .. len - 2) : e[1] <= e[2] + 1}
      derives[d \in SUBSET (Nat \X Nat \X Nat)] ==
        LET more == {<<NT_OFFSET + lhs(x[1]), x[2][1], x[2][2]>> :
                       x \in {y \in (DOMAIN Grammar) \X extents :
                                Cuts(d, Grammar[y[1]], y[2][1], y[2][2]) # {}}}
        IN  IF more \subseteq d THEN d ELSE derives[d \cup more]
  IN  derives[{<<getKind(i), i, i>> : i \in 1 .. len - 2}]

PacksIn(derivable, n) ==
  UNION {{[rule |-> rule, children |-> [i \in DOMAIN cut |-> SppfKey(cut[i][1], cut[i][2], cut[i][3])]] :
            cut \in Cuts(derivable, Grammar[rule], n.left, n.right)} :
           rule \in {r \in DOMAIN Grammar : NT_OFFSET + lhs(r) = n.symbol}}

IsNonterminal(symbol) == symbol > NT_OFFSET

(* The nodes of nonterminals that the root of the forest reaches.          *)
Reachable ==
  LET Children(key) == UNION {ToSet(p.children) : p \in ToSet(forest.sppfNodes[key].packs)}
      reach[keys \in SUBSET DOMAIN forest.sppfNodes] ==
        LET more == UNION {Children(key) : key \in keys}
        IN  IF more \subseteq keys THEN keys ELSE reach[keys \cup more]
  IN  {key \in reach[{result.sppf}] : IsNonterminal(key[1])}

(* The parse succeeds exactly for the sentences of the grammar, and the    *)
(* forest holds their derivations, all and nothing else: the packs of each *)
(* node that the root reaches are the ways to derive its symbol over its   *)
(* extent, each once.                                                      *)
ForestIsEveryDerivation ==
  result.kind \in {"tree", "bad"} =>
    LET derivable == Derivable
        sentence == <<StartSymbol[marker], 1, len - 2>>
    IN  /\ result.kind = "tree" <=> sentence \in derivable
        /\ result.kind = "tree" =>
             LET root == forest.sppfNodes[result.sppf]
             IN  /\ <<root.symbol, root.left, root.right>> = sentence
                 /\ \A key \in Reachable :
                      LET n == forest.sppfNodes[key]
                      IN  /\ ToSet(n.packs) = PacksIn(derivable, n)
                          /\ IsInjective(n.packs)

(* Symbols whose nodes rules without an action pass on.                    *)
Family(symbol0) ==
  LET related[symbols \in SUBSET Nat] ==
        LET more == UNION {{NT_OFFSET + lhs(r), Grammar[r][1]} :
                             r \in {q \in NoAction : {NT_OFFSET + lhs(q), Grammar[q][1]} \cap symbols # {}}}
        IN  IF more \subseteq symbols THEN symbols ELSE related[symbols \cup more]
  IN  related[{symbol0}]

(* The AST has the whole forest: the chain of alternatives that begins at  *)
(* a symbol's node has a node for each of its packs, made of the nodes of  *)
(* the children.  It may have more, since chains are shared where a rule   *)
(* has no action: nodes of the same extent and of related symbols.         *)
AlternativesOfASpan ==
  result.kind = "tree" =>
    \A key \in Reachable :
      LET n == forest.sppfNodes[key]
          AstOf(k) == forest.sppfNodes[k].astForest
          alternatives == ToSet(Chain(forest.nextAst, n.astForest))
      IN  /\ \A p \in ToSet(n.packs) :
               IF p.rule \in NoAction
               THEN ToSet(Chain(forest.nextAst, AstOf(p.children[1]))) \subseteq alternatives
               ELSE \E a \in alternatives :
                      /\ forest.nodes[a].rule = p.rule
                      /\ \A i \in DOMAIN p.children :
                           forest.nodes[a].parts[i].node = AstOf(p.children[i])
          /\ \A a \in alternatives :
               /\ forest.nodes[a].first = n.left /\ forest.nodes[a].last = n.right
               /\ NT_OFFSET + lhs(forest.nodes[a].rule) \in Family(n.symbol)

(* The rule actions run while copies of the stack come and go, and see     *)
(* their own one: the tokens their symbols cover and the nodes of those    *)
(* symbols.                                                                *)
RuleActionsSeeTheirTokens ==
  \A i \in DOMAIN forest.nodes :
    SawItsTokens(forest.nodes[i], LAMBDA n : Max({0, n + 1 - parseStackRoot}))

Configurations == ToSet(live) \cup ToSet(next) \cup ToSet(work) \cup ToSet(out)

(* The chain of nodes that a configuration holds on to spells its stack:   *)
(* the states, where each began, and what the stack has for its symbol.    *)
GssSpellsTheStack ==
  \A c \in Configurations :
    c.gss = [i \in DOMAIN c.states |->
              [state |-> c.states[i], index |-> c.locations[i], symbol |-> c.symbols[i],
               ast |-> c.asts[i], sppf |-> c.sppfs[i]]]

(* parseEntry returns or throws.                                           *)
ParseEnds == <>(pc = "done")
=============================================================================
