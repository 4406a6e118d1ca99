-------------------------- MODULE GLRParserProofs ---------------------------
(* The chain of the shared graph at gssTip spells the stack of every       *)
(* configuration, and every rule action sees the tokens and the nodes that *)
(* the symbols of its own copy cover.                                      *)
(*                                                                         *)
(* Both need that a stack never shrinks below what a reduction pops, which *)
(* is a fact about the table: TableAssumption says that it is made of an   *)
(* automaton, ParseTableProofs what stacks can be then.  A configuration   *)
(* between two turns is Ready: its stacks agree, its stack with its action *)
(* on top is viable.  During a turn a copy is Standing: its top may be one *)
(* below its last place, until the rule that is reduced goes on.           *)
(* Loops of the code that are folds in the model are proved along a trace  *)
(* of the fold (FoldOneMore), one round of the loop to a step.             *)
EXTENDS GLRParser, ParseTableProofs

-----------------------------------------------------------------------------
(* What is folded: rules of a copy, actions of a conflict, configurations  *)
(* into those of the next round.                                           *)
Done(what, x, y) ==
  CASE what = "rule" -> Reduced(x, y)
    [] what = "action" -> applyConcreteAction(x, y)
    [] what = "pack" -> packConfig(x, y)

(* The recursive function of a fold over the positions of a sequence.      *)
FoldRun(f, what, base, seq, D) ==
  f = [s \in SUBSET D |->
         IF s = {} THEN base ELSE Done(what, f[s \ {Max(s)}], seq[Max(s)])]

Fold(what, base, seq) == (CHOOSE f : FoldRun(f, what, base, seq, DOMAIN seq))[DOMAIN seq]

LEMMA RulesAreFolded ==
  ASSUME NEW m, NEW rules
  PROVE  FoldLeft(Reduced, m, rules) = Fold("rule", m, rules)
BY DEF FoldLeft, MapThenFoldSet, Max, Fold, FoldRun, Done

LEMMA ActionsAreFolded ==
  ASSUME NEW m, NEW seq
  PROVE  FoldLeft(applyConcreteAction, m, seq) = Fold("action", m, seq)
BY DEF FoldLeft, MapThenFoldSet, Max, Fold, FoldRun, Done

LEMMA PacksAreFolded ==
  ASSUME NEW m, NEW seq
  PROVE  FoldLeft(packConfig, m, seq) = Fold("pack", m, seq)
BY DEF FoldLeft, MapThenFoldSet, Max, Fold, FoldRun, Done

(* The greatest of the first positions.                                    *)
LEMMA LastPosition ==
  ASSUME NEW n \in Nat, NEW s \in SUBSET (1 .. n + 1), n + 1 \in s
  PROVE  Max(s) = n + 1 /\ s \ {n + 1} \in SUBSET (1 .. n)
<1>1. n + 1 \in s /\ \A y \in s : n + 1 >= y
  OBVIOUS
<1>2. \A x \in s : (\A y \in s : x >= y) => x = n + 1
  OBVIOUS
<1>3. PICK z : z = CHOOSE x \in s : \A y \in s : x >= y
  OBVIOUS
<1>4. z \in s /\ \A y \in s : z >= y
  BY ONLY <1>1, <1>3, Zenon
<1>5. z = n + 1
  BY ONLY <1>2, <1>4
<1>6. Max(s) = z
  BY ONLY <1>3 DEF Max
<1> QED
  BY ONLY <1>5, <1>6, n \in Nat, s \in SUBSET (1 .. n + 1)

LEMMA FoldRunsExist ==
  ASSUME NEW what, NEW base, NEW seq
  PROVE  \A n \in Nat : \E f : FoldRun(f, what, base, seq, 1 .. n)
<1> DEFINE Q == {n \in Nat : \E f : FoldRun(f, what, base, seq, 1 .. n)}
<1>1. 0 \in Q
  <2>1. PICK f : f = [s \in SUBSET (1 .. 0) |-> base]
    OBVIOUS
  <2>2. \A s \in SUBSET (1 .. 0) : s = {}
    OBVIOUS
  <2>3. FoldRun(f, what, base, seq, 1 .. 0)
    BY <2>1, <2>2 DEF FoldRun
  <2> QED
    BY <2>3
<1>2. ASSUME NEW n \in Nat, n \in Q PROVE n + 1 \in Q
  <2>1. PICK f : FoldRun(f, what, base, seq, 1 .. n)
    BY <1>2
  <2>2. PICK g : g = [s \in SUBSET (1 .. n + 1) |->
                       IF n + 1 \in s THEN Done(what, f[s \ {n + 1}], seq[n + 1]) ELSE f[s]]
    OBVIOUS
  <2>3. g = [s \in SUBSET (1 .. n + 1) |-> g[s]]
    BY ONLY <2>2
  <2>4. ASSUME NEW s \in SUBSET (1 .. n + 1)
        PROVE  g[s] = IF s = {} THEN base ELSE Done(what, g[s \ {Max(s)}], seq[Max(s)])
    <3>1. CASE n + 1 \in s
      <4>1. Max(s) = n + 1 /\ s \ {n + 1} \in SUBSET (1 .. n)
        BY <3>1, LastPosition
      <4>2. g[s] = Done(what, f[s \ {n + 1}], seq[n + 1])
        BY ONLY <2>2, <3>1, s \in SUBSET (1 .. n + 1)
      <4>3. g[s \ {n + 1}] = f[s \ {n + 1}]
        <5>1. PICK r : r = s \ {n + 1}
          OBVIOUS
        <5>2. r \in SUBSET (1 .. n + 1) /\ n + 1 \notin r
          BY <5>1
        <5>3. g[r] = f[r]
          BY ONLY <2>2, <5>2
        <5> QED
          BY ONLY <5>1, <5>3
      <4> QED
        BY ONLY <3>1, <4>1, <4>2, <4>3
    <3>2. CASE n + 1 \notin s
      <4>1. s \in SUBSET (1 .. n)
        BY <3>2
      <4>2. g[s] = f[s]
        BY ONLY <2>2, <3>2, s \in SUBSET (1 .. n + 1)
      <4>3. f[s] = IF s = {} THEN base ELSE Done(what, f[s \ {Max(s)}], seq[Max(s)])
        BY ONLY <2>1, <4>1 DEF FoldRun
      <4>4. g[s \ {Max(s)}] = f[s \ {Max(s)}]
        <5>1. PICK r : r = s \ {Max(s)}
          OBVIOUS
        <5>2. r \in SUBSET (1 .. n + 1) /\ n + 1 \notin r
          BY <3>2, <5>1
        <5>3. g[r] = f[r]
          BY ONLY <2>2, <5>2
        <5> QED
          BY ONLY <5>1, <5>3
      <4> QED
        BY ONLY <4>2, <4>3, <4>4
    <3> QED
      BY <3>1, <3>2
  <2>5. FoldRun(g, what, base, seq, 1 .. n + 1)
    <3>1. [s \in SUBSET (1 .. n + 1) |-> g[s]] =
            [s \in SUBSET (1 .. n + 1) |->
               IF s = {} THEN base ELSE Done(what, g[s \ {Max(s)}], seq[Max(s)])]
      BY <2>4
    <3> QED
      BY ONLY <2>3, <3>1 DEF FoldRun
  <2> QED
    BY <2>5
<1> HIDE DEF Q
<1>3. Nat \subseteq Q
  BY <1>1, <1>2, NatSetInduction
<1> QED
  BY <1>3 DEF Q

(* What the fold has come to after each position.                          *)
FoldsTo(g, what, base, seq, n) ==
  /\ g[0] = base
  /\ \A i \in 1 .. n : g[i] = Done(what, g[i - 1], seq[i])

LEMMA FoldTrace ==
  ASSUME NEW what, NEW base, NEW S, NEW seq \in Seq(S), NEW n, n = Len(seq)
  PROVE  \E g : FoldsTo(g, what, base, seq, n) /\ Fold(what, base, seq) = g[n]
<1>1. n \in Nat /\ DOMAIN seq = 1 .. n
  OBVIOUS
<1>2. PICK f : f = CHOOSE h : FoldRun(h, what, base, seq, 1 .. n)
  OBVIOUS
<1>3. FoldRun(f, what, base, seq, 1 .. n)
  BY <1>1, <1>2, FoldRunsExist
<1>4. PICK g : g = [i \in 0 .. n |-> f[1 .. i]]
  OBVIOUS
<1>5. g[0] = base
  <2>1. 1 .. 0 = {} /\ 1 .. 0 \in SUBSET (1 .. n) /\ 0 \in 0 .. n
    BY <1>1
  <2>2. f[1 .. 0] = base
    BY ONLY <1>3, <2>1 DEF FoldRun
  <2> QED
    BY <1>4, <2>1, <2>2
<1>6. ASSUME NEW i \in 1 .. n PROVE g[i] = Done(what, g[i - 1], seq[i])
  <2>1. PICK m \in Nat : m = i - 1 /\ i = m + 1
    BY <1>1
  <2>2. PICK s : s = 1 .. i
    OBVIOUS
  <2>3. s \in SUBSET (1 .. m + 1) /\ m + 1 \in s /\ s \in SUBSET (1 .. n) /\ s # {}
    BY <1>1, <2>1, <2>2
  <2>4. Max(s) = i
    BY <2>1, <2>3, LastPosition
  <2>5. s \ {i} = 1 .. m
    BY <2>1, <2>2
  <2>6. f[s] = Done(what, f[s \ {Max(s)}], seq[Max(s)])
    BY ONLY <1>3, <2>3 DEF FoldRun
  <2>7. g[i] = f[s] /\ g[m] = f[1 .. m]
    BY <1>1, <1>4, <2>1, <2>2
  <2> QED
    BY ONLY <2>1, <2>4, <2>5, <2>6, <2>7
<1>7. Fold(what, base, seq) = f[1 .. n]
  BY ONLY <1>1, <1>2 DEF Fold
<1>8. FoldsTo(g, what, base, seq, n)
  BY ONLY <1>5, <1>6 DEF FoldsTo
<1>9. g[n] = f[1 .. n]
  BY ONLY <1>1, <1>4
<1> QED
  BY ONLY <1>7, <1>8, <1>9

LEMMA FoldNothing ==
  ASSUME NEW what, NEW base
  PROVE  Fold(what, base, << >>) = base
<1>1. PICK seq : seq = << >>
  OBVIOUS
<1>2. PICK S : S = {}
  OBVIOUS
<1>3. PICK n : n = Len(seq)
  OBVIOUS
<1>4. n = 0
  BY ONLY <1>1, <1>3
<1>5. seq \in Seq(S)
  BY ONLY <1>1
<1>6. PICK g : FoldsTo(g, what, base, seq, n) /\ Fold(what, base, seq) = g[n]
  BY ONLY <1>3, <1>5, FoldTrace
<1>7. Fold(what, base, seq) = base
  BY ONLY <1>4, <1>6 DEF FoldsTo
<1> QED
  BY ONLY <1>1, <1>7

LEMMA FoldOneMore ==
  ASSUME NEW what, NEW base, NEW S, NEW seq \in Seq(S), NEW x \in S
  PROVE  Fold(what, base, Append(seq, x)) = Done(what, Fold(what, base, seq), x)
<1>1. PICK n \in Nat : n = Len(seq)
  OBVIOUS
<1>2. PICK more : more = Append(seq, x)
  OBVIOUS
<1>3. /\ more \in Seq(S) /\ Len(more) = n + 1 /\ more[n + 1] = x
      /\ \A i \in 1 .. n : more[i] = seq[i]
  BY <1>1, <1>2
<1>4. PICK f : FoldsTo(f, what, base, seq, n) /\ Fold(what, base, seq) = f[n]
  BY <1>1, FoldTrace
<1>5. PICK g : FoldsTo(g, what, base, more, n + 1) /\ Fold(what, base, more) = g[n + 1]
  <2>1. PICK l : l = n + 1
    OBVIOUS
  <2>2. \E g : FoldsTo(g, what, base, more, l) /\ Fold(what, base, more) = g[l]
    BY ONLY <1>3, <2>1, FoldTrace
  <2> QED
    BY <2>1, <2>2
<1>6. f[n] = g[n]
  <2>1. PICK Q : Q = {i \in Nat : i <= n => f[i] = g[i]}
    OBVIOUS
  <2>2. 0 \in Q
    BY ONLY <1>4, <1>5, <2>1 DEF FoldsTo
  <2>3. ASSUME NEW i \in Nat, i \in Q PROVE i + 1 \in Q
    <3>1. SUFFICES ASSUME i + 1 <= n PROVE f[i + 1] = g[i + 1]
      BY <2>1
    <3>2. PICK j : j = i + 1
      OBVIOUS
    <3>3. j \in 1 .. n /\ j \in 1 .. n + 1 /\ j - 1 = i
      BY <3>1, <3>2
    <3>4. f[j] = Done(what, f[j - 1], seq[j]) /\ g[j] = Done(what, g[j - 1], more[j])
      BY ONLY <1>4, <1>5, <3>3 DEF FoldsTo
    <3>5. f[i] = g[i]
      BY <2>1, <2>3, <3>1
    <3>6. more[j] = seq[j]
      BY <1>3, <3>3
    <3> QED
      BY ONLY <3>2, <3>3, <3>4, <3>5, <3>6
  <2>4. n \in Q
    BY <2>2, <2>3, NatSetInduction
  <2> QED
    BY <2>1, <2>4
<1>7. g[n + 1] = Done(what, g[n], x)
  <2>1. PICK j : j = n + 1
    OBVIOUS
  <2>2. j \in 1 .. n + 1 /\ j - 1 = n
    BY <2>1
  <2>3. g[j] = Done(what, g[j - 1], more[j])
    BY ONLY <1>5, <2>2 DEF FoldsTo
  <2> QED
    BY ONLY <1>3, <2>1, <2>2, <2>3
<1> QED
  BY <1>2, <1>4, <1>5, <1>6, <1>7

-----------------------------------------------------------------------------
(* A sequence with so many places.                                         *)
Row(s, n) == s = [i \in 1 .. n |-> s[i]]

LEMMA RowIsSequence ==
  ASSUME NEW n \in Nat, NEW s, Row(s, n)
  PROVE  \E S : s \in Seq(S) /\ Len(s) = n
<1>1. PICK S : S = {s[i] : i \in 1 .. n}
  OBVIOUS
<1>2. PICK f : f = [i \in 1 .. n |-> s[i]]
  OBVIOUS
<1>3. f \in Seq(S) /\ Len(f) = n
  BY <1>1, <1>2
<1> QED
  BY <1>2, <1>3 DEF Row

LEMMA SequenceIsRow ==
  ASSUME NEW S, NEW s \in Seq(S), NEW n, n = Len(s)
  PROVE  n \in Nat /\ Row(s, n)
BY DEF Row

(* One place more, some less, another value.                               *)
Grown(t, s, n, x) ==
  /\ Row(t, n + 1) /\ Len(t) = n + 1 /\ t[n + 1] = x /\ \A i \in 1 .. n : t[i] = s[i]

LEMMA RowGrows ==
  ASSUME NEW n \in Nat, NEW s, Row(s, n), NEW x, NEW t, t = Append(s, x)
  PROVE  Grown(t, s, n, x)
<1>1. PICK S : s \in Seq(S) /\ Len(s) = n
  BY RowIsSequence
<1>2. PICK U : U = S \cup {x}
  OBVIOUS
<1>3. s \in Seq(U) /\ x \in U
  <2>1. S \subseteq U
    BY <1>2
  <2>2. s \in Seq(U)
    BY <1>1, <2>1, SeqMonotonic
  <2> QED
    BY <1>2, <2>2
<1>4. /\ t \in Seq(U) /\ Len(t) = n + 1 /\ t[n + 1] = x
      /\ \A i \in 1 .. n : t[i] = s[i]
  BY <1>1, <1>3
<1>5. Row(t, n + 1)
  <2>1. PICK l : l = n + 1
    OBVIOUS
  <2> QED
    BY <1>4, <2>1, SequenceIsRow
<1> QED
  BY <1>4, <1>5 DEF Grown

IsCut(t, s, m) == Row(t, m) /\ Len(t) = m /\ \A i \in 1 .. m : t[i] = s[i]

LEMMA RowIsCut ==
  ASSUME NEW n \in Nat, NEW s, Row(s, n), NEW m \in 0 .. n, NEW t, t = SubSeq(s, 1, m)
  PROVE  IsCut(t, s, m)
<1>1. PICK S : s \in Seq(S) /\ Len(s) = n
  BY RowIsSequence
<1>2. t \in Seq(S) /\ Len(t) = m /\ \A i \in 1 .. m : t[i] = s[i]
  BY <1>1
<1>3. Row(t, m)
  BY <1>2, SequenceIsRow
<1> QED
  BY <1>2, <1>3 DEF IsCut

(* What is below a place, and another value there.                         *)
Replaced(t, s, m, x) ==
  Row(t, m) /\ Len(t) = m /\ t[m] = x /\ \A i \in 1 .. m - 1 : t[i] = s[i]

LEMMA RowReplaced ==
  ASSUME NEW n \in Nat, NEW s, Row(s, n), NEW m \in 1 .. n + 1, NEW x,
         NEW t, t = Append(SubSeq(s, 1, m - 1), x)
  PROVE  Replaced(t, s, m, x)
<1>1. PICK k \in 0 .. n : k = m - 1 /\ k + 1 = m
  OBVIOUS
<1>2. PICK below : below = SubSeq(s, 1, k)
  OBVIOUS
<1>3. IsCut(below, s, k)
  BY <1>2, RowIsCut
<1>4. t = Append(below, x)
  BY <1>1, <1>2
<1>5. Grown(t, below, k, x)
  <2>1. Row(below, k) /\ k \in Nat
    BY <1>3 DEF IsCut
  <2> QED
    BY ONLY <1>4, <2>1, RowGrows
<1> QED
  BY <1>1, <1>3, <1>5 DEF Grown, IsCut, Replaced

Changed(t, s, n, m, x) ==
  Row(t, n) /\ Len(t) = n /\ t[m] = x /\ \A i \in 1 .. n : i # m => t[i] = s[i]

LEMMA RowChanged ==
  ASSUME NEW n \in Nat, NEW s, Row(s, n), NEW m \in 1 .. n, NEW x, NEW t, t = [s EXCEPT ![m] = x]
  PROVE  Changed(t, s, n, m, x)
<1>1. t = [i \in 1 .. n |-> IF i = m THEN x ELSE s[i]]
  BY DEF Row
<1>2. t = [i \in 1 .. n |-> t[i]] /\ t[m] = x /\ \A i \in 1 .. n : i # m => t[i] = s[i]
  BY ONLY <1>1, m \in 1 .. n
<1>3. Row(t, n)
  BY ONLY <1>2 DEF Row
<1>4. Len(t) = n
  BY <1>3, RowIsSequence
<1> QED
  BY <1>2, <1>3, <1>4 DEF Changed

-----------------------------------------------------------------------------
(* What a configuration, a copy and the tables are.                        *)
IsConfig(c) ==
  c = [states |-> c.states, locations |-> c.locations, symbols |-> c.symbols, asts |-> c.asts,
       sppfs |-> c.sppfs, derived |-> c.derived, gss |-> c.gss, action |-> c.action,
       curtok |-> c.curtok, lastToken |-> c.lastToken, kind |-> c.kind]

IsCopy(m) ==
  m = [config |-> m.config, top |-> m.top, ast |-> m.ast, forest |-> m.forest,
       thrown |-> m.thrown]

IsForest(f) ==
  f = [nodes |-> f.nodes, nextAst |-> f.nextAst, familyCache |-> f.familyCache,
       forestCache |-> f.forestCache, sppfNodes |-> f.sppfNodes, gssNodes |-> f.gssNodes]

(* The nodes that the caches know; nodes of the AST are numbers.           *)
Caches(f) ==
  /\ \A x \in DOMAIN f.familyCache : f.familyCache[x] \in Nat
  /\ \A x \in DOMAIN f.forestCache : f.forestCache[x] \in Nat

Healthy(f, T) == IsForest(f) /\ Caches(f) /\ AllSaw(f.nodes, T)

(* The stacks have n places.                                               *)
Stacked(c, n) ==
  /\ n \in Nat
  /\ c.states \in Seq(Int) /\ Len(c.states) = n
  /\ c.asts \in Seq(Nat) /\ Len(c.asts) = n
  /\ Row(c.locations, n) /\ Row(c.symbols, n) /\ Row(c.sppfs, n)

(* The first k places have symbols that cover what was taken.              *)
Counted(c, k, T) ==
  /\ c.derived \in Symbols /\ Len(c.derived) = k
  /\ c.lastToken = T[Covered(c.derived) - 1]
  /\ Placed(c.locations, c.derived, k, T)
  /\ Linked(c.asts, c.derived)

(* The tokens are numbered in the order they are taken.                    *)
Numbers(T) ==
  \A k \in Nat : T[k] \in Int /\ T[k - 1] = getPrevious(T[k]) /\ T[k + 1] = T[k] + 1

Acted(r, m, T) ==
  /\ IsCopy(r) /\ r.config = m.config /\ r.top = m.top /\ r.thrown = m.thrown
  /\ r.ast \in Nat /\ Healthy(r.forest, T)

LEMMA WithActionActs ==
  ASSUME NEW T, Numbers(T), NEW m, IsCopy(m), Healthy(m.forest, T), NEW c, c = m.config,
         NEW n, Stacked(c, n), Counted(c, m.top, T), m.top <= n,
         NEW rule, rhs(rule) \in Nat, NEW top \in 1 .. n, top = m.top - (rhs(rule) - 1),
         top <= m.top \/ c.locations[top] = T[Covered(c.derived)],
         NEW r, r = WithAction(m, rule, top)
  PROVE  Acted(r, m, T)
<1>1. /\ n \in Nat /\ c.asts \in Seq(Nat) /\ c.asts \in Seq(Int) /\ Len(c.asts) = n
      /\ Row(c.locations, n)
  <2>1. Nat \subseteq Int
    OBVIOUS
  <2> QED
    BY <2>1, SeqMonotonic DEF Stacked
<1>2. /\ c.derived \in Symbols /\ Len(c.derived) = m.top
      /\ c.lastToken = T[Covered(c.derived) - 1]
      /\ Placed(c.locations, c.derived, m.top, T)
      /\ Linked(c.asts, c.derived)
  BY DEF Counted
<1>3. PICK prior : prior = [i \in DOMAIN c.locations |-> getPrevious(c.locations[i])]
  OBVIOUS
<1>4. \A i \in 1 .. n : prior[i] = getPrevious(c.locations[i])
  BY <1>1, <1>3 DEF Row
<1>5. PICK answers : answers = Answering(c.locations, prior, c.lastToken, Covered(c.derived))
  OBVIOUS
<1>6. /\ answers.first = c.locations /\ answers.prior = prior
      /\ answers.last = c.lastToken /\ answers.taken = Covered(c.derived)
  BY <1>5 DEF Answering
<1>7. PICK shown : shown = Shown(m.top, c.asts, m.forest.nodes, c.derived)
  OBVIOUS
<1>8. /\ shown.top = m.top /\ shown.parseStack = c.asts
      /\ shown.nodes = m.forest.nodes /\ shown.derived = c.derived
  BY <1>7 DEF Shown
<1>9. PICK run : run = RunRule(shown, rule, answers)
  OBVIOUS
<1>10. r = IF rule \in NoAction THEN [m EXCEPT !.ast = c.asts[top]]
           ELSE [m EXCEPT !.ast = run.parseStack[top], !.forest.nodes = run.nodes,
                          !.forest.nextAst = Append(@, NULLPTR)]
  BY <1>3, <1>5, <1>7, <1>9 DEF WithAction
<1>11. PlacedBefore(prior, c.derived, m.top, T)
  <2>1. SUFFICES ASSUME NEW p \in 1 .. m.top PROVE prior[p] = T[Until(c.derived, p - 1) - 1]
    BY DEF PlacedBefore
  <2>2. m.top \in Nat
    BY <1>2, UntilAll
  <2>3. PICK q : q = p - 1
    OBVIOUS
  <2>4. q \in 0 .. Len(c.derived) /\ p \in 1 .. n
    BY <1>1, <1>2, <2>2, <2>3
  <2>5. Until(c.derived, q) \in Nat
    BY <1>2, <2>4, UntilIsNat
  <2>6. c.locations[p] = T[Until(c.derived, q)]
    BY <1>2, <2>3 DEF Placed
  <2>7. T[Until(c.derived, q) - 1] = getPrevious(T[Until(c.derived, q)])
    BY <2>5 DEF Numbers
  <2> QED
    BY <1>4, <2>3, <2>4, <2>6, <2>7
<1>12. Showing(shown, n, answers, T)
  <2>1. AllSaw(m.forest.nodes, T)
    BY DEF Healthy
  <2>2. n <= Len(shown.parseStack)
    BY <1>1, <1>8
  <2> QED
    BY ONLY <1>2, <1>6, <1>8, <1>11, <2>1, <2>2 DEF Showing
<1>13. \/ top <= shown.top
       \/ answers.first[top] = T[answers.taken] /\ answers.prior[top] = T[answers.taken - 1]
  <2>1. CASE top <= m.top
    BY <1>8, <2>1
  <2>2. CASE c.locations[top] = T[Covered(c.derived)]
    <3>1. Covered(c.derived) \in Nat
      <4>1. Len(c.derived) \in 0 .. Len(c.derived) /\ Until(c.derived, Len(c.derived)) = Covered(c.derived)
        BY <1>2, UntilAll
      <4> QED
        BY <1>2, <4>1, UntilIsNat
    <3>2. T[Covered(c.derived) - 1] = getPrevious(T[Covered(c.derived)])
      BY <3>1 DEF Numbers
    <3> QED
      BY <1>4, <1>6, <2>2, <3>2
  <2> QED
    BY <2>1, <2>2
<1>14. AllSaw(run.nodes, T)
  <2>1. top = shown.top - (rhs(rule) - 1)
    BY <1>8
  <2>2. Showing(run, n, answers, T)
    BY ONLY <1>1, <1>9, <1>12, <1>13, <2>1, rhs(rule) \in Nat, top \in 1 .. n, RunRuleShows
  <2> QED
    BY <2>2 DEF Showing
<1>15. run.parseStack[top] \in Nat
  <2>1. PICK id : id = Len(m.forest.nodes) + 1
    OBVIOUS
  <2>2. id \in Nat
    BY <2>1 DEF Healthy, AllSaw
  <2>3. top = shown.top - (rhs(rule) - 1)
    BY <1>8
  <2>4. run.parseStack = [c.asts EXCEPT ![top] = id]
    BY ONLY <1>8, <1>9, <2>1, <2>3 DEF RunRule, Shown
  <2>5. top \in DOMAIN c.asts
    BY <1>1
  <2> QED
    BY <2>2, <2>4, <2>5
<1>16. /\ m = [config |-> m.config, top |-> m.top, ast |-> m.ast, forest |-> m.forest,
               thrown |-> m.thrown]
       /\ IsForest(m.forest) /\ Caches(m.forest) /\ AllSaw(m.forest.nodes, T)
  BY DEF IsCopy, Healthy
<1>17. CASE rule \in NoAction
  <2>1. r = [m EXCEPT !.ast = c.asts[top]]
    BY <1>10, <1>17
  <2>2. c.asts[top] \in Nat
    BY <1>1
  <2>3. /\ r.config = m.config /\ r.top = m.top /\ r.thrown = m.thrown /\ r.forest = m.forest
        /\ r.ast = c.asts[top] /\ IsCopy(r)
    BY ONLY <1>16, <2>1 DEF IsCopy
  <2> QED
    BY ONLY <1>16, <2>2, <2>3 DEF Acted, Healthy
<1>18. CASE rule \notin NoAction
  <2>1. PICK id \in Nat : id = run.parseStack[top]
    BY <1>15
  <2>2. PICK nextAst : nextAst = Append(m.forest.nextAst, NULLPTR)
    OBVIOUS
  <2>3. r = [m EXCEPT !.ast = id, !.forest.nodes = run.nodes, !.forest.nextAst = nextAst]
    BY <1>10, <1>18, <2>1, <2>2
  <2>4. /\ r.config = m.config /\ r.top = m.top /\ r.thrown = m.thrown
        /\ r.forest = [m.forest EXCEPT !.nodes = run.nodes, !.nextAst = nextAst]
        /\ r.ast = id /\ IsCopy(r)
    BY ONLY <1>16, <2>3 DEF IsCopy
  <2>5. /\ IsForest(r.forest) /\ r.forest.nodes = run.nodes
        /\ r.forest.familyCache = m.forest.familyCache
        /\ r.forest.forestCache = m.forest.forestCache
    BY ONLY <1>16, <2>4 DEF IsForest
  <2> QED
    BY ONLY <1>14, <1>16, <2>4, <2>5 DEF Acted, Healthy, Caches
<1> QED
  BY <1>17, <1>18

LEMMA PutKnows ==
  ASSUME NEW f, \A x \in DOMAIN f : f[x] \in Nat, NEW key, NEW a \in Nat, NEW g, g = Put(f, key, a)
  PROVE  \A x \in DOMAIN g : g[x] \in Nat
BY DEF Put

(* The node found instead, or none.                                        *)
FoundIn(r, m, T) ==
  /\ IsCopy(r) /\ r.config = m.config /\ r.top = m.top
  /\ r.ast \in Nat /\ Healthy(r.forest, T)

LEMMA CanonicalFinds ==
  ASSUME NEW T, NEW m, IsCopy(m), Healthy(m.forest, T), NEW reduction, NEW symbol,
         NEW ast \in Nat, m.ast \in Nat, NEW r, r = Canonical(m, reduction, symbol, ast)
  PROVE  FoundIn(r, m, T)
<1>1. PICK f : f = m.forest
  OBVIOUS
<1>2. /\ m = [config |-> m.config, top |-> m.top, ast |-> m.ast, forest |-> f,
              thrown |-> m.thrown]
      /\ f = [nodes |-> f.nodes, nextAst |-> f.nextAst, familyCache |-> f.familyCache,
              forestCache |-> f.forestCache, sppfNodes |-> f.sppfNodes, gssNodes |-> f.gssNodes]
      /\ \A x \in DOMAIN f.familyCache : f.familyCache[x] \in Nat
      /\ \A x \in DOMAIN f.forestCache : f.forestCache[x] \in Nat
      /\ AllSaw(f.nodes, T)
  BY <1>1 DEF IsCopy, Healthy, IsForest, Caches
<1>9. m = [config |-> m.config, top |-> m.top, ast |-> m.ast, forest |-> f,
           thrown |-> m.thrown]
  BY ONLY <1>2
<1>10. m = [config |-> m.config, top |-> m.top, ast |-> m.ast, forest |-> m.forest,
            thrown |-> m.thrown]
  BY DEF IsCopy
<1>3. PICK key : key = <<symbol, f.nodes[ast].first, f.nodes[ast].last>>
  OBVIOUS
<1>4. ASSUME NEW x, IsCopy(x), x.config = m.config, x.top = m.top, x.ast \in Nat,
             NEW g, g = x.forest, IsForest(g), g.nodes = f.nodes,
             \A y \in DOMAIN g.familyCache : g.familyCache[y] \in Nat,
             \A y \in DOMAIN g.forestCache : g.forestCache[y] \in Nat
      PROVE  FoundIn(x, m, T)
  BY ONLY <1>2, <1>4 DEF FoundIn, Healthy, Caches
<1>5. CASE reduction \in DOMAIN f.familyCache
  <2>1. PICK a : a = f.familyCache[reduction]
    OBVIOUS
  <2>2. r = [m EXCEPT !.ast = a] /\ a \in Nat
    BY <1>1, <1>2, <1>5, <2>1 DEF Canonical
  <2>3. r.config = m.config /\ r.top = m.top /\ r.ast = a /\ r.forest = f /\ IsCopy(r)
    BY ONLY <1>9, <2>2 DEF IsCopy
  <2>4. IsForest(f)
    BY ONLY <1>2 DEF IsForest
  <2> QED
    BY ONLY <1>2, <1>4, <2>2, <2>3, <2>4
<1>6. CASE reduction \notin DOMAIN f.familyCache /\ key \notin DOMAIN f.forestCache
  <2>1. PICK family : family = Put(f.familyCache, reduction, ast)
    OBVIOUS
  <2>2. PICK cache : cache = Put(f.forestCache, key, ast)
    OBVIOUS
  <2>3. r = [[m EXCEPT !.ast = ast, !.forest.familyCache = family]
               EXCEPT !.forest.forestCache = cache]
    BY ONLY <1>1, <1>2, <1>3, <1>6, <2>1, <2>2, r = Canonical(m, reduction, symbol, ast)
       DEF Canonical
  <2>4. PICK g : g = [f EXCEPT !.familyCache = family, !.forestCache = cache]
    OBVIOUS
  <2>5. r.config = m.config /\ r.top = m.top /\ r.ast = ast /\ r.forest = g /\ IsCopy(r)
    <3>1. PICK x : x = [m EXCEPT !.ast = ast, !.forest.familyCache = family]
      OBVIOUS
    <3>2. PICK h : h = [f EXCEPT !.familyCache = family]
      OBVIOUS
    <3>3. x = [config |-> m.config, top |-> m.top, ast |-> ast, forest |-> h,
               thrown |-> m.thrown]
      <4>1. h = [m.forest EXCEPT !.familyCache = family]
        BY ONLY <1>1, <3>2
      <4> QED
        BY ONLY <1>10, <3>1, <4>1
    <3>4. r = [x EXCEPT !.forest.forestCache = cache]
      BY ONLY <2>3, <3>1
    <3>5. r = [config |-> m.config, top |-> m.top, ast |-> ast,
               forest |-> [h EXCEPT !.forestCache = cache], thrown |-> m.thrown]
      BY ONLY <3>3, <3>4
    <3>6. g = [h EXCEPT !.forestCache = cache]
      BY ONLY <2>4, <3>2
    <3> QED
      BY ONLY <3>5, <3>6 DEF IsCopy
  <2>6. IsForest(g) /\ g.nodes = f.nodes /\ g.familyCache = family /\ g.forestCache = cache
    BY ONLY <1>2, <2>4 DEF IsForest
  <2>7. /\ \A y \in DOMAIN family : family[y] \in Nat
        /\ \A y \in DOMAIN cache : cache[y] \in Nat
    BY ONLY <1>2, <2>1, <2>2, ast \in Nat, PutKnows
  <2> QED
    BY ONLY <1>4, <2>5, <2>6, <2>7, ast \in Nat
<1>7. CASE /\ reduction \notin DOMAIN f.familyCache /\ key \in DOMAIN f.forestCache
           /\ ~CanAppend(f.nextAst, f.forestCache[key], ast)
  <2>4. PICK yes : yes = TRUE
    OBVIOUS
  <2>1. r = [m EXCEPT !.thrown = yes]
    BY ONLY <2>4, <1>1, <1>3, <1>7, r = Canonical(m, reduction, symbol, ast) DEF Canonical
  <2>2. r.config = m.config /\ r.top = m.top /\ r.ast = m.ast /\ r.forest = f /\ IsCopy(r)
    BY ONLY <1>9, <2>1 DEF IsCopy
  <2>3. IsForest(f)
    BY ONLY <1>2 DEF IsForest
  <2> QED
    BY ONLY <1>2, <1>4, <2>2, <2>3, m.ast \in Nat
<1>8. CASE /\ reduction \notin DOMAIN f.familyCache /\ key \in DOMAIN f.forestCache
           /\ CanAppend(f.nextAst, f.forestCache[key], ast)
  <2>1. PICK a : a = f.forestCache[key]
    OBVIOUS
  <2>2. a \in Nat
    BY <1>2, <1>8, <2>1
  <2>3. PICK family : family = Put(f.familyCache, reduction, a)
    OBVIOUS
  <2>4. PICK chains : chains = Appended(f.nextAst, a, ast)
    OBVIOUS
  <2>10. PICK x : x = [m EXCEPT !.ast = a, !.forest.familyCache = family]
    OBVIOUS
  <2>5. r = [x EXCEPT !.forest.nextAst = chains]
    <3>1. x.forest.nextAst = f.nextAst
      BY ONLY <1>2, <2>10
    <3>2. x = [m EXCEPT !.ast = a, !.forest.familyCache = Put(@, reduction, a)]
      BY ONLY <1>1, <2>3, <2>10
    <3>3. r = [x EXCEPT !.forest.nextAst = Appended(@, a, ast)]
      BY ONLY <1>1, <1>3, <1>8, <2>1, <3>2, r = Canonical(m, reduction, symbol, ast)
         DEF Canonical
    <3> QED
      BY ONLY <2>4, <3>1, <3>3
  <2>6. PICK g : g = [f EXCEPT !.familyCache = family, !.nextAst = chains]
    OBVIOUS
  <2>7. r.config = m.config /\ r.top = m.top /\ r.ast = a /\ r.forest = g /\ IsCopy(r)
    <3>1. PICK h : h = [f EXCEPT !.familyCache = family]
      OBVIOUS
    <3>2. x = [config |-> m.config, top |-> m.top, ast |-> a, forest |-> h,
               thrown |-> m.thrown]
      <4>1. h = [m.forest EXCEPT !.familyCache = family]
        BY ONLY <1>1, <3>1
      <4> QED
        BY ONLY <1>10, <2>10, <4>1
    <3>3. r = [config |-> m.config, top |-> m.top, ast |-> a,
               forest |-> [h EXCEPT !.nextAst = chains], thrown |-> m.thrown]
      BY ONLY <2>5, <3>2
    <3>4. g = [h EXCEPT !.nextAst = chains]
      BY ONLY <2>6, <3>1
    <3> QED
      BY ONLY <3>3, <3>4 DEF IsCopy
  <2>8. /\ IsForest(g) /\ g.nodes = f.nodes /\ g.familyCache = family
        /\ g.forestCache = f.forestCache
    BY ONLY <1>2, <2>6 DEF IsForest
  <2>9. \A y \in DOMAIN family : family[y] \in Nat
    BY ONLY <1>2, <2>2, <2>3, PutKnows
  <2> QED
    BY ONLY <1>2, <1>4, <2>2, <2>7, <2>8, <2>9
<1> QED
  BY <1>5, <1>6, <1>7, <1>8

(* The chain of nodes spells the first k places.                           *)
GssEntry(c, i) ==
  [state |-> c.states[i], index |-> c.locations[i], symbol |-> c.symbols[i],
   ast |-> c.asts[i], sppf |-> c.sppfs[i]]

Spelled(c, k) == Row(c.gss, k) /\ \A i \in 1 .. k : c.gss[i] = GssEntry(c, i)

(* What WithResult makes of the configuration.                             *)
LabelledAt(d, c, m, rule, top, symbol, key) ==
  /\ d.states = SubSeq(c.states, 1, top) /\ d.locations = SubSeq(c.locations, 1, top)
  /\ d.symbols = Append(SubSeq(c.symbols, 1, top - 1), symbol)
  /\ d.asts = Append(SubSeq(c.asts, 1, top - 1), m.ast)
  /\ d.sppfs = Append(SubSeq(c.sppfs, 1, top - 1), key)
  /\ d.derived = Append(SubSeq(c.derived, 1, top - 1),
                        [node |-> m.ast, count |-> Covered(SubSeq(c.derived, top, Len(c.derived)))])
  /\ d.gss = gssRelabel(IF rhs(rule) > 0 THEN SubSeq(c.gss, 1, Len(c.gss) - (rhs(rule) - 1))
                        ELSE Append(c.gss, GssNode(c.states[top], c.locations[top])),
                        symbol, m.ast, key)
  /\ d.action = ntAction(c.states[top], lhs(rule))
  /\ d.curtok = c.curtok /\ d.lastToken = c.lastToken /\ d.kind = c.kind

ResultMade(r, c, m, rule, top, symbol, T) ==
  /\ IsCopy(r) /\ IsConfig(r.config) /\ Healthy(r.forest, T)
  /\ r.top = top /\ r.thrown = m.thrown
  /\ \E key : LabelledAt(r.config, c, m, rule, top, symbol, key)

LEMMA WithResultMakes ==
  ASSUME NEW T, NEW m, IsCopy(m), Healthy(m.forest, T), NEW c, c = m.config, IsConfig(c),
         NEW rule, NEW top, NEW symbol, NEW children,
         NEW r, r = WithResult(m, rule, top, symbol, children)
  PROVE  ResultMade(r, c, m, rule, top, symbol, T)
<1>1. PICK f : f = m.forest
  OBVIOUS
<1>2. PICK left : left = IF m.ast = NULLPTR THEN c.locations[top] ELSE f.nodes[m.ast].first
  OBVIOUS
<1>3. PICK right : right = IF m.ast = NULLPTR THEN c.lastToken ELSE f.nodes[m.ast].last
  OBVIOUS
<1>4. PICK key : key = SppfKey(symbol, left, right)
  OBVIOUS
<1>5. PICK gss : gss = gssRelabel(IF rhs(rule) > 0
                                  THEN SubSeq(c.gss, 1, Len(c.gss) - (rhs(rule) - 1))
                                  ELSE Append(c.gss, GssNode(c.states[top], c.locations[top])),
                                  symbol, m.ast, key)
  OBVIOUS
<1>6. PICK edges : edges = IF rhs(rule) > 0 THEN {}
                           ELSE {GssEdge(c.gss, c.states[top], c.locations[top])}
  OBVIOUS
<1>7. PICK sppf : sppf =
        [sppfSymbol(m.forest.sppfNodes, symbol, left, right) EXCEPT
           ![key].packs = addPacked(@, [rule |-> rule, children |-> children]),
           ![key].astForest = IF m.ast = NULLPTR THEN @ ELSE m.ast]
  OBVIOUS
<1>8. PICK e : e = [c EXCEPT
          !.states = SubSeq(@, 1, top), !.locations = SubSeq(@, 1, top),
          !.symbols = Append(SubSeq(@, 1, top - 1), symbol),
          !.asts = Append(SubSeq(@, 1, top - 1), m.ast),
          !.sppfs = Append(SubSeq(@, 1, top - 1), key),
          !.derived = Append(SubSeq(@, 1, top - 1),
                             [node |-> m.ast, count |-> Covered(SubSeq(@, top, Len(@)))]),
          !.gss = gss,
          !.action = ntAction(c.states[top], lhs(rule))]
  OBVIOUS
<1>9. r = [m EXCEPT !.top = top, !.forest.gssNodes = @ \cup edges, !.forest.sppfNodes = sppf,
                    !.config = e]
  BY ONLY <1>1, <1>2, <1>3, <1>4, <1>5, <1>6, <1>7, <1>8, c = m.config,
          r = WithResult(m, rule, top, symbol, children), ZenonT(60) DEF WithResult
<1>10. /\ m = [config |-> m.config, top |-> m.top, ast |-> m.ast, forest |-> m.forest,
               thrown |-> m.thrown]
       /\ m.forest = [nodes |-> m.forest.nodes, nextAst |-> m.forest.nextAst,
                      familyCache |-> m.forest.familyCache,
                      forestCache |-> m.forest.forestCache,
                      sppfNodes |-> m.forest.sppfNodes, gssNodes |-> m.forest.gssNodes]
  BY DEF IsCopy, Healthy, IsForest
<1>11. PICK g : g = [m.forest EXCEPT !.gssNodes = @ \cup edges, !.sppfNodes = sppf]
  OBVIOUS
<1>12. r = [config |-> e, top |-> top, ast |-> m.ast, forest |-> g, thrown |-> m.thrown]
  BY ONLY <1>9, <1>10, <1>11
<1>13. IsCopy(r) /\ r.config = e /\ r.top = top /\ r.thrown = m.thrown /\ r.forest = g
  BY ONLY <1>12 DEF IsCopy
<1>14. Healthy(g, T)
  <2>1. /\ m.forest = [nodes |-> m.forest.nodes, nextAst |-> m.forest.nextAst,
                       familyCache |-> m.forest.familyCache,
                       forestCache |-> m.forest.forestCache,
                       sppfNodes |-> m.forest.sppfNodes, gssNodes |-> m.forest.gssNodes]
    BY DEF Healthy, IsForest
  <2>2. /\ IsForest(g) /\ g.nodes = m.forest.nodes
        /\ g.familyCache = m.forest.familyCache /\ g.forestCache = m.forest.forestCache
    BY ONLY <1>11, <2>1 DEF IsForest
  <2>3. Caches(m.forest) /\ AllSaw(m.forest.nodes, T)
    BY DEF Healthy
  <2> QED
    BY ONLY <2>2, <2>3 DEF Healthy, Caches
<1>15. c = [states |-> c.states, locations |-> c.locations, symbols |-> c.symbols,
            asts |-> c.asts, sppfs |-> c.sppfs, derived |-> c.derived, gss |-> c.gss,
            action |-> c.action, curtok |-> c.curtok, lastToken |-> c.lastToken,
            kind |-> c.kind]
  BY DEF IsConfig
<1>16. IsConfig(e) /\ LabelledAt(e, c, m, rule, top, symbol, key)
  BY ONLY <1>5, <1>8, <1>15 DEF IsConfig, LabelledAt
<1> QED
  BY <1>13, <1>14, <1>16 DEF ResultMade

(* A label on the last node of a chain.                                    *)
LEMMA Relabels ==
  ASSUME NEW n \in Nat, n > 0, NEW gss, Row(gss, n),
         NEW state, NEW at, NEW was, NEW node, NEW key,
         gss[n] = [state |-> state, index |-> at, symbol |-> was, ast |-> node, sppf |-> key],
         NEW symbol, NEW ast, NEW sppf, NEW t, t = gssRelabel(gss, symbol, ast, sppf)
  PROVE  Changed(t, gss, n, n, [state |-> state, index |-> at, symbol |-> symbol,
                                ast |-> ast, sppf |-> sppf])
<1>1. Len(gss) = n
  BY RowIsSequence
<1>2. PICK x : x = [gss[n] EXCEPT !.symbol = symbol, !.ast = ast, !.sppf = sppf]
  OBVIOUS
<1>3. x = [state |-> state, index |-> at, symbol |-> symbol, ast |-> ast, sppf |-> sppf]
  <2>1. PICK y : y = [state |-> state, index |-> at, symbol |-> was, ast |-> node, sppf |-> key]
    OBVIOUS
  <2>2. x = [y EXCEPT !.symbol = symbol, !.ast = ast, !.sppf = sppf]
    BY <1>2, <2>1
  <2> QED
    BY ONLY <2>1, <2>2
<1>4. t = [gss EXCEPT ![n] = x]
  BY ONLY <1>1, <1>2, t = gssRelabel(gss, symbol, ast, sppf) DEF gssRelabel
<1>5. n \in 1 .. n
  OBVIOUS
<1>6. Changed(t, gss, n, n, x)
  BY ONLY <1>4, <1>5, n \in Nat, Row(gss, n), RowChanged
<1> QED
  BY <1>3, <1>6

(* The chain below the result of a rule, and the result on it.             *)
LEMMA LabelledSpells ==
  ASSUME NEW c, NEW n, Stacked(c, n), NEW k \in Nat, k <= n, Spelled(c, k),
         NEW rule, rhs(rule) \in Nat, NEW top \in 1 .. n, top = k - (rhs(rule) - 1),
         NEW m, NEW symbol, NEW key, NEW d, LabelledAt(d, c, m, rule, top, symbol, key),
         d.states[top] = c.states[top], d.locations[top] = c.locations[top],
         d.symbols[top] = symbol, d.asts[top] = m.ast, d.sppfs[top] = key,
         \A i \in 1 .. top - 1 : GssEntry(d, i) = GssEntry(c, i)
  PROVE  Spelled(d, top)
<1>1. PICK base : base = IF rhs(rule) > 0 THEN SubSeq(c.gss, 1, Len(c.gss) - (rhs(rule) - 1))
                         ELSE Append(c.gss, GssNode(c.states[top], c.locations[top]))
  OBVIOUS
<1>2. d.gss = gssRelabel(base, symbol, m.ast, key)
  BY <1>1 DEF LabelledAt
<1>3. Row(c.gss, k) /\ Len(c.gss) = k /\ \A i \in 1 .. k : c.gss[i] = GssEntry(c, i)
  BY RowIsSequence DEF Spelled
<1>4. /\ Row(base, top) /\ \A i \in 1 .. top - 1 : base[i] = GssEntry(c, i)
      /\ \E was, node, sppf :
           base[top] = [state |-> c.states[top], index |-> c.locations[top], symbol |-> was,
                        ast |-> node, sppf |-> sppf]
  <2>1. CASE rhs(rule) > 0
    <3>1. base = SubSeq(c.gss, 1, top) /\ top \in 0 .. k /\ top \in 1 .. k
      BY <1>1, <1>3, <2>1
    <3>2. IsCut(base, c.gss, top)
      BY <1>3, <3>1, RowIsCut
    <3>3. base[top] = GssEntry(c, top)
      BY <1>3, <3>1, <3>2 DEF IsCut
    <3>4. \A i \in 1 .. top - 1 : base[i] = GssEntry(c, i)
      BY <1>3, <3>1, <3>2 DEF IsCut
    <3>5. base[top] = [state |-> c.states[top], index |-> c.locations[top],
                       symbol |-> c.symbols[top], ast |-> c.asts[top], sppf |-> c.sppfs[top]]
      BY ONLY <3>3 DEF GssEntry
    <3>6. Row(base, top)
      BY <3>2 DEF IsCut
    <3> QED
      BY ONLY <3>4, <3>5, <3>6, Zenon
  <2>2. CASE ~(rhs(rule) > 0)
    <3>1. top = k + 1
      BY <2>2
    <3>2. PICK x : x = GssNode(c.states[top], c.locations[top])
      OBVIOUS
    <3>3. base = Append(c.gss, x)
      BY <1>1, <2>2, <3>2
    <3>4. Grown(base, c.gss, k, x)
      BY <1>3, <3>3, RowGrows
    <3>5. base[top] = x /\ Row(base, top) /\ \A i \in 1 .. top - 1 : base[i] = GssEntry(c, i)
      BY <1>3, <3>1, <3>4 DEF Grown
    <3>6. base[top] = [state |-> c.states[top], index |-> c.locations[top], symbol |-> 0,
                       ast |-> NULLPTR, sppf |-> NULLPTR]
      BY ONLY <3>2, <3>5 DEF GssNode
    <3> QED
      BY ONLY <3>5, <3>6, Zenon
  <2> QED
    BY <2>1, <2>2
<1>5. PICK x : x = [state |-> c.states[top], index |-> c.locations[top], symbol |-> symbol,
                    ast |-> m.ast, sppf |-> key]
  OBVIOUS
<1>6. Changed(d.gss, base, top, top, x)
  <2>1. top \in Nat /\ top > 0
    BY DEF Stacked
  <2> QED
    BY ONLY <1>2, <1>4, <1>5, <2>1, Relabels
<1>7. GssEntry(d, top) = x
  BY <1>5 DEF GssEntry
<1>8. ASSUME NEW i \in 1 .. top PROVE d.gss[i] = GssEntry(d, i)
  <2>1. CASE i = top
    BY <1>6, <1>7, <2>1 DEF Changed
  <2>2. CASE i # top
    <3>1. i \in 1 .. top - 1
      BY <2>2
    <3>2. d.gss[i] = base[i]
      BY <1>6, <2>2 DEF Changed
    <3> QED
      BY <1>4, <3>1, <3>2
  <2> QED
    BY <2>1, <2>2
<1> QED
  BY <1>6, <1>8 DEF Changed, Spelled

Labelled(d, c, top, T) ==
  /\ Stacked(d, top) /\ Spelled(d, top) /\ Counted(d, top, T)
  /\ Covered(d.derived) = Covered(c.derived)
  /\ \A i \in 1 .. top : d.states[i] = c.states[i]

LEMMA LabelledStands ==
  ASSUME NEW T, NEW c, NEW n, Stacked(c, n), NEW k \in Nat, k <= n, Spelled(c, k),
         Counted(c, k, T),
         NEW rule, rhs(rule) \in Nat, NEW top \in 1 .. n, top = k - (rhs(rule) - 1),
         top <= k \/ c.locations[top] = T[Covered(c.derived)],
         NEW m, m.ast \in Nat, NEW symbol, NEW key,
         NEW d, LabelledAt(d, c, m, rule, top, symbol, key)
  PROVE  Labelled(d, c, top, T)
<1>1. /\ n \in Nat /\ c.states \in Seq(Int) /\ Len(c.states) = n
      /\ c.asts \in Seq(Nat) /\ Len(c.asts) = n
      /\ Row(c.locations, n) /\ Row(c.symbols, n) /\ Row(c.sppfs, n)
  BY DEF Stacked
<1>2. /\ c.derived \in Symbols /\ Len(c.derived) = k
      /\ c.lastToken = T[Covered(c.derived) - 1]
      /\ Placed(c.locations, c.derived, k, T)
      /\ Linked(c.asts, c.derived)
  BY DEF Counted
<1>3. PICK u \in Nat : u = top - 1 /\ top = u + 1
  <2>1. top - 1 \in Nat /\ top = (top - 1) + 1
    BY ONLY <1>1, top \in 1 .. n
  <2> QED
    BY ONLY <2>1, Zenon
<1>4. PICK ast \in Nat : ast = m.ast
  OBVIOUS
<1>5. PICK part : part = SubSeq(c.derived, u + 1, Len(c.derived))
  OBVIOUS
<1>6. PICK x : x = [node |-> ast, count |-> Covered(part)]
  OBVIOUS
<1>7. /\ d.states = SubSeq(c.states, 1, top) /\ d.locations = SubSeq(c.locations, 1, top)
      /\ d.symbols = Append(SubSeq(c.symbols, 1, u), symbol)
      /\ d.asts = Append(SubSeq(c.asts, 1, u), ast)
      /\ d.sppfs = Append(SubSeq(c.sppfs, 1, u), key)
      /\ d.derived = Append(SubSeq(c.derived, 1, u), x)
      /\ d.lastToken = c.lastToken
  <2>1. part = SubSeq(c.derived, top, Len(c.derived))
    BY <1>3, <1>5
  <2> QED
    BY ONLY <1>3, <1>4, <1>6, <2>1, LabelledAt(d, c, m, rule, top, symbol, key) DEF LabelledAt
<1>8. /\ d.states \in Seq(Int) /\ Len(d.states) = top
      /\ \A i \in 1 .. top : d.states[i] = c.states[i]
  BY ONLY <1>1, <1>7, top \in 1 .. n
<1>9. IsCut(d.locations, c.locations, top)
  <2>1. top \in 0 .. n
    BY <1>1
  <2> QED
    BY ONLY <1>1, <1>7, <2>1, RowIsCut
<1>10. Replaced(d.symbols, c.symbols, top, symbol) /\ Replaced(d.sppfs, c.sppfs, top, key)
  <2>1. top \in 1 .. n + 1
    BY <1>1
  <2>2. d.symbols = Append(SubSeq(c.symbols, 1, top - 1), symbol)
    BY <1>3, <1>7
  <2>3. d.sppfs = Append(SubSeq(c.sppfs, 1, top - 1), key)
    BY <1>3, <1>7
  <2> QED
    BY ONLY <1>1, <2>1, <2>2, <2>3, RowReplaced
<1>11. /\ d.asts \in Seq(Nat) /\ Len(d.asts) = top /\ d.asts[top] = ast
       /\ \A i \in 1 .. u : d.asts[i] = c.asts[i]
  BY ONLY <1>1, <1>3, <1>4, <1>7, top \in 1 .. n
<1>12. u \in 0 .. Len(c.derived)
  BY <1>2, <1>3
<1>13. /\ Covered(part) \in Nat /\ Covered(c.derived) = Until(c.derived, u) + Covered(part)
  <2>1. IsRest(part, c.derived, u)
    BY ONLY <1>2, <1>5, <1>12, UntilOfPart
  <2> QED
    BY <2>1 DEF IsRest
<1>14. /\ d.derived \in Symbols /\ Len(d.derived) = u + 1 /\ d.derived[u + 1] = x
       /\ \A p \in 1 .. u : d.derived[p] = c.derived[p]
       /\ \A p \in 0 .. u : Until(d.derived, p) = Until(c.derived, p)
       /\ Covered(d.derived) = Until(c.derived, u) + x.count
  <2>1. x \in [node : Nat, count : Nat]
    BY <1>6, <1>13
  <2>2. PICK e \in Symbols : e = c.derived
    BY <1>2
  <2>3. PICK more : more = Append(SubSeq(e, 1, u), x)
    OBVIOUS
  <2>4. u \in 0 .. Len(e)
    BY <1>12, <2>2
  <2>5. /\ more \in Symbols /\ Len(more) = u + 1 /\ more[u + 1] = x
        /\ \A p \in 1 .. u : more[p] = e[p]
        /\ \A p \in 0 .. u : Until(more, p) = Until(e, p)
        /\ Covered(more) = Until(e, u) + x.count
    BY ONLY <2>1, <2>3, <2>4, e \in Symbols, UntilOfOneMore
  <2>6. d.derived = more
    BY <1>7, <2>2, <2>3
  <2> QED
    BY ONLY <2>2, <2>5, <2>6
<1>15. Covered(d.derived) = Covered(c.derived)
  BY <1>6, <1>13, <1>14
<1>16. Placed(d.locations, d.derived, top, T)
  <2>1. SUFFICES ASSUME NEW p \in 1 .. top PROVE d.locations[p] = T[Until(d.derived, p - 1)]
    BY DEF Placed
  <2>2. d.locations[p] = c.locations[p]
    BY <1>9 DEF IsCut
  <2>3. PICK q : q = p - 1
    OBVIOUS
  <2>4. q \in 0 .. u
    BY <1>3, <2>3
  <2>5. Until(d.derived, q) = Until(c.derived, q)
    BY <1>14, <2>4
  <2>6. CASE p <= k
    <3>1. p \in 1 .. k
      BY <2>6
    <3>2. c.locations[p] = T[Until(c.derived, p - 1)]
      BY <1>2, <3>1 DEF Placed
    <3> QED
      BY <2>2, <2>3, <2>5, <3>2
  <2>7. CASE ~(p <= k)
    <3>1. p = top /\ ~(top <= k) /\ q = k
      BY <1>3, <2>3, <2>7
    <3>2. Until(c.derived, k) = Covered(c.derived)
      BY <1>2, UntilAll
    <3> QED
      BY <2>2, <2>3, <2>5, <3>1, <3>2
  <2> QED
    BY <2>6, <2>7
<1>17. Linked(d.asts, d.derived)
  <2>1. d.asts \in Seq(Int)
    <3>1. Nat \subseteq Int
      OBVIOUS
    <3> QED
      BY <1>11, <3>1, SeqMonotonic
  <2>2. ASSUME NEW p \in 1 .. Len(d.derived), d.derived[p].node # 0
        PROVE  d.asts[p] = d.derived[p].node
    <3>1. CASE p = top
      <4>1. d.derived[p] = x /\ d.asts[p] = ast
        BY ONLY <1>3, <1>11, <1>14, <3>1
      <4>2. x.node = ast
        BY ONLY <1>6
      <4> QED
        BY ONLY <4>1, <4>2
    <3>2. CASE p # top
      <4>1. p \in 1 .. u /\ p \in 1 .. Len(c.derived)
        BY <1>3, <1>12, <1>14, <1>2, <3>2
      <4>2. d.asts[p] = c.asts[p] /\ d.derived[p] = c.derived[p]
        BY <1>11, <1>14, <4>1
      <4> QED
        BY <1>2, <2>2, <4>1, <4>2 DEF Linked
    <3> QED
      BY <3>1, <3>2
  <2>3. Len(d.derived) <= Len(d.asts)
    BY <1>3, <1>11, <1>14
  <2> QED
    BY <2>1, <2>2, <2>3 DEF Linked
<1>18. Counted(d, top, T)
  BY ONLY <1>2, <1>3, <1>7, <1>14, <1>15, <1>16, <1>17 DEF Counted
<1>19. Stacked(d, top)
  <2>1. top \in Nat
    BY <1>1
  <2> QED
    BY ONLY <1>8, <1>9, <1>10, <1>11, <2>1 DEF Stacked, IsCut, Replaced
<1>20. Spelled(d, top)
  <2>1. d.states[top] = c.states[top] /\ d.locations[top] = c.locations[top]
    <3>1. top \in 1 .. top
      BY ONLY <1>3
    <3> QED
      BY ONLY <1>8, <1>9, <3>1 DEF IsCut
  <2>2. d.symbols[top] = symbol /\ d.asts[top] = m.ast /\ d.sppfs[top] = key
    BY <1>4, <1>10, <1>11 DEF Replaced
  <2>3. ASSUME NEW i \in 1 .. top - 1 PROVE GssEntry(d, i) = GssEntry(c, i)
    <3>1. i \in 1 .. top /\ i \in 1 .. u
      BY <1>3
    <3>2. d.states[i] = c.states[i] /\ d.locations[i] = c.locations[i] /\ d.asts[i] = c.asts[i]
      BY <1>8, <1>9, <1>11, <3>1 DEF IsCut
    <3>3. d.symbols[i] = c.symbols[i] /\ d.sppfs[i] = c.sppfs[i]
      BY <1>10 DEF Replaced
    <3> QED
      BY <3>2, <3>3 DEF GssEntry
  <2> QED
    BY ONLY <2>1, <2>2, <2>3, Stacked(c, n), k \in Nat, k <= n, Spelled(c, k),
            rhs(rule) \in Nat, top \in 1 .. n, top = k - (rhs(rule) - 1),
            LabelledAt(d, c, m, rule, top, symbol, key), LabelledSpells
<1> QED
  BY <1>8, <1>15, <1>18, <1>19, <1>20 DEF Labelled

-----------------------------------------------------------------------------
(* The token that comes next.                                              *)
Reading(c, T) ==
  /\ c.curtok = T[Covered(c.derived)] /\ c.curtok \in 0 .. len - 1
  /\ c.kind \in LRAutomaton.terminals
  /\ c.kind # EOFT_SYMBOL => c.curtok + 1 < len

(* A copy on its way: it has a bottom of the stack s, symbols up to its    *)
(* top, and at most one place more, where the next token is.               *)
Standing(m, s, T) ==
  LET c == m.config
      n == Len(c.states)
  IN  /\ IsCopy(m) /\ IsConfig(c) /\ Healthy(m.forest, T)
      /\ m.top \in Nat /\ m.top <= n /\ n <= m.top + 1
      /\ Stacked(c, n) /\ Spelled(c, m.top) /\ Counted(c, m.top, T)
      /\ n > m.top => c.locations[n] = T[Covered(c.derived)]
      /\ n <= Len(s) /\ \A i \in 1 .. n : c.states[i] = s[i]
      /\ Reading(c, T)

(* The rule has been reduced, down to top, or an exception was thrown.     *)
LeftAt(r, s, top, rule, T) ==
  /\ Healthy(r.forest, T)
  /\ \/ r.thrown
     \/ /\ Standing(r, s, T) /\ r.top = top /\ Len(r.config.states) = top
        /\ r.config.action = ntAction(s[top], lhs(rule))

LEMMA ReducedStands ==
  ASSUME NEW T, Numbers(T), NEW s, NEW m, Standing(m, s, T), ~m.thrown,
         NEW rule, rhs(rule) \in Nat, NEW top \in 1 .. Len(m.config.states),
         top = m.top - (rhs(rule) - 1), NEW r, r = Reduced(m, rule)
  PROVE  LeftAt(r, s, top, rule, T)
<1>1. PICK c : c = m.config
  OBVIOUS
<1>2. PICK n : n = Len(c.states)
  OBVIOUS
<1>3. /\ IsCopy(m) /\ IsConfig(c) /\ Healthy(m.forest, T)
      /\ m.top \in Nat /\ m.top <= n /\ n <= m.top + 1
      /\ Stacked(c, n) /\ Spelled(c, m.top) /\ Counted(c, m.top, T)
      /\ n > m.top => c.locations[n] = T[Covered(c.derived)]
      /\ n <= Len(s) /\ \A i \in 1 .. n : c.states[i] = s[i]
      /\ Reading(c, T)
  BY <1>1, <1>2 DEF Standing
<1>4. n \in Nat /\ top \in 1 .. n
  BY <1>1, <1>2, <1>3 DEF Stacked
<1>5. top <= m.top \/ c.locations[top] = T[Covered(c.derived)]
  <2>1. CASE ~(top <= m.top)
    <3>1. top = n /\ n > m.top
      BY <1>3, <1>4, <2>1
    <3> QED
      BY <1>3, <3>1
  <2> QED
    BY <2>1
<1>6. PICK acted : acted = WithAction(m, rule, top)
  OBVIOUS
<1>7. Acted(acted, m, T)
  BY ONLY <1>1, <1>3, <1>4, <1>5, <1>6, Numbers(T), rhs(rule) \in Nat,
          top = m.top - (rhs(rule) - 1), WithActionActs
<1>8. PICK reduction :
        reduction = <<rule, c.lastToken, [i \in 1 .. rhs(rule) |-> c.locations[top + i - 1]],
                      [i \in 1 .. rhs(rule) |-> c.symbols[top + i - 1]],
                      [i \in 1 .. rhs(rule) |-> c.asts[top + i - 1]]>>
  OBVIOUS
<1>9. PICK symbol : symbol = NT_OFFSET + lhs(rule)
  OBVIOUS
<1>10. PICK found : found = IF acted.ast = NULLPTR THEN acted
                            ELSE Canonical(acted, reduction, symbol, acted.ast)
  OBVIOUS
<1>11. PICK children : children = [i \in 1 .. rhs(rule) |-> c.sppfs[top + i - 1]]
  OBVIOUS
<1>12. r = IF found.thrown THEN found ELSE WithResult(found, rule, top, symbol, children)
  BY ONLY <1>1, <1>6, <1>8, <1>9, <1>10, <1>11, ~m.thrown, r = Reduced(m, rule),
          top = m.top - (rhs(rule) - 1), Zenon DEF Reduced
<1>13. /\ IsCopy(found) /\ found.config = c /\ found.top = m.top
       /\ found.ast \in Nat /\ Healthy(found.forest, T)
  <2>1. CASE acted.ast = NULLPTR
    BY ONLY <1>1, <1>7, <1>10, <2>1 DEF Acted
  <2>2. CASE acted.ast # NULLPTR
    <3>1. found = Canonical(acted, reduction, symbol, acted.ast)
      BY ONLY <1>10, <2>2
    <3>2. IsCopy(acted) /\ Healthy(acted.forest, T) /\ acted.ast \in Nat
      BY ONLY <1>7 DEF Acted
    <3>3. FoundIn(found, acted, T)
      BY ONLY <3>1, <3>2, CanonicalFinds
    <3> QED
      BY ONLY <1>1, <1>7, <3>3 DEF Acted, FoundIn
  <2> QED
    BY <2>1, <2>2
<1>14. CASE found.thrown
  BY ONLY <1>12, <1>13, <1>14 DEF LeftAt
<1>15. CASE ~found.thrown
  <2>1. r = WithResult(found, rule, top, symbol, children)
    BY ONLY <1>12, <1>15
  <2>2. PICK d : d = r.config
    OBVIOUS
  <2>3. /\ IsCopy(r) /\ IsConfig(d) /\ Healthy(r.forest, T)
        /\ r.top = top
        /\ \E key : LabelledAt(d, c, found, rule, top, symbol, key)
    <3>1. IsCopy(found) /\ Healthy(found.forest, T) /\ found.config = c /\ IsConfig(c)
      BY ONLY <1>3, <1>13
    <3>2. ResultMade(r, c, found, rule, top, symbol, T)
      BY ONLY <2>1, <3>1, WithResultMakes
    <3> QED
      BY ONLY <2>2, <3>2 DEF ResultMade
  <2>4. PICK key : LabelledAt(d, c, found, rule, top, symbol, key)
    BY ONLY <2>3
  <2>5. Labelled(d, c, top, T)
    BY ONLY <1>3, <1>4, <1>5, <1>13, <2>4, rhs(rule) \in Nat, top = m.top - (rhs(rule) - 1),
            LabelledStands
  <2>6. /\ d.action = ntAction(c.states[top], lhs(rule))
        /\ d.curtok = c.curtok /\ d.kind = c.kind
    BY ONLY <2>4 DEF LabelledAt
  <2>7. Len(d.states) = top
    BY ONLY <2>5 DEF Labelled, Stacked
  <2>8. Reading(d, T)
    BY ONLY <1>3, <2>5, <2>6 DEF Reading, Labelled
  <2>9. /\ top \in Nat /\ top <= top /\ top <= top + 1 /\ ~(top > top)
        /\ top <= Len(s)
    BY ONLY <1>3, <1>4
  <2>10. \A i \in 1 .. top : d.states[i] = s[i]
    BY ONLY <1>3, <1>4, <2>5 DEF Labelled
  <2>11. Standing(r, s, T)
    BY ONLY <2>2, <2>3, <2>5, <2>7, <2>8, <2>9, <2>10 DEF Standing, Labelled
  <2>12. r.config.action = ntAction(s[top], lhs(rule))
    BY ONLY <1>3, <1>4, <2>2, <2>6
  <2> QED
    BY ONLY <2>2, <2>3, <2>7, <2>11, <2>12 DEF LeftAt
<1> QED
  BY <1>14, <1>15

(* An exception has been thrown, or the rule has been reduced: whatever    *)
(* comes next, the rules go on where the last one has left the stack.      *)
LEMMA OneMoreReduced ==
  ASSUME NEW T, Numbers(T), NEW s, NEW r, NEW left \in Nat, NEW last, LeftAt(r, s, left, last, T),
         NEW rule, rhs(rule) \in Nat, NEW top \in 1 .. left, top = left - (rhs(rule) - 1),
         NEW further, further = Reduced(r, rule)
  PROVE  LeftAt(further, s, top, rule, T)
<1>1. CASE r.thrown
  <2>1. further = r
    BY ONLY <1>1, further = Reduced(r, rule), Zenon DEF Reduced
  <2>2. Healthy(further.forest, T) /\ further.thrown
    BY ONLY <1>1, <2>1, LeftAt(r, s, left, last, T) DEF LeftAt
  <2> QED
    BY ONLY <2>2 DEF LeftAt
<1>2. CASE ~r.thrown
  <2>1. Standing(r, s, T) /\ r.top = left /\ Len(r.config.states) = left
    BY ONLY <1>2, LeftAt(r, s, left, last, T) DEF LeftAt
  <2>2. top \in 1 .. Len(r.config.states) /\ top = r.top - (rhs(rule) - 1)
    BY ONLY <2>1, top \in 1 .. left, top = left - (rhs(rule) - 1)
  <2> QED
    BY ONLY <1>2, <2>1, <2>2, Numbers(T), rhs(rule) \in Nat, further = Reduced(r, rule),
            ReducedStands
<1> QED
  BY <1>1, <1>2

-----------------------------------------------------------------------------
(* A configuration between two turns: its stacks agree with one another,   *)
(* and the state it goes on in may be on top of them.                      *)
Ready(c, T) ==
  LET n == Len(c.states)
  IN  /\ IsConfig(c) /\ Stacked(c, n) /\ Spelled(c, n) /\ Counted(c, n, T) /\ Reading(c, T)
      /\ c.action \in Int /\ IsViable(LRAutomaton, Append(c.states, c.action))

Closed(r, T) == Healthy(r.forest, T) /\ (r.thrown \/ Ready(r.config, T))

(* The rules that a rule sets off, on what the stack shows.                *)
LEMMA ClosureCloses ==
  ASSUME NEW T, Numbers(T), NEW s, IsViable(LRAutomaton, s),
         NEW m, Standing(m, s, T), ~m.thrown, m.config.states = s,
         NEW p, NEW rule, NEW left, OnTop(LRAutomaton, s, p, m.top, rule, left),
         NEW r, r = applyReduceClosure(m, rule)
  PROVE  Closed(r, T)
<1>0. PICK a : a = LRAutomaton
  OBVIOUS
<1>1. IsAutomaton(a) /\ \A x \in 0 .. NUM_RULES : rhs(x) \in Nat
  BY <1>0, TableAssumption DEF IsAutomaton, AutomatonTypes
<1>2. PICK n \in Nat : n = Len(s)
  BY DEF IsViable
<1>3. IsViable(a, s) /\ OnTop(a, s, p, m.top, rule, left)
  BY <1>0
<1>4. /\ p \in 1 .. n /\ rule \in 0 .. NUM_RULES
      /\ left \in Int /\ left = m.top - (rhs(rule) - 1) /\ m.top \in Int
      /\ <<s[p], p - left, lhs(rule)>> \in a.items
  BY ONLY <1>2, <1>3 DEF OnTop
<1>5. left \in 1 .. p /\ Arrives(a, s, left, Reached(s, m.top, rule))
  BY ONLY <1>1, <1>2, <1>3, <1>4, ReachedArrives
<1>6. left \in 1 .. n
  BY ONLY <1>4, <1>5, n \in Nat
<1>7. PICK Q : Q = {x \in Int \X Seq(0 .. NUM_RULES) :
                      /\ Len(x[2]) > 0
                      /\ LeftAt(Fold("rule", m, x[2]), s, x[1], x[2][Len(x[2])], T)}
  OBVIOUS
<1>8. ASSUME NEW l \in Int, NEW xs \in Seq(0 .. NUM_RULES)
      PROVE  <<l, xs>> \in Q <=>
               Len(xs) > 0 /\ LeftAt(Fold("rule", m, xs), s, l, xs[Len(xs)], T)
  <2>1. PICK x : x = <<l, xs>>
    OBVIOUS
  <2>2. x \in Int \X Seq(0 .. NUM_RULES) /\ x[1] = l /\ x[2] = xs
    BY <2>1
  <2> QED
    BY ONLY <1>7, <2>1, <2>2
<1>9. RulesStay(Q, Len(s))
  <2>1. SUFFICES ASSUME NEW l \in 1 .. n, NEW xs \in Seq(0 .. NUM_RULES),
                        NEW act \in 0 .. NUM_RULES, <<l, xs>> \in Q,
                        l - (rhs(act) - 1) \in 1 .. l
                 PROVE  <<l - (rhs(act) - 1), Append(xs, act)>> \in Q
    BY <1>2 DEF RulesStay
  <2>2. PICK lower \in 1 .. l : lower = l - (rhs(act) - 1)
    BY <2>1
  <2>3. PICK f : f = Fold("rule", m, xs)
    OBVIOUS
  <2>4. LeftAt(f, s, l, xs[Len(xs)], T)
    BY <1>8, <2>1, <2>3
  <2>5. PICK more : more = Append(xs, act)
    OBVIOUS
  <2>6. more \in Seq(0 .. NUM_RULES) /\ Len(more) > 0 /\ more[Len(more)] = act
    BY ONLY <2>5, xs \in Seq(0 .. NUM_RULES), act \in 0 .. NUM_RULES
  <2>7. Fold("rule", m, more) = Reduced(f, act)
    <3>1. PICK what : what = "rule"
      OBVIOUS
    <3>2. PICK S : S = 0 .. NUM_RULES
      OBVIOUS
    <3>3. xs \in Seq(S) /\ act \in S
      BY <3>2
    <3>4. Fold(what, m, more) = Done(what, Fold(what, m, xs), act)
      BY ONLY <2>5, <3>3, FoldOneMore
    <3> QED
      BY ONLY <2>3, <3>1, <3>4 DEF Done
  <2>8. LeftAt(Fold("rule", m, more), s, lower, act, T)
    <3>1. rhs(act) \in Nat /\ l \in Nat
      BY <1>1
    <3> QED
      BY ONLY <2>2, <2>4, <2>7, <3>1, Numbers(T), OneMoreReduced
  <2>9. lower \in Int
    OBVIOUS
  <2>10. <<lower, more>> \in Q
    BY ONLY <1>8, <2>6, <2>8, <2>9
  <2> QED
    BY ONLY <2>2, <2>5, <2>10
<1>10. BeginsWith(Q, left, rule)
  <2>1. PICK none : none = << >>
    OBVIOUS
  <2>2. PICK xs : xs = Append(none, rule)
    OBVIOUS
  <2>3. none \in Seq(0 .. NUM_RULES) /\ xs = <<rule>>
    BY <2>1, <2>2
  <2>4. xs \in Seq(0 .. NUM_RULES) /\ Len(xs) > 0 /\ xs[Len(xs)] = rule
    BY <1>4, <2>2, <2>3
  <2>5. Fold("rule", m, xs) = Reduced(m, rule)
    <3>1. PICK what : what = "rule"
      OBVIOUS
    <3>2. PICK S : S = 0 .. NUM_RULES
      OBVIOUS
    <3>3. none \in Seq(S) /\ rule \in S
      BY <1>4, <2>3, <3>2
    <3>4. Fold(what, m, xs) = Done(what, Fold(what, m, none), rule)
      BY ONLY <2>2, <3>3, FoldOneMore
    <3>5. Fold(what, m, none) = m
      BY <2>1, FoldNothing
    <3> QED
      BY ONLY <3>1, <3>4, <3>5 DEF Done
  <2>6. LeftAt(Fold("rule", m, xs), s, left, rule, T)
    <3>1. PICK f : f = Reduced(m, rule)
      OBVIOUS
    <3>2. rhs(rule) \in Nat
      BY <1>1, <1>4
    <3>3. left \in 1 .. Len(m.config.states)
      BY <1>2, <1>6
    <3>4. LeftAt(f, s, left, rule, T)
      BY ONLY <1>4, <3>1, <3>2, <3>3, Numbers(T), Standing(m, s, T), ~m.thrown, ReducedStands
    <3> QED
      BY ONLY <2>5, <3>1, <3>4
  <2> QED
    BY ONLY <1>4, <1>8, <2>3, <2>4, <2>6 DEF BeginsWith
<1>11. PICK ends : ends = RulesOf(s, m.top, rule, {})
  OBVIOUS
<1>12. EndsWithin(ends, Q, {}, left, Reached(s, m.top, rule)) /\ GoesOn(ends, s)
  BY ONLY <1>1, <1>3, <1>9, <1>10, <1>11, RulesOfStays
<1>13. PICK top : top = ends.top
  OBVIOUS
<1>14. PICK rules : rules = ends.rules
  OBVIOUS
<1>15. PICK act : act = ends.act
  OBVIOUS
<1>16. /\ top \in 1 .. left /\ <<top, rules>> \in Q
       /\ <<top, act>> = Reached(s, m.top, rule)
       /\ act = ntAction(s[top], lhs(rules[Len(rules)]))
  BY ONLY <1>12, <1>13, <1>14, <1>15 DEF EndsWithin, GoesOn
<1>17. r = Fold("rule", m, rules)
  BY <1>11, <1>14, RulesAreFolded DEF applyReduceClosure
<1>18. LeftAt(r, s, top, rules[Len(rules)], T)
  <2>1. PICK x : x = <<top, rules>>
    OBVIOUS
  <2>2. x \in Q /\ x[1] = top /\ x[2] = rules
    BY <1>16, <2>1
  <2> QED
    BY ONLY <1>7, <1>17, <2>2
<1>19. <<s[top], act>> \in a.edges
  <2>1. PICK x : x = <<top, act>>
    OBVIOUS
  <2>2. x = Reached(s, m.top, rule) /\ x[1] = top /\ x[2] = act
    BY <1>16, <2>1
  <2> QED
    BY ONLY <1>5, <2>2 DEF Arrives
<1>20. CASE r.thrown
  BY ONLY <1>18, <1>20 DEF LeftAt, Closed
<1>21. CASE ~r.thrown
  <2>1. PICK c : c = r.config
    OBVIOUS
  <2>2. /\ Healthy(r.forest, T) /\ Standing(r, s, T) /\ r.top = top /\ Len(c.states) = top
        /\ c.action = ntAction(s[top], lhs(rules[Len(rules)]))
    BY ONLY <1>18, <1>21, <2>1 DEF LeftAt
  <2>3. /\ IsConfig(c) /\ Stacked(c, top) /\ Spelled(c, top) /\ Counted(c, top, T)
        /\ Reading(c, T) /\ \A i \in 1 .. top : c.states[i] = s[i]
    BY ONLY <2>1, <2>2 DEF Standing
  <2>4. c.action = act
    BY ONLY <1>16, <2>2
  <2>5. top \in 1 .. Len(s)
    BY ONLY <1>2, <1>6, <1>16
  <2>6. IsViable(a, Append(SubSeq(s, 1, top), act))
    BY ONLY <1>1, <1>3, <1>19, <2>5, CutIsViable
  <2>7. c.states = SubSeq(s, 1, top)
    <3>1. c.states \in Seq(Int) /\ Len(c.states) = top /\ s \in Seq(Int)
      BY <1>3, <2>3 DEF Stacked, IsViable
    <3> QED
      BY ONLY <2>3, <2>5, <3>1
  <2>8. act \in Int
    <3>1. a.edges \subseteq Int \X Int
      BY ONLY <1>1 DEF IsAutomaton, AutomatonTypes
    <3> QED
      BY ONLY <1>19, <3>1
  <2>9. Ready(c, T)
    BY ONLY <1>0, <2>2, <2>3, <2>4, <2>6, <2>7, <2>8 DEF Ready
  <2> QED
    BY ONLY <2>1, <2>2, <2>9 DEF Closed
<1> QED
  BY <1>20, <1>21

(* The automaton knows the tokens, and EOF is the last of them.            *)
Stream == Reads(LRAutomaton, 1) /\ getKind(len - 1) = EOFT_SYMBOL

-----------------------------------------------------------------------------
(* A state is pushed: its place has no symbol yet.                         *)
PushedOn(d, c) ==
  /\ IsConfig(d)
  /\ d.states = Append(c.states, c.action) /\ d.locations = Append(c.locations, c.curtok)
  /\ d.symbols = Append(c.symbols, 0) /\ d.asts = Append(c.asts, NULLPTR)
  /\ d.sppfs = Append(c.sppfs, NULLPTR)
  /\ d.gss = Append(c.gss, GssNode(c.action, c.curtok))
  /\ d.derived = c.derived /\ d.curtok = c.curtok
  /\ d.lastToken = c.lastToken /\ d.kind = c.kind

LEMMA PushedMakes ==
  ASSUME NEW c, IsConfig(c), NEW d, d = Pushed(c)
  PROVE  PushedOn(d, c)
BY DEF IsConfig, Pushed, PushedOn

(* A configuration in a turn: the place on top is about to be read.        *)
Raised(d, n, T) ==
  /\ IsConfig(d) /\ n > 0 /\ Stacked(d, n) /\ Spelled(d, n) /\ Counted(d, n - 1, T)
  /\ Reading(d, T) /\ d.locations[n] = T[Covered(d.derived)] /\ d.asts[n] = NULLPTR
  /\ IsViable(LRAutomaton, d.states)

(* Spelled and counted places do not mind what is put on top of them.      *)
LEMMA CountedAlike ==
  ASSUME NEW T, NEW c, NEW k \in Nat, Counted(c, k, T), NEW d, d.derived = c.derived,
         d.lastToken = c.lastToken, \A i \in 1 .. k : d.locations[i] = c.locations[i],
         d.asts \in Seq(Nat), k <= Len(d.asts), \A i \in 1 .. k : d.asts[i] = c.asts[i]
  PROVE  Counted(d, k, T)
<1>1. /\ c.derived \in Symbols /\ Len(c.derived) = k
      /\ c.lastToken = T[Covered(c.derived) - 1]
      /\ Placed(c.locations, c.derived, k, T)
      /\ Linked(c.asts, c.derived)
  BY DEF Counted
<1>2. Placed(d.locations, d.derived, k, T)
  BY <1>1 DEF Placed
<1>3. Linked(d.asts, d.derived)
  <2>1. d.asts \in Seq(Int)
    <3>1. Nat \subseteq Int
      OBVIOUS
    <3> QED
      BY <3>1, SeqMonotonic
  <2> QED
    BY <1>1, <2>1 DEF Linked
<1> QED
  BY <1>1, <1>2, <1>3 DEF Counted

LEMMA PushedRaises ==
  ASSUME NEW T, NEW c, NEW k, k = Len(c.states), Ready(c, T), NEW d, d = Pushed(c)
  PROVE  Raised(d, k + 1, T) /\ d.states = Append(c.states, c.action)
<1>1. /\ IsConfig(c) /\ Stacked(c, k) /\ Spelled(c, k) /\ Counted(c, k, T) /\ Reading(c, T)
      /\ c.action \in Int /\ IsViable(LRAutomaton, Append(c.states, c.action))
  BY DEF Ready
<1>2. /\ k \in Nat /\ c.states \in Seq(Int) /\ Len(c.states) = k
      /\ c.asts \in Seq(Nat) /\ Len(c.asts) = k
      /\ Row(c.locations, k) /\ Row(c.symbols, k) /\ Row(c.sppfs, k)
  BY ONLY <1>1 DEF Stacked
<1>3. PushedOn(d, c)
  BY ONLY <1>1, d = Pushed(c), PushedMakes
<1>4. /\ IsConfig(d)
      /\ d.states = Append(c.states, c.action) /\ d.locations = Append(c.locations, c.curtok)
      /\ d.symbols = Append(c.symbols, 0) /\ d.asts = Append(c.asts, NULLPTR)
      /\ d.sppfs = Append(c.sppfs, NULLPTR)
      /\ d.gss = Append(c.gss, GssNode(c.action, c.curtok))
      /\ d.derived = c.derived /\ d.curtok = c.curtok
      /\ d.lastToken = c.lastToken /\ d.kind = c.kind
  BY ONLY <1>3 DEF PushedOn
<1>5. /\ Grown(d.locations, c.locations, k, c.curtok) /\ Grown(d.symbols, c.symbols, k, 0)
      /\ Grown(d.sppfs, c.sppfs, k, NULLPTR)
  BY ONLY <1>2, <1>4, RowGrows
<1>6. /\ d.states \in Seq(Int) /\ Len(d.states) = k + 1 /\ d.states[k + 1] = c.action
      /\ \A i \in 1 .. k : d.states[i] = c.states[i]
  <2>1. PICK x \in Int : x = c.action
    BY ONLY <1>1
  <2>2. PICK s \in Seq(Int) : s = c.states /\ Len(s) = k
    BY ONLY <1>2
  <2>3. d.states = Append(s, x)
    BY ONLY <1>4, <2>1, <2>2
  <2> QED
    BY ONLY <1>2, <2>1, <2>2, <2>3
<1>7. /\ d.asts \in Seq(Nat) /\ Len(d.asts) = k + 1 /\ d.asts[k + 1] = NULLPTR
      /\ \A i \in 1 .. k : d.asts[i] = c.asts[i]
  <2>1. PICK x \in Nat : x = NULLPTR
    BY ONLY DEF NULLPTR
  <2>2. PICK a \in Seq(Nat) : a = c.asts /\ Len(a) = k
    BY ONLY <1>2
  <2>3. d.asts = Append(a, x)
    BY ONLY <1>4, <2>1, <2>2
  <2> QED
    BY ONLY <1>2, <2>1, <2>2, <2>3
<1>8. PICK x : x = GssNode(c.action, c.curtok)
  OBVIOUS
<1>9. Row(c.gss, k) /\ \A i \in 1 .. k : c.gss[i] = GssEntry(c, i)
  BY ONLY <1>1 DEF Spelled
<1>10. Grown(d.gss, c.gss, k, x)
  BY ONLY <1>2, <1>4, <1>8, <1>9, RowGrows
<1>11. Stacked(d, k + 1)
  BY ONLY <1>2, <1>5, <1>6, <1>7 DEF Stacked, Grown
<1>12. Spelled(d, k + 1)
  <2>1. ASSUME NEW i \in 1 .. k PROVE d.gss[i] = GssEntry(d, i)
    <3>1. d.gss[i] = c.gss[i] /\ c.gss[i] = GssEntry(c, i)
      BY ONLY <1>9, <1>10, i \in 1 .. k DEF Grown
    <3>2. /\ d.states[i] = c.states[i] /\ d.locations[i] = c.locations[i]
          /\ d.symbols[i] = c.symbols[i] /\ d.asts[i] = c.asts[i] /\ d.sppfs[i] = c.sppfs[i]
      BY ONLY <1>5, <1>6, <1>7, i \in 1 .. k DEF Grown
    <3> QED
      BY ONLY <3>1, <3>2 DEF GssEntry
  <2>2. d.gss[k + 1] = GssEntry(d, k + 1)
    <3>1. PICK l : l = k + 1
      OBVIOUS
    <3>2. /\ d.states[l] = c.action /\ d.locations[l] = c.curtok /\ d.symbols[l] = 0
          /\ d.asts[l] = NULLPTR /\ d.sppfs[l] = NULLPTR /\ d.gss[l] = x
      BY ONLY <1>5, <1>6, <1>7, <1>10, <3>1 DEF Grown
    <3>3. x = [state |-> c.action, index |-> c.curtok, symbol |-> 0, ast |-> NULLPTR,
               sppf |-> NULLPTR]
      BY ONLY <1>8 DEF GssNode
    <3>4. d.gss[l] = GssEntry(d, l)
      BY ONLY <3>2, <3>3 DEF GssEntry
    <3> QED
      BY ONLY <3>1, <3>4
  <2>3. \A i \in 1 .. k + 1 : d.gss[i] = GssEntry(d, i)
    BY ONLY <1>2, <2>1, <2>2
  <2> QED
    BY ONLY <1>10, <2>3 DEF Grown, Spelled
<1>13. Counted(d, k, T)
  <2>1. \A i \in 1 .. k : d.locations[i] = c.locations[i]
    BY ONLY <1>5 DEF Grown
  <2>2. k <= Len(d.asts)
    BY ONLY <1>2, <1>7
  <2> QED
    BY ONLY <1>1, <1>2, <1>4, <1>7, <2>1, <2>2, CountedAlike
<1>14. Reading(d, T) /\ d.locations[k + 1] = T[Covered(d.derived)]
  BY ONLY <1>1, <1>4, <1>5 DEF Reading, Grown
<1>15. k + 1 > 0 /\ (k + 1) - 1 = k
  BY ONLY <1>2
<1> QED
  BY ONLY <1>1, <1>4, <1>7, <1>11, <1>12, <1>13, <1>14, <1>15 DEF Raised

-----------------------------------------------------------------------------
(* What is reduced: a copy without its last node of the chain.             *)
Popped(c, f) == [Copy([c EXCEPT !.gss = Front(@)], f) EXCEPT !.top = @ - 1]

StandsOn(m, s, top, T) ==
  Standing(m, s, T) /\ ~m.thrown /\ m.config.states = s /\ m.top = top

LEMMA PoppedStands ==
  ASSUME NEW T, NEW c, NEW n, Raised(c, n, T), NEW s, s = c.states, NEW f, Healthy(f, T),
         NEW m, m = Popped(c, f)
  PROVE  StandsOn(m, s, n - 1, T)
<1>1. /\ IsConfig(c) /\ n > 0 /\ Stacked(c, n) /\ Spelled(c, n) /\ Counted(c, n - 1, T)
      /\ Reading(c, T) /\ c.locations[n] = T[Covered(c.derived)]
  BY DEF Raised
<1>2. /\ n \in Nat /\ c.states \in Seq(Int) /\ Len(c.states) = n
      /\ c.asts \in Seq(Nat) /\ Len(c.asts) = n
      /\ Row(c.locations, n) /\ Row(c.symbols, n) /\ Row(c.sppfs, n)
  BY ONLY <1>1 DEF Stacked
<1>3. PICK k \in Nat : k = n - 1 /\ n = k + 1
  <2>1. n - 1 \in Nat /\ n = (n - 1) + 1
    BY ONLY <1>1, <1>2
  <2> QED
    BY ONLY <2>1, Zenon
<1>4. PICK gss : gss = Front(c.gss)
  OBVIOUS
<1>5. PICK d : d = [c EXCEPT !.gss = gss]
  OBVIOUS
<1>6. m = [config |-> d, top |-> k, ast |-> NULLPTR, forest |-> f, thrown |-> FALSE]
  <2>1. PICK no : no = FALSE
    OBVIOUS
  <2>2. [c EXCEPT !.gss = Front(@)] = d
    BY ONLY <1>4, <1>5
  <2>3. Len(d.states) = n
    BY ONLY <1>1, <1>2, <1>5 DEF IsConfig
  <2>4. m = [Copy(d, f) EXCEPT !.top = @ - 1]
    BY ONLY <2>2, m = Popped(c, f) DEF Popped
  <2>5. Copy(d, f) = [config |-> d, top |-> n, ast |-> NULLPTR, forest |-> f, thrown |-> no]
    BY ONLY <2>1, <2>3 DEF Copy
  <2>6. m = [config |-> d, top |-> n - 1, ast |-> NULLPTR, forest |-> f, thrown |-> no]
    BY ONLY <2>4, <2>5
  <2> QED
    BY ONLY <1>3, <2>1, <2>6
<1>7. /\ IsCopy(m) /\ m.config = d /\ m.top = k /\ m.forest = f /\ ~m.thrown
  BY ONLY <1>6 DEF IsCopy
<1>8. /\ IsConfig(d) /\ d.gss = gss
      /\ d.states = c.states /\ d.locations = c.locations /\ d.symbols = c.symbols
      /\ d.asts = c.asts /\ d.sppfs = c.sppfs /\ d.derived = c.derived
      /\ d.lastToken = c.lastToken /\ d.curtok = c.curtok /\ d.kind = c.kind
  BY ONLY <1>1, <1>5 DEF IsConfig
<1>9. Spelled(d, k)
  <2>1. Row(c.gss, n) /\ Len(c.gss) = n /\ \A i \in 1 .. n : c.gss[i] = GssEntry(c, i)
    BY ONLY <1>1, <1>2, RowIsSequence DEF Spelled
  <2>2. gss = SubSeq(c.gss, 1, k)
    BY ONLY <1>3, <1>4, <2>1 DEF Front
  <2>3. k \in 0 .. n
    BY ONLY <1>2, <1>3
  <2>4. IsCut(gss, c.gss, k)
    BY ONLY <1>2, <2>1, <2>2, <2>3, RowIsCut
  <2>5. ASSUME NEW i \in 1 .. k PROVE gss[i] = GssEntry(d, i)
    <3>1. gss[i] = GssEntry(c, i)
      BY ONLY <1>2, <1>3, <2>1, <2>4, i \in 1 .. k DEF IsCut
    <3> QED
      BY ONLY <1>8, <3>1 DEF GssEntry
  <2> QED
    BY ONLY <1>8, <2>4, <2>5 DEF Spelled, IsCut
<1>10. Stacked(d, n)
  BY ONLY <1>2, <1>8 DEF Stacked
<1>11. Counted(d, k, T)
  BY ONLY <1>1, <1>3, <1>8 DEF Counted
<1>12. Reading(d, T) /\ d.locations[n] = T[Covered(d.derived)]
  BY ONLY <1>1, <1>8 DEF Reading
<1>13. k <= n /\ n <= k + 1 /\ Len(d.states) = n
  BY ONLY <1>2, <1>3, <1>8
<1>14. n <= Len(s) /\ \A i \in 1 .. n : d.states[i] = s[i]
  BY ONLY <1>2, <1>8, s = c.states
<1>15. Standing(m, s, T)
  BY ONLY <1>7, <1>8, <1>9, <1>10, <1>11, <1>12, <1>13, <1>14, k \in Nat, Healthy(f, T)
     DEF Standing
<1> QED
  BY ONLY <1>3, <1>7, <1>8, <1>15, s = c.states DEF StandsOn

(* A token is taken.                                                       *)
TakenOn(d, c, n, key) ==
  /\ IsConfig(d)
  /\ d.states = c.states /\ d.locations = c.locations /\ d.asts = c.asts
  /\ d.symbols = [c.symbols EXCEPT ![n] = c.kind]
  /\ d.sppfs = [c.sppfs EXCEPT ![n] = key]
  /\ d.gss = gssRelabel(c.gss, c.kind, NULLPTR, key)
  /\ d.derived = Append(c.derived, Terminal)
  /\ d.curtok = getNext(c.curtok)
  /\ d.lastToken = c.curtok /\ d.kind = getKind(getNext(c.curtok))

LEMMA TakenMakes ==
  ASSUME NEW c, IsConfig(c), NEW d, d = Taken(c), NEW n, n = Len(c.states),
         NEW key, key = SppfKey(c.kind, c.curtok, c.curtok)
  PROVE  TakenOn(d, c, n, key)
BY DEF IsConfig, Taken, TakenOn

Held(d, n, T) ==
  IsConfig(d) /\ Stacked(d, n) /\ Spelled(d, n) /\ Counted(d, n, T) /\ Reading(d, T)

LEMMA TakenHolds ==
  ASSUME NEW T, Numbers(T), Stream, NEW c, NEW n, Raised(c, n, T), c.kind # EOFT_SYMBOL,
         NEW d, d = Taken(c)
  PROVE  Held(d, n, T) /\ d.states = c.states
<1>1. /\ IsConfig(c) /\ n > 0 /\ Stacked(c, n) /\ Spelled(c, n) /\ Counted(c, n - 1, T)
      /\ Reading(c, T) /\ c.locations[n] = T[Covered(c.derived)] /\ c.asts[n] = NULLPTR
  BY DEF Raised
<1>2. /\ n \in Nat /\ c.states \in Seq(Int) /\ Len(c.states) = n
      /\ c.asts \in Seq(Nat) /\ Len(c.asts) = n
      /\ Row(c.locations, n) /\ Row(c.symbols, n) /\ Row(c.sppfs, n)
  BY ONLY <1>1 DEF Stacked
<1>3. PICK k \in Nat : k = n - 1 /\ n = k + 1
  <2>1. n - 1 \in Nat /\ n = (n - 1) + 1
    BY ONLY <1>1, <1>2
  <2> QED
    BY ONLY <2>1, Zenon
<1>4. PICK key : key = SppfKey(c.kind, c.curtok, c.curtok)
  OBVIOUS
<1>5. TakenOn(d, c, n, key)
  <2>1. n = Len(c.states)
    BY ONLY <1>2
  <2> QED
    BY ONLY <1>1, <1>4, <2>1, d = Taken(c), TakenMakes
<1>6. /\ IsConfig(d)
      /\ d.states = c.states /\ d.locations = c.locations /\ d.asts = c.asts
      /\ d.symbols = [c.symbols EXCEPT ![n] = c.kind]
      /\ d.sppfs = [c.sppfs EXCEPT ![n] = key]
      /\ d.gss = gssRelabel(c.gss, c.kind, NULLPTR, key)
      /\ d.derived = Append(c.derived, Terminal)
      /\ d.curtok = getNext(c.curtok)
      /\ d.lastToken = c.curtok /\ d.kind = getKind(getNext(c.curtok))
  BY ONLY <1>5 DEF TakenOn
<1>7. n \in 1 .. n
  BY ONLY <1>1, <1>2
<1>8. Changed(d.symbols, c.symbols, n, n, c.kind) /\ Changed(d.sppfs, c.sppfs, n, n, key)
  BY ONLY <1>2, <1>6, <1>7, RowChanged
<1>9. Row(c.gss, n) /\ \A i \in 1 .. n : c.gss[i] = GssEntry(c, i)
  BY ONLY <1>1 DEF Spelled
<1>10. PICK x : x = [state |-> c.states[n], index |-> c.locations[n], symbol |-> c.kind,
                     ast |-> NULLPTR, sppf |-> key]
  OBVIOUS
<1>11. Changed(d.gss, c.gss, n, n, x)
  <2>1. c.gss[n] = [state |-> c.states[n], index |-> c.locations[n], symbol |-> c.symbols[n],
                    ast |-> c.asts[n], sppf |-> c.sppfs[n]]
    BY ONLY <1>7, <1>9 DEF GssEntry
  <2> QED
    BY ONLY <1>1, <1>2, <1>6, <1>9, <1>10, <2>1, Relabels
<1>12. Spelled(d, n)
  <2>1. ASSUME NEW i \in 1 .. n PROVE d.gss[i] = GssEntry(d, i)
    <3>1. CASE i = n
      <4>1. d.gss[n] = x /\ d.symbols[n] = c.kind /\ d.sppfs[n] = key
        BY ONLY <1>8, <1>11 DEF Changed
      <4>2. d.gss[n] = GssEntry(d, n)
        BY ONLY <1>1, <1>6, <1>10, <4>1 DEF GssEntry
      <4> QED
        BY ONLY <3>1, <4>2
    <3>2. CASE i # n
      <4>1. d.gss[i] = c.gss[i] /\ d.symbols[i] = c.symbols[i] /\ d.sppfs[i] = c.sppfs[i]
        BY ONLY <1>8, <1>11, <3>2, i \in 1 .. n DEF Changed
      <4>2. c.gss[i] = GssEntry(c, i)
        BY ONLY <1>9, i \in 1 .. n
      <4> QED
        BY ONLY <1>6, <4>1, <4>2 DEF GssEntry
    <3> QED
      BY ONLY <3>1, <3>2
  <2> QED
    BY ONLY <1>11, <2>1 DEF Spelled, Changed
<1>13. Stacked(d, n)
  BY ONLY <1>2, <1>6, <1>8 DEF Stacked, Changed
<1>14. /\ c.derived \in Symbols /\ Len(c.derived) = k
       /\ c.lastToken = T[Covered(c.derived) - 1]
       /\ Placed(c.locations, c.derived, k, T)
       /\ Linked(c.asts, c.derived)
  BY ONLY <1>1, <1>3 DEF Counted
<1>15. PICK e \in Symbols : e = c.derived
  BY ONLY <1>14
<1>16. PICK covered : covered = Covered(e)
  OBVIOUS
<1>17. covered \in Nat
  <2>1. Len(e) \in 0 .. Len(e) /\ Until(e, Len(e)) = covered
    BY <1>16, UntilAll
  <2> QED
    BY ONLY <2>1, e \in Symbols, UntilIsNat
<1>18. /\ d.derived \in Symbols /\ Len(d.derived) = n
       /\ Covered(d.derived) = covered + 1
       /\ \A p \in 0 .. k : Until(d.derived, p) = Until(e, p)
       /\ Linked(c.asts, d.derived)
  <2>1. WithRoom(c.asts, c.states) = c.asts
    BY ONLY <1>2 DEF WithRoom
  <2>2. Len(c.states) = Len(e) + 1 /\ Linked(c.asts, e)
    BY ONLY <1>2, <1>3, <1>14, <1>15
  <2>3. PICK more : more = Append(e, Terminal)
    OBVIOUS
  <2>4. PICK room : room = WithRoom(c.asts, c.states)
    OBVIOUS
  <2>5. /\ more \in Symbols /\ Len(more) = Len(c.states)
        /\ Covered(more) = Covered(e) + 1
        /\ \A p \in 0 .. Len(e) : Until(more, p) = Until(e, p)
        /\ Linked(room, more)
    BY ONLY <2>2, <2>3, <2>4, e \in Symbols, RoomIsMade
  <2> QED
    BY ONLY <1>2, <1>6, <1>14, <1>15, <1>16, <2>1, <2>3, <2>4, <2>5
<1>19. Counted(d, n, T)
  <2>1. d.lastToken = T[Covered(d.derived) - 1]
    <3>1. c.curtok = T[covered]
      BY ONLY <1>1, <1>15, <1>16 DEF Reading
    <3>2. (covered + 1) - 1 = covered
      BY ONLY <1>17
    <3> QED
      BY ONLY <1>6, <1>18, <3>1, <3>2
  <2>2. ASSUME NEW p \in 1 .. n PROVE d.locations[p] = T[Until(d.derived, p - 1)]
    <3>1. PICK q : q = p - 1
      OBVIOUS
    <3>2. q \in 0 .. k
      BY ONLY <1>3, <3>1, p \in 1 .. n
    <3>3. Until(d.derived, q) = Until(e, q)
      BY ONLY <1>18, <3>2
    <3>4. CASE p \in 1 .. k
      BY ONLY <1>6, <1>14, <1>15, <3>1, <3>3, <3>4 DEF Placed
    <3>5. CASE p \notin 1 .. k
      <4>1. p = n /\ q = k
        BY ONLY <1>3, <3>1, <3>5, p \in 1 .. n
      <4>2. Until(e, k) = covered
        BY <1>14, <1>15, <1>16, UntilAll
      <4> QED
        BY ONLY <1>1, <1>6, <1>15, <1>16, <3>1, <3>3, <4>1, <4>2
    <3> QED
      BY ONLY <3>4, <3>5
  <2> QED
    BY ONLY <1>6, <1>18, <2>1, <2>2 DEF Counted, Placed
<1>20. Reading(d, T)
  <2>1. /\ c.curtok = T[covered] /\ c.curtok \in 0 .. len - 1
        /\ c.curtok + 1 < len
    BY ONLY <1>1, <1>15, <1>16, c.kind # EOFT_SYMBOL DEF Reading
  <2>2. d.curtok = c.curtok + 1
    BY ONLY <1>6, <2>1 DEF getNext
  <2>3. T[covered + 1] = T[covered] + 1
    BY ONLY <1>17, Numbers(T) DEF Numbers
  <2>4. len \in Nat /\ \A token \in 1 .. len - 1 : getKind(token) \in LRAutomaton.terminals
    BY DEF Stream, Reads
  <2>5. d.curtok \in 1 .. len - 1
    BY ONLY <2>1, <2>2, <2>4
  <2>6. d.kind = getKind(d.curtok)
    BY ONLY <1>6
  <2>7. d.kind \in LRAutomaton.terminals
    BY ONLY <2>4, <2>5, <2>6
  <2>8. d.kind # EOFT_SYMBOL => d.curtok + 1 < len
    <3>1. getKind(len - 1) = EOFT_SYMBOL
      BY DEF Stream
    <3>2. d.curtok = len - 1 => d.kind = EOFT_SYMBOL
      BY ONLY <2>6, <3>1
    <3>3. d.curtok # len - 1 => d.curtok + 1 < len
      BY ONLY <2>4, <2>5
    <3> QED
      BY ONLY <3>2, <3>3
  <2>9. d.curtok \in 0 .. len - 1
    BY ONLY <2>4, <2>5
  <2> QED
    BY ONLY <1>18, <2>1, <2>2, <2>3, <2>7, <2>8, <2>9 DEF Reading
<1> QED
  BY ONLY <1>6, <1>12, <1>13, <1>19, <1>20 DEF Held

(* What is shift-reduced: a copy that has taken the token.                 *)
LEMMA TakenStands ==
  ASSUME NEW T, NEW d, NEW n, Held(d, n, T), NEW s, s = d.states, NEW f, Healthy(f, T),
         NEW m, m = Copy(d, f)
  PROVE  StandsOn(m, s, n, T)
<1>1. IsConfig(d) /\ Stacked(d, n) /\ Spelled(d, n) /\ Counted(d, n, T) /\ Reading(d, T)
  BY DEF Held
<1>2. n \in Nat /\ d.states \in Seq(Int) /\ Len(d.states) = n
  BY ONLY <1>1 DEF Stacked
<1>3. IsCopy(m) /\ m.config = d /\ m.top = n /\ m.forest = f /\ ~m.thrown
  BY ONLY <1>2, m = Copy(d, f) DEF Copy, IsCopy
<1>4. n <= n /\ n <= n + 1 /\ ~(n > n) /\ n <= Len(s) /\ \A i \in 1 .. n : d.states[i] = s[i]
  BY ONLY <1>2, s = d.states
<1>5. Standing(m, s, T)
  BY ONLY <1>1, <1>2, <1>3, <1>4, Healthy(f, T) DEF Standing
<1> QED
  BY ONLY <1>3, <1>5, s = d.states DEF StandsOn

(* The table of nodes that the parser shares does not matter to the nodes  *)
(* of the AST.                                                             *)
LEMMA HealthyAlike ==
  ASSUME NEW T, NEW f, Healthy(f, T), NEW g, IsForest(g), g.nodes = f.nodes,
         g.familyCache = f.familyCache, g.forestCache = f.forestCache
  PROVE  Healthy(g, T)
<1>1. Caches(f) /\ AllSaw(f.nodes, T)
  BY DEF Healthy
<1> QED
  BY ONLY <1>1, IsForest(g), g.nodes = f.nodes,
          g.familyCache = f.familyCache, g.forestCache = f.forestCache DEF Healthy, Caches

LEMMA TablesOfNodes ==
  ASSUME NEW T, NEW f, Healthy(f, T), NEW x
  PROVE  /\ Healthy([f EXCEPT !.sppfNodes = x], T) /\ Healthy([f EXCEPT !.gssNodes = x], T)
         /\ Healthy([f EXCEPT !.nextAst = x], T)
<1>1. f = [nodes |-> f.nodes, nextAst |-> f.nextAst, familyCache |-> f.familyCache,
           forestCache |-> f.forestCache, sppfNodes |-> f.sppfNodes, gssNodes |-> f.gssNodes]
  BY DEF Healthy, IsForest
<1>2. ASSUME NEW g, \/ g = [f EXCEPT !.sppfNodes = x]
                    \/ g = [f EXCEPT !.gssNodes = x]
                    \/ g = [f EXCEPT !.nextAst = x]
      PROVE  Healthy(g, T)
  <2>1. /\ IsForest(g) /\ g.nodes = f.nodes
        /\ g.familyCache = f.familyCache /\ g.forestCache = f.forestCache
    BY ONLY <1>1, <1>2 DEF IsForest
  <2> QED
    BY ONLY <2>1, Healthy(f, T), HealthyAlike
<1> QED
  BY <1>2

-----------------------------------------------------------------------------
(* One action of the table.                                                *)
AllReady(q, T) == \E S : q \in Seq(S) /\ \A c \in S : Ready(c, T)

LEMMA NobodyIsReady ==
  ASSUME NEW T PROVE AllReady(<< >>, T)
<1>1. PICK q : q = << >>
  OBVIOUS
<1>2. q \in Seq({}) /\ \A c \in {} : Ready(c, T)
  BY <1>1
<1> QED
  BY ONLY <1>1, <1>2 DEF AllReady

LEMMA OneMoreIsReady ==
  ASSUME NEW T, NEW q, AllReady(q, T), NEW c, Ready(c, T), NEW more, more = Append(q, c)
  PROVE  AllReady(more, T)
<1>1. PICK S : q \in Seq(S) /\ \A d \in S : Ready(d, T)
  BY DEF AllReady
<1>2. PICK U : U = S \cup {c}
  OBVIOUS
<1>3. q \in Seq(U) /\ c \in U
  <2>1. S \subseteq U
    BY <1>2
  <2>2. q \in Seq(U)
    BY <1>1, <2>1, SeqMonotonic
  <2> QED
    BY <1>2, <2>2
<1>4. more \in Seq(U)
  BY ONLY <1>3, more = Append(q, c)
<1>5. \A d \in U : Ready(d, T)
  BY ONLY <1>1, <1>2, Ready(c, T)
<1> QED
  BY ONLY <1>4, <1>5 DEF AllReady

(* What the actions have made so far.                                      *)
Collected(s) ==
  s = [config |-> s.config, work |-> s.work, out |-> s.out, accepts |-> s.accepts,
       forest |-> s.forest, thrown |-> s.thrown]

InTurn(s, c, T) ==
  /\ Collected(s) /\ s.config = c /\ Healthy(s.forest, T)
  /\ AllReady(s.work, T) /\ AllReady(s.out, T)

LEMMA CollectKeeps ==
  ASSUME NEW T, NEW s, NEW c, InTurn(s, c, T), NEW m, Closed(m, T),
         NEW r, r = [s EXCEPT !.forest = m.forest, !.thrown = m.thrown,
                              !.work = IF m.thrown THEN @ ELSE Append(@, m.config)]
  PROVE  InTurn(r, c, T)
<1>1. /\ s = [config |-> s.config, work |-> s.work, out |-> s.out, accepts |-> s.accepts,
              forest |-> s.forest, thrown |-> s.thrown]
      /\ s.config = c /\ AllReady(s.work, T) /\ AllReady(s.out, T)
  BY DEF InTurn, Collected
<1>2. Healthy(m.forest, T) /\ (m.thrown \/ Ready(m.config, T))
  BY DEF Closed
<1>3. PICK todo : todo = IF m.thrown THEN s.work ELSE Append(s.work, m.config)
  OBVIOUS
<1>4. AllReady(todo, T)
  <2>1. CASE m.thrown
    BY ONLY <1>1, <1>3, <2>1
  <2>2. CASE ~m.thrown
    BY ONLY <1>1, <1>2, <1>3, <2>2, OneMoreIsReady
  <2> QED
    BY <2>1, <2>2
<1>5. PICK f : f = m.forest
  OBVIOUS
<1>6. PICK thrown : thrown = m.thrown
  OBVIOUS
<1>7. r = [s EXCEPT !.forest = f, !.thrown = thrown, !.work = todo]
  BY <1>1, <1>3, <1>5, <1>6
<1>8. /\ Collected(r) /\ r.config = s.config /\ r.work = todo /\ r.out = s.out /\ r.forest = f
  <2>1. s = [config |-> s.config, work |-> s.work, out |-> s.out, accepts |-> s.accepts,
             forest |-> s.forest, thrown |-> s.thrown]
    BY ONLY <1>1
  <2> QED
    BY ONLY <1>7, <2>1 DEF Collected
<1> QED
  BY ONLY <1>1, <1>2, <1>4, <1>5, <1>8 DEF InTurn

LEMMA ReduceKeeps ==
  ASSUME NEW T, Numbers(T), NEW c, NEW n, Raised(c, n, T), NEW s, InTurn(s, c, T),
         NEW cand, Answers(LRAutomaton, c.states, cand), IsReduce(cand),
         NEW m, m = Popped(c, s.forest),
         NEW r, r = applyReduceClosure(m, cand)
  PROVE  Closed(r, T)
<1>1. Healthy(s.forest, T)
  BY DEF InTurn
<1>2. PICK st : st = c.states
  OBVIOUS
<1>3. Standing(m, st, T) /\ ~m.thrown /\ m.config.states = st /\ m.top = n - 1
  <2>1. PICK f : f = s.forest
    OBVIOUS
  <2>2. StandsOn(m, st, n - 1, T)
    BY ONLY <1>1, <1>2, <2>1, Raised(c, n, T), m = Popped(c, s.forest), PoppedStands
  <2> QED
    BY ONLY <2>2 DEF StandsOn
<1>4. IsViable(LRAutomaton, st) /\ n \in Nat /\ n > 0 /\ Len(st) = n
  BY <1>2 DEF Raised, Stacked
<1>5. /\ cand \in 0 .. NUM_RULES /\ rhs(cand) \in Nat
      /\ <<st[n], rhs(cand), lhs(cand)>> \in LRAutomaton.items
  <2>1. IsAutomaton(LRAutomaton)
    BY TableAssumption
  <2> QED
    BY <1>2, <1>4, <2>1, ReduceHasItem
<1>6. PICK left \in Int : left = (n - 1) - (rhs(cand) - 1) /\ n - left = rhs(cand)
  BY ONLY <1>4, <1>5
<1>7. OnTop(LRAutomaton, st, n, m.top, cand, left)
  <2>1. n \in 1 .. Len(st) /\ m.top \in Int
    BY ONLY <1>3, <1>4
  <2> QED
    BY ONLY <1>3, <1>5, <1>6, <2>1 DEF OnTop
<1> QED
  BY ONLY <1>3, <1>4, <1>7, Numbers(T), r = applyReduceClosure(m, cand), ClosureCloses

LEMMA ShiftReduceKeeps ==
  ASSUME NEW T, Numbers(T), NEW c, NEW n, Raised(c, n, T), NEW d, Held(d, n, T),
         d.states = c.states, NEW f, Healthy(f, T),
         NEW cand, Answers(LRAutomaton, c.states, cand), IsShiftReduce(cand),
         NEW m, m = Copy(d, f), NEW r, r = applyReduceClosure(m, cand - ERROR_ACTION)
  PROVE  Closed(r, T)
<1>1. PICK rule : rule = cand - ERROR_ACTION
  OBVIOUS
<1>2. PICK st : st = c.states
  OBVIOUS
<1>3. Standing(m, st, T) /\ ~m.thrown /\ m.config.states = st /\ m.top = n
  <2>1. StandsOn(m, st, n, T)
    BY ONLY <1>2, Held(d, n, T), d.states = c.states, Healthy(f, T), m = Copy(d, f), TakenStands
  <2> QED
    BY ONLY <2>1 DEF StandsOn
<1>4. IsViable(LRAutomaton, st) /\ n \in Nat /\ n > 0 /\ Len(st) = n
  BY <1>2 DEF Raised, Stacked
<1>5. /\ rule \in 0 .. NUM_RULES /\ rhs(rule) \in Nat
      /\ <<st[n], rhs(rule) - 1, lhs(rule)>> \in LRAutomaton.items
  <2>1. IsAutomaton(LRAutomaton)
    BY TableAssumption
  <2> QED
    BY <1>1, <1>2, <1>4, <2>1, ShiftReduceHasItem
<1>6. PICK left \in Int : left = n - (rhs(rule) - 1) /\ n - left = rhs(rule) - 1
  BY ONLY <1>4, <1>5
<1>7. OnTop(LRAutomaton, st, n, m.top, rule, left)
  <2>1. n \in 1 .. Len(st) /\ m.top \in Int
    BY ONLY <1>3, <1>4
  <2> QED
    BY ONLY <1>3, <1>5, <1>6, <2>1 DEF OnTop
<1>8. r = applyReduceClosure(m, rule)
  BY ONLY <1>1, r = applyReduceClosure(m, cand - ERROR_ACTION)
<1> QED
  BY ONLY <1>3, <1>4, <1>7, <1>8, Numbers(T), ClosureCloses

(* What is shifted goes on in the state it is shifted to.                  *)
LEMMA ShiftKeeps ==
  ASSUME NEW T, NEW c, NEW n, Raised(c, n, T), NEW d, Held(d, n, T), d.states = c.states,
         NEW cand, Answers(LRAutomaton, c.states, cand), IsShift(cand),
         NEW e, e = [d EXCEPT !.action = cand]
  PROVE  Ready(e, T)
<1>1. IsConfig(d) /\ Stacked(d, n) /\ Spelled(d, n) /\ Counted(d, n, T) /\ Reading(d, T)
  BY DEF Held
<1>2. /\ n \in Nat /\ d.states \in Seq(Int) /\ Len(d.states) = n
      /\ d.asts \in Seq(Nat) /\ Len(d.asts) = n
      /\ Row(d.locations, n) /\ Row(d.symbols, n) /\ Row(d.sppfs, n)
  BY ONLY <1>1 DEF Stacked
<1>3. /\ IsConfig(e) /\ e.gss = d.gss /\ e.action = cand
      /\ e.states = d.states /\ e.locations = d.locations /\ e.symbols = d.symbols
      /\ e.asts = d.asts /\ e.sppfs = d.sppfs /\ e.derived = d.derived
      /\ e.lastToken = d.lastToken /\ e.curtok = d.curtok /\ e.kind = d.kind
  BY ONLY <1>1, e = [d EXCEPT !.action = cand] DEF IsConfig
<1>4. Stacked(e, n) /\ Len(e.states) = n
  BY ONLY <1>2, <1>3 DEF Stacked
<1>5. Spelled(e, n)
  <2>1. ASSUME NEW i PROVE GssEntry(e, i) = GssEntry(d, i)
    BY ONLY <1>3 DEF GssEntry
  <2> QED
    BY ONLY <1>1, <1>3, <2>1 DEF Spelled
<1>6. Counted(e, n, T) /\ Reading(e, T)
  BY ONLY <1>1, <1>3 DEF Counted, Reading
<1>7. IsViable(LRAutomaton, Append(e.states, cand))
  <2>1. IsAutomaton(LRAutomaton) /\ IsViable(LRAutomaton, c.states)
    BY TableAssumption DEF Raised
  <2>2. IsViable(LRAutomaton, AfterShift(c.states, cand))
    BY ONLY <2>1, Answers(LRAutomaton, c.states, cand), IsShift(cand), ShiftArrives
  <2> QED
    BY ONLY <1>3, <2>2, d.states = c.states DEF AfterShift
<1>8. cand \in Int
  BY DEF IsShift
<1> QED
  BY ONLY <1>3, <1>4, <1>5, <1>6, <1>7, <1>8 DEF Ready

LEMMA ActionKeeps ==
  ASSUME NEW T, Numbers(T), Stream, NEW c, NEW n, Raised(c, n, T), NEW s, InTurn(s, c, T),
         NEW cand, Answers(LRAutomaton, c.states, cand),
         c.kind = EOFT_SYMBOL => ~IsShift(cand) /\ ~IsShiftReduce(cand),
         NEW r, r = applyConcreteAction(s, cand)
  PROVE  InTurn(r, c, T)
<1>1. /\ s = [config |-> s.config, work |-> s.work, out |-> s.out, accepts |-> s.accepts,
              forest |-> s.forest, thrown |-> s.thrown]
      /\ s.config = c /\ Healthy(s.forest, T) /\ AllReady(s.work, T) /\ AllReady(s.out, T)
  BY DEF InTurn, Collected
<1>2. PICK popped : popped = Popped(c, s.forest)
  OBVIOUS
<1>3. PICK f : f = [s.forest EXCEPT !.sppfNodes = terminalSppf(@, c.kind, c.curtok)]
  OBVIOUS
<1>4. PICK d : d = Taken(c)
  OBVIOUS
<1>5. PICK taken : taken = Copy(d, f)
  OBVIOUS
<1>6. CASE s.thrown
  <2>1. r = s
    BY ONLY <1>6, r = applyConcreteAction(s, cand), Zenon DEF applyConcreteAction
  <2> QED
    BY ONLY <2>1, InTurn(s, c, T)
<1>7. CASE ~s.thrown /\ IsReduce(cand)
  <2>1. PICK m : m = applyReduceClosure(popped, cand)
    OBVIOUS
  <2>2. r = [s EXCEPT !.forest = m.forest, !.thrown = m.thrown,
                      !.work = IF m.thrown THEN @ ELSE Append(@, m.config)]
    BY ONLY <1>1, <1>2, <1>7, <2>1, r = applyConcreteAction(s, cand), Zenon
       DEF applyConcreteAction, Popped
  <2>3. Closed(m, T)
    BY ONLY <1>2, <1>7, <2>1, Numbers(T), Raised(c, n, T), InTurn(s, c, T),
            Answers(LRAutomaton, c.states, cand), ReduceKeeps
  <2> QED
    BY ONLY <2>2, <2>3, InTurn(s, c, T), CollectKeeps
<1>8. ASSUME c.kind # EOFT_SYMBOL
      PROVE  Held(d, n, T) /\ d.states = c.states /\ Healthy(f, T)
  <2>1. Held(d, n, T) /\ d.states = c.states
    BY ONLY <1>4, <1>8, Numbers(T), Stream, Raised(c, n, T), TakenHolds
  <2>2. PICK x : x = terminalSppf(s.forest.sppfNodes, c.kind, c.curtok)
    OBVIOUS
  <2>3. f = [s.forest EXCEPT !.sppfNodes = x]
    BY ONLY <1>3, <2>2
  <2> QED
    BY ONLY <1>1, <2>1, <2>3, TablesOfNodes
<1>9. CASE ~s.thrown /\ ~IsReduce(cand) /\ IsShiftReduce(cand)
  <2>1. PICK m : m = applyReduceClosure(taken, cand - ERROR_ACTION)
    OBVIOUS
  <2>2. r = [s EXCEPT !.forest = m.forest, !.thrown = m.thrown,
                      !.work = IF m.thrown THEN @ ELSE Append(@, m.config)]
    BY ONLY <1>1, <1>3, <1>4, <1>5, <1>9, <2>1, r = applyConcreteAction(s, cand), Zenon
       DEF applyConcreteAction
  <2>3. c.kind # EOFT_SYMBOL
    BY <1>9
  <2>4. Closed(m, T)
    BY ONLY <1>5, <1>8, <1>9, <2>1, <2>3, Numbers(T), Raised(c, n, T),
            Answers(LRAutomaton, c.states, cand), ShiftReduceKeeps
  <2> QED
    BY ONLY <2>2, <2>4, InTurn(s, c, T), CollectKeeps
<1>10. CASE ~s.thrown /\ ~IsReduce(cand) /\ ~IsShiftReduce(cand) /\ IsShift(cand)
  <2>1. PICK e : e = [d EXCEPT !.action = cand]
    OBVIOUS
  <2>2. PICK results : results = Append(s.out, e)
    OBVIOUS
  <2>3. taken.forest = f /\ taken.config = d
    BY ONLY <1>5 DEF Copy
  <2>4. r = [s EXCEPT !.forest = taken.forest,
                      !.out = Append(@, [taken.config EXCEPT !.action = cand])]
    BY ONLY <1>1, <1>3, <1>4, <1>5, <1>10, r = applyConcreteAction(s, cand), Zenon
       DEF applyConcreteAction
  <2>5. r = [s EXCEPT !.forest = f, !.out = results]
    BY ONLY <1>1, <2>1, <2>2, <2>3, <2>4
  <2>6. c.kind # EOFT_SYMBOL
    BY <1>10
  <2>7. Ready(e, T)
    BY ONLY <1>8, <1>10, <2>1, <2>6, Raised(c, n, T), Answers(LRAutomaton, c.states, cand),
            ShiftKeeps
  <2>8. AllReady(results, T)
    BY ONLY <1>1, <2>2, <2>7, OneMoreIsReady
  <2>9. s = [config |-> s.config, work |-> s.work, out |-> s.out, accepts |-> s.accepts,
             forest |-> s.forest, thrown |-> s.thrown]
    BY ONLY <1>1
  <2>10. Collected(r) /\ r.config = s.config /\ r.work = s.work /\ r.out = results /\ r.forest = f
    BY ONLY <2>5, <2>9 DEF Collected
  <2> QED
    BY ONLY <1>1, <1>8, <2>6, <2>8, <2>10 DEF InTurn
<1>11. CASE ~s.thrown /\ ~IsReduce(cand) /\ ~IsShiftReduce(cand) /\ ~IsShift(cand)
  <2>1. \E accepts1 : r = [s EXCEPT !.accepts = accepts1]
    <3>1. CASE cand = ACCEPT_ACTION
      <4>1. PICK x : x = Append(s.accepts, [ast |-> c.asts[parseStackRoot + 1],
                                            symbol |-> c.symbols[parseStackRoot + 1],
                                            sppf |-> c.sppfs[parseStackRoot + 1]])
        OBVIOUS
      <4>2. r = [s EXCEPT !.accepts = Append(@, [ast |-> c.asts[parseStackRoot + 1],
                                                 symbol |-> c.symbols[parseStackRoot + 1],
                                                 sppf |-> c.sppfs[parseStackRoot + 1]])]
        BY ONLY <1>1, <1>11, <3>1, r = applyConcreteAction(s, cand), Zenon
           DEF applyConcreteAction
      <4>3. r = [s EXCEPT !.accepts = x]
        BY ONLY <4>1, <4>2
      <4> QED
        BY ONLY <4>3, Zenon
    <3>2. CASE cand # ACCEPT_ACTION
      <4>1. r = s
        BY ONLY <1>1, <1>11, <3>2, r = applyConcreteAction(s, cand), Zenon
           DEF applyConcreteAction
      <4>2. PICK x : x = s.accepts
        OBVIOUS
      <4>3. r = [s EXCEPT !.accepts = x]
        BY ONLY <1>1, <4>1, <4>2
      <4> QED
        BY ONLY <4>3, Zenon
    <3> QED
      BY ONLY <3>1, <3>2
  <2>2. PICK x : r = [s EXCEPT !.accepts = x]
    BY ONLY <2>1
  <2>3. s = [config |-> s.config, work |-> s.work, out |-> s.out, accepts |-> s.accepts,
             forest |-> s.forest, thrown |-> s.thrown]
    BY ONLY <1>1
  <2>4. /\ Collected(r) /\ r.config = s.config /\ r.work = s.work /\ r.out = s.out
        /\ r.forest = s.forest
    BY ONLY <2>2, <2>3 DEF Collected
  <2> QED
    BY ONLY <1>1, <2>4 DEF InTurn
<1> QED
  BY <1>6, <1>7, <1>9, <1>10, <1>11

(* The actions of a conflict, one after the other.                         *)
Playable(a, s, kind, cand) ==
  Answers(a, s, cand) /\ (kind = EOFT_SYMBOL => ~IsShift(cand) /\ ~IsShiftReduce(cand))

LEMMA ActionsKeep ==
  ASSUME NEW T, Numbers(T), Stream, NEW c, NEW n, Raised(c, n, T), NEW s, InTurn(s, c, T),
         NEW S, NEW seq \in Seq(S), \A x \in S : Playable(LRAutomaton, c.states, c.kind, x),
         NEW r, r = FoldLeft(applyConcreteAction, s, seq)
  PROVE  InTurn(r, c, T)
<1>1. PICK k \in Nat : k = Len(seq)
  OBVIOUS
<1>2. PICK what : what = "action"
  OBVIOUS
<1>3. r = Fold(what, s, seq)
  BY <1>2, ActionsAreFolded
<1>4. PICK g : FoldsTo(g, what, s, seq, k) /\ Fold(what, s, seq) = g[k]
  BY ONLY <1>1, seq \in Seq(S), FoldTrace
<1>5. PICK Q : Q = {i \in Nat : i <= k => InTurn(g[i], c, T)}
  OBVIOUS
<1>6. 0 \in Q
  BY ONLY <1>4, <1>5, InTurn(s, c, T) DEF FoldsTo
<1>7. ASSUME NEW i \in Nat, i \in Q PROVE i + 1 \in Q
  <2>1. SUFFICES ASSUME i + 1 <= k PROVE InTurn(g[i + 1], c, T)
    BY <1>5
  <2>2. PICK j : j = i + 1
    OBVIOUS
  <2>3. j \in 1 .. k /\ j - 1 = i /\ i <= k
    BY <2>1, <2>2
  <2>4. InTurn(g[i], c, T)
    BY ONLY <1>5, <1>7, <2>3
  <2>5. g[j] = applyConcreteAction(g[i], seq[j])
    BY ONLY <1>2, <1>4, <2>3 DEF FoldsTo, Done
  <2>6. seq[j] \in S
    BY ONLY <1>1, <2>3, seq \in Seq(S)
  <2>7. PICK cand : cand = seq[j]
    OBVIOUS
  <2>8. /\ Answers(LRAutomaton, c.states, cand)
        /\ c.kind = EOFT_SYMBOL => ~IsShift(cand) /\ ~IsShiftReduce(cand)
    BY ONLY <2>6, <2>7, \A x \in S : Playable(LRAutomaton, c.states, c.kind, x) DEF Playable
  <2>9. InTurn(g[j], c, T)
    BY ONLY <2>4, <2>5, <2>7, <2>8, Numbers(T), Stream, Raised(c, n, T), ActionKeeps
  <2> QED
    BY ONLY <2>2, <2>9
<1>8. k \in Q
  BY <1>6, <1>7, NatSetInduction
<1>9. InTurn(g[k], c, T)
  BY ONLY <1>5, <1>8, k \in Nat
<1> QED
  BY ONLY <1>3, <1>4, <1>9

(* A row of the table ends before the row of errors begins.                *)
RowEnds(act, n) ==
  /\ n \in 1 .. ERROR_ACTION /\ baseAction[act + n] = 0
  /\ \A i \in 0 .. n - 1 : baseAction[act + i] # 0

LEMMA RowsEnd ==
  ASSUME NEW act, IsConflict(act), baseAction[act] # 0
  PROVE  \E n : RowEnds(act, n)
<1>1. /\ act \in Int /\ ERROR_ACTION \in Int /\ ACCEPT_ACTION \in Int /\ ACCEPT_ACTION >= 0
      /\ act > ACCEPT_ACTION /\ act < ERROR_ACTION
  <2>1. /\ NUM_RULES \in Nat /\ START_STATE \in Int /\ ACCEPT_ACTION \in Int
        /\ ERROR_ACTION \in Int /\ NUM_RULES < START_STATE /\ START_STATE < ACCEPT_ACTION
    BY LayoutAssumption
  <2>2. act \in ACCEPT_ACTION + 1 .. ERROR_ACTION - 1
    BY DEF IsConflict
  <2> QED
    BY ONLY <2>1, <2>2
<1>2. PICK z \in Nat : act + z = ERROR_ACTION - 1
  <2>1. ERROR_ACTION - 1 - act \in Nat /\ act + (ERROR_ACTION - 1 - act) = ERROR_ACTION - 1
    BY ONLY <1>1
  <2> QED
    BY ONLY <2>1, Zenon
<1>3. baseAction[act + z] = 0
  <2>1. PICK e : e = ERROR_ACTION - 1
    OBVIOUS
  <2>2. e \in ACCEPT_ACTION + 1 .. ERROR_ACTION - 1
        /\ e + 1 \notin ACCEPT_ACTION + 1 .. ERROR_ACTION - 1
    BY ONLY <1>1, <2>1
  <2>3. baseAction[e] # 0 => e + 1 \in ACCEPT_ACTION + 1 .. ERROR_ACTION - 1
    BY <2>2, LayoutAssumption
  <2> QED
    BY ONLY <1>2, <2>1, <2>2, <2>3
<1>4. PICK S : S = {k \in Nat : baseAction[act + k] = 0}
  OBVIOUS
<1>5. S \in SUBSET Nat /\ z \in S
  BY ONLY <1>3, <1>4, z \in Nat
<1>6. PICK n \in S : \A m \in S : n <= m
  BY ONLY <1>5, LeastElement
<1>7. n \in Nat /\ n <= z /\ baseAction[act + n] = 0
  BY ONLY <1>4, <1>5, <1>6
<1>8. n # 0
  <2>1. act + 0 = act
    BY ONLY <1>1
  <2> QED
    BY ONLY <1>7, <2>1, baseAction[act] # 0
<1>9. n \in 1 .. ERROR_ACTION
  BY ONLY <1>1, <1>2, <1>7, <1>8
<1>10. ASSUME NEW i \in 0 .. n - 1 PROVE baseAction[act + i] # 0
  <2>1. i \in Nat /\ ~(n <= i)
    BY ONLY <1>7, i \in 0 .. n - 1
  <2> QED
    BY ONLY <1>4, <1>6, <2>1
<1>11. RowEnds(act, n)
  BY ONLY <1>7, <1>9, <1>10 DEF RowEnds
<1> QED
  BY <1>11

(* Every action of a row is an answer of the table.                        *)
LEMMA CandidatesAnswer ==
  ASSUME NEW a, IsAutomaton(a), NEW s, NEW act, Answers(a, s, act),
         NEW seq, seq = candidates(act)
  PROVE  seq \in Seq(ToSet(seq)) /\ \A x \in ToSet(seq) : Answers(a, s, x)
<1>1. ASSUME NEW n \in Nat, Row(seq, n)
      PROVE  DOMAIN seq = 1 .. n /\ seq \in Seq(ToSet(seq))
  <2>1. DOMAIN seq = 1 .. n /\ seq = [i \in 1 .. n |-> seq[i]]
    BY ONLY <1>1 DEF Row
  <2>2. PICK S : S = {seq[i] : i \in 1 .. n}
    OBVIOUS
  <2>3. ToSet(seq) = S
    BY ONLY <2>1, <2>2 DEF ToSet
  <2>4. \A i \in 1 .. n : seq[i] \in S
    BY ONLY <2>2
  <2>5. [i \in 1 .. n |-> seq[i]] \in Seq(S)
    BY ONLY <2>4, n \in Nat
  <2> QED
    BY ONLY <2>1, <2>3, <2>5
<1>2. CASE ~IsConflict(act)
  <2>1. seq = <<act>>
    BY ONLY <1>2, seq = candidates(act), Zenon DEF candidates
  <2>2. Row(seq, 1) /\ seq[1] = act
    BY ONLY <2>1 DEF Row
  <2>3. DOMAIN seq = 1 .. 1 /\ seq \in Seq(ToSet(seq))
    BY ONLY <1>1, <2>2
  <2>4. \A x \in ToSet(seq) : x = act
    BY ONLY <2>2, <2>3 DEF ToSet
  <2> QED
    BY ONLY <2>3, <2>4, Answers(a, s, act)
<1>3. CASE IsConflict(act)
  <2>1. PICK k \in Nat : <<s[Len(s)], k, act>> \in a.actions
    BY DEF Answers
  <2>2. PICK st : st = s[Len(s)]
    OBVIOUS
  <2>3. ASSUME NEW y, IsConflict(y), <<st, k, y>> \in a.actions
        PROVE  /\ baseAction[y] # 0 /\ <<st, k, baseAction[y]>> \in a.actions
               /\ baseAction[y + 1] # 0 => <<st, k, y + 1>> \in a.actions
    <3>1. PICK x : x = <<st, k, y>>
      OBVIOUS
    <3>2. x \in a.actions /\ x[1] = st /\ x[2] = k /\ x[3] = y
      BY ONLY <2>3, <3>1
    <3>3. RowIsThere(a, x)
      BY <2>3, <3>2 DEF IsAutomaton, ActionsAreThere
    <3> QED
      BY ONLY <3>2, <3>3 DEF RowIsThere
  <2>4. baseAction[act] # 0
    BY ONLY <1>3, <2>1, <2>2, <2>3
  <2>5. PICK n : /\ n = CHOOSE m \in 1 .. ERROR_ACTION :
                          /\ baseAction[act + m] = 0
                          /\ \A i \in 0 .. m - 1 : baseAction[act + i] # 0
    OBVIOUS
  <2>6. RowEnds(act, n)
    <3>1. \E m \in 1 .. ERROR_ACTION :
            baseAction[act + m] = 0 /\ \A i \in 0 .. m - 1 : baseAction[act + i] # 0
      <4>1. PICK m : RowEnds(act, m)
        BY ONLY <1>3, <2>4, RowsEnd
      <4> QED
        BY ONLY <4>1 DEF RowEnds
    <3> QED
      BY ONLY <2>5, <3>1, Zenon DEF RowEnds
  <2>7. seq = [i \in 1 .. n |-> baseAction[act + i - 1]]
    BY ONLY <1>3, <2>5, seq = candidates(act), Zenon DEF candidates, expandConflict
  <2>8. /\ act \in Int /\ ERROR_ACTION \in Int /\ ACCEPT_ACTION \in Int
        /\ n \in Nat /\ n > 0
    <3>1. ERROR_ACTION \in Int /\ ACCEPT_ACTION \in Int
      BY LayoutAssumption
    <3> QED
      BY ONLY <1>3, <2>6, <3>1 DEF IsConflict, RowEnds
  <2>9. PICK Q : Q = {i \in Nat : i <= n - 1 => IsConflict(act + i) /\ <<st, k, act + i>> \in a.actions}
    OBVIOUS
  <2>10. 0 \in Q
    <3>1. act + 0 = act
      BY ONLY <2>8
    <3> QED
      BY ONLY <1>3, <2>1, <2>2, <2>9, <3>1
  <2>11. ASSUME NEW i \in Nat, i \in Q PROVE i + 1 \in Q
    <3>1. SUFFICES ASSUME i + 1 <= n - 1
                   PROVE  IsConflict(act + (i + 1)) /\ <<st, k, act + (i + 1)>> \in a.actions
      BY <2>9
    <3>2. PICK y : y = act + i
      OBVIOUS
    <3>3. i <= n - 1 /\ y + 1 = act + (i + 1) /\ i + 1 \in 0 .. n - 1
      BY ONLY <2>8, <3>1, <3>2, i \in Nat
    <3>4. IsConflict(y) /\ <<st, k, y>> \in a.actions
      BY ONLY <2>9, <2>11, <3>2, <3>3
    <3>5. baseAction[act + (i + 1)] # 0
      BY ONLY <2>6, <3>3 DEF RowEnds
    <3>6. baseAction[y] # 0 /\ baseAction[y + 1] # 0
      BY ONLY <2>3, <3>3, <3>4, <3>5
    <3>7. <<st, k, y + 1>> \in a.actions
      BY ONLY <2>3, <3>4, <3>6
    <3>8. IsConflict(y + 1)
      <4>1. y \in ACCEPT_ACTION + 1 .. ERROR_ACTION - 1
        BY ONLY <3>4 DEF IsConflict
      <4>2. y + 1 \in ACCEPT_ACTION + 1 .. ERROR_ACTION - 1
        BY <3>6, <4>1, LayoutAssumption
      <4> QED
        BY ONLY <4>2 DEF IsConflict
    <3> QED
      BY ONLY <3>3, <3>7, <3>8
  <2>12. Nat \subseteq Q
    BY <2>10, <2>11, NatSetInduction
  <2>13. DOMAIN seq = 1 .. n /\ seq \in Seq(ToSet(seq))
    <3>1. Row(seq, n)
      BY ONLY <2>7 DEF Row
    <3> QED
      BY ONLY <1>1, <2>8, <3>1
  <2>14. ASSUME NEW i \in 1 .. n PROVE Answers(a, s, seq[i])
    <3>1. PICK j \in Nat : j = i - 1 /\ j <= n - 1 /\ act + i - 1 = act + j
      <4>1. i - 1 \in Nat /\ i - 1 <= n - 1 /\ act + i - 1 = act + (i - 1)
        BY ONLY <2>8, i \in 1 .. n
      <4> QED
        BY ONLY <4>1, Zenon
    <3>2. IsConflict(act + j) /\ <<st, k, act + j>> \in a.actions
      BY ONLY <2>9, <2>12, <3>1
    <3>3. <<st, k, baseAction[act + j]>> \in a.actions
      BY ONLY <2>3, <3>2
    <3>4. seq[i] = baseAction[act + j]
      BY ONLY <2>7, <3>1, i \in 1 .. n
    <3> QED
      BY ONLY <2>2, <3>3, <3>4, k \in Nat DEF Answers
  <2> QED
    BY ONLY <2>13, <2>14 DEF ToSet
<1> QED
  BY <1>2, <1>3

(* What the table says in a turn can be played.                            *)
LEMMA TurnIsPlayable ==
  ASSUME Stream, NEW T, NEW c, NEW n, Raised(c, n, T),
         NEW act, act = tAction(Last(c.states), c.kind, c.curtok), NEW seq, seq = candidates(act)
  PROVE  seq \in Seq(ToSet(seq)) /\ \A x \in ToSet(seq) : Playable(LRAutomaton, c.states, c.kind, x)
<1>1. PICK a : a = LRAutomaton
  OBVIOUS
<1>2. PICK s : s = c.states
  OBVIOUS
<1>3. IsAutomaton(a) /\ IsViable(a, s) /\ Reads(a, 1)
  BY <1>1, <1>2, TableAssumption DEF Raised, Stream
<1>4. c.kind \in a.terminals /\ c.curtok \in Int /\ c.curtok >= 1 - 1
  <2>1. len \in Nat
    BY <1>3 DEF Reads
  <2> QED
    BY <1>1, <2>1 DEF Raised, Reading
<1>5. Answers(a, s, act)
  <2>1. PICK one : one = 1
    OBVIOUS
  <2>2. act = tAction(Last(s), c.kind, c.curtok)
    BY ONLY <1>2, act = tAction(Last(c.states), c.kind, c.curtok)
  <2>3. Reads(a, one) /\ c.curtok >= one - 1
    BY ONLY <1>3, <1>4, <2>1
  <2> QED
    BY ONLY <1>3, <1>4, <2>2, <2>3, tActionAnswers
<1>6. seq \in Seq(ToSet(seq)) /\ \A x \in ToSet(seq) : Answers(a, s, x)
  BY ONLY <1>3, <1>5, seq = candidates(act), CandidatesAnswer
<1>7. ASSUME c.kind = EOFT_SYMBOL, NEW x \in ToSet(seq)
      PROVE  ~IsShift(x) /\ ~IsShiftReduce(x)
  <2>1. PICK state : state = Last(s)
    OBVIOUS
  <2>2. state \in StatesOf(LRAutomaton)
    BY <1>1, <1>3, <2>1, TopIsAState
  <2>3. PICK y : y = tableAction(state, EOFT_SYMBOL)
    OBVIOUS
  <2>4. /\ ~(y > LA_STATE_OFFSET)
        /\ \A cand \in ToSet(candidates(y)) : ~IsShift(cand) /\ ~IsShiftReduce(cand)
    BY <2>2, <2>3, TableAssumption
  <2>5. ~AsksForMore(y)
    BY ONLY <2>4 DEF AsksForMore
  <2>6. act = y
    BY ONLY <1>2, <1>7, <2>1, <2>3, <2>5, act = tAction(Last(c.states), c.kind, c.curtok), Zenon
       DEF tAction
  <2> QED
    BY ONLY <1>7, <2>4, <2>6, seq = candidates(act)
<1> QED
  BY ONLY <1>1, <1>2, <1>6, <1>7 DEF Playable

LEMMA LastIsReady ==
  ASSUME NEW T, NEW q, AllReady(q, T), q # << >>
  PROVE  Ready(Last(q), T) /\ AllReady(Front(q), T)
<1>1. PICK S : q \in Seq(S) /\ \A d \in S : Ready(d, T)
  BY DEF AllReady
<1>2. Len(q) \in Nat /\ Len(q) > 0
  BY <1>1
<1>3. Last(q) \in S
  BY ONLY <1>1, <1>2 DEF Last
<1>4. Front(q) \in Seq(S)
  BY ONLY <1>1, <1>2 DEF Front
<1> QED
  BY ONLY <1>1, <1>3, <1>4 DEF AllReady

LEMMA HeadIsReady ==
  ASSUME NEW T, NEW q, AllReady(q, T), q # << >>
  PROVE  Ready(Head(q), T) /\ AllReady(Tail(q), T)
<1>1. PICK S : q \in Seq(S) /\ \A d \in S : Ready(d, T)
  BY DEF AllReady
<1>2. Head(q) \in S /\ Tail(q) \in Seq(S)
  BY ONLY <1>1, q # << >>
<1> QED
  BY ONLY <1>1, <1>2 DEF AllReady

(* A whole turn.                                                           *)
TurnMade(r, T) == Healthy(r.forest, T) /\ AllReady(r.work, T) /\ AllReady(r.out, T)

LEMMA TurnsKeep ==
  ASSUME NEW T, Numbers(T), Stream, NEW q, AllReady(q, T), q # << >>, NEW o, AllReady(o, T),
         NEW f, Healthy(f, T), NEW last, last = Last(q), NEW c, c = Pushed(last),
         NEW edge, NEW accepting,
         NEW r, r = FoldLeft(applyConcreteAction,
                       [config |-> c, work |-> Front(q), out |-> o, accepts |-> accepting,
                        forest |-> [f EXCEPT !.gssNodes = @ \cup {edge}], thrown |-> FALSE],
                       candidates(tAction(last.action, c.kind, c.curtok)))
  PROVE  TurnMade(r, T)
<1>1. Ready(last, T) /\ AllReady(Front(q), T)
  BY LastIsReady
<1>2. PICK k : k = Len(last.states)
  OBVIOUS
<1>3. PICK n : n = k + 1
  OBVIOUS
<1>4. Raised(c, n, T) /\ c.states = Append(last.states, last.action)
  BY ONLY <1>1, <1>2, <1>3, c = Pushed(last), PushedRaises
<1>5. Last(c.states) = last.action
  <2>1. last.action \in Int /\ last.states \in Seq(Int)
    BY ONLY <1>1 DEF Ready, Stacked
  <2> QED
    BY ONLY <1>4, <2>1 DEF Last
<1>6. PICK act : act = tAction(last.action, c.kind, c.curtok)
  OBVIOUS
<1>7. PICK seq : seq = candidates(act)
  OBVIOUS
<1>8. PICK S : S = ToSet(seq)
  OBVIOUS
<1>9. seq \in Seq(S) /\ \A x \in S : Playable(LRAutomaton, c.states, c.kind, x)
  BY ONLY <1>4, <1>5, <1>6, <1>7, <1>8, Stream, TurnIsPlayable
<1>10. PICK g : g = [f EXCEPT !.gssNodes = @ \cup {edge}]
  OBVIOUS
<1>11. Healthy(g, T)
  <2>1. PICK x : x = f.gssNodes \cup {edge}
    OBVIOUS
  <2>2. g = [f EXCEPT !.gssNodes = x]
    BY ONLY <1>10, <2>1
  <2> QED
    BY ONLY <2>2, Healthy(f, T), TablesOfNodes
<1>12. PICK no : no = FALSE
  OBVIOUS
<1>13. PICK s : s = [config |-> c, work |-> Front(q), out |-> o, accepts |-> accepting,
                     forest |-> g, thrown |-> no]
  OBVIOUS
<1>14. InTurn(s, c, T)
  <2>1. /\ Collected(s) /\ s.config = c /\ s.work = Front(q) /\ s.out = o /\ s.forest = g
    BY ONLY <1>13 DEF Collected
  <2> QED
    BY ONLY <1>1, <1>11, <2>1, AllReady(o, T) DEF InTurn
<1>15. r = FoldLeft(applyConcreteAction, s, seq)
  <2>1. s = [config |-> c, work |-> Front(q), out |-> o, accepts |-> accepting,
             forest |-> [f EXCEPT !.gssNodes = @ \cup {edge}], thrown |-> FALSE]
    BY ONLY <1>10, <1>12, <1>13
  <2> QED
    BY ONLY <1>6, <1>7, <2>1,
            r = FoldLeft(applyConcreteAction,
                       [config |-> c, work |-> Front(q), out |-> o, accepts |-> accepting,
                        forest |-> [f EXCEPT !.gssNodes = @ \cup {edge}], thrown |-> FALSE],
                       candidates(tAction(last.action, c.kind, c.curtok)))
<1>16. InTurn(r, c, T)
  BY ONLY <1>4, <1>9, <1>14, <1>15, Numbers(T), Stream, ActionsKeep
<1> QED
  BY ONLY <1>16 DEF InTurn, TurnMade

-----------------------------------------------------------------------------
(* What has shifted is packed: the next round gets no configuration that   *)
(* was not there.                                                          *)
Packed(s, T) == s = [next |-> s.next, forest |-> s.forest] /\ AllReady(s.next, T)

LEMMA PackKeeps ==
  ASSUME NEW T, NEW s, Packed(s, T), NEW c, Ready(c, T), NEW r, r = packConfig(s, c)
  PROVE  Packed(r, T)
<1>1. s = [next |-> s.next, forest |-> s.forest] /\ AllReady(s.next, T)
  BY DEF Packed
<1>2. \/ r = [s EXCEPT !.next = Append(@, c)]
      \/ \E x : r = [s EXCEPT !.forest.nextAst = x]
  BY <1>1 DEF packConfig
<1>3. CASE r = [s EXCEPT !.next = Append(@, c)]
  <2>1. PICK next1 : next1 = Append(s.next, c)
    OBVIOUS
  <2>2. r = [next |-> next1, forest |-> s.forest]
    BY ONLY <1>1, <1>3, <2>1
  <2>3. AllReady(next1, T)
    BY ONLY <1>1, <2>1, Ready(c, T), OneMoreIsReady
  <2> QED
    BY ONLY <2>2, <2>3 DEF Packed
<1>4. CASE \E x : r = [s EXCEPT !.forest.nextAst = x]
  <2>1. PICK x : r = [s EXCEPT !.forest.nextAst = x]
    BY <1>4
  <2>2. r = [next |-> s.next, forest |-> r.forest] /\ r.next = s.next
    BY ONLY <1>1, <2>1
  <2> QED
    BY ONLY <1>1, <2>2 DEF Packed
<1> QED
  BY <1>2, <1>3, <1>4

LEMMA PacksKeep ==
  ASSUME NEW T, NEW q, AllReady(q, T), NEW f, NEW o, AllReady(o, T),
         NEW r, r = FoldLeft(packConfig, [next |-> q, forest |-> f], o)
  PROVE  AllReady(r.next, T)
<1>1. PICK S : o \in Seq(S) /\ \A c \in S : Ready(c, T)
  BY DEF AllReady
<1>2. PICK k \in Nat : k = Len(o)
  BY ONLY <1>1
<1>3. PICK what : what = "pack"
  OBVIOUS
<1>4. PICK s : s = [next |-> q, forest |-> f]
  OBVIOUS
<1>5. r = Fold(what, s, o)
  BY <1>3, <1>4, PacksAreFolded
<1>6. PICK g : FoldsTo(g, what, s, o, k) /\ Fold(what, s, o) = g[k]
  BY ONLY <1>1, <1>2, FoldTrace
<1>7. PICK Q : Q = {i \in Nat : i <= k => Packed(g[i], T)}
  OBVIOUS
<1>8. 0 \in Q
  <2>1. Packed(s, T)
    BY ONLY <1>4, AllReady(q, T) DEF Packed
  <2> QED
    BY ONLY <1>6, <1>7, <2>1 DEF FoldsTo
<1>9. ASSUME NEW i \in Nat, i \in Q PROVE i + 1 \in Q
  <2>1. SUFFICES ASSUME i + 1 <= k PROVE Packed(g[i + 1], T)
    BY <1>7
  <2>2. PICK j : j = i + 1
    OBVIOUS
  <2>3. j \in 1 .. k /\ j - 1 = i /\ i <= k
    BY <2>1, <2>2
  <2>4. Packed(g[i], T)
    BY ONLY <1>7, <1>9, <2>3
  <2>5. PICK c : c = o[j]
    OBVIOUS
  <2>6. g[j] = packConfig(g[i], c)
    BY ONLY <1>3, <1>6, <2>3, <2>5 DEF FoldsTo, Done
  <2>7. Ready(c, T)
    BY ONLY <1>1, <1>2, <2>3, <2>5
  <2>8. Packed(g[j], T)
    BY ONLY <2>4, <2>6, <2>7, PackKeeps
  <2> QED
    BY ONLY <2>2, <2>8
<1>10. k \in Q
  BY <1>8, <1>9, NatSetInduction
<1>11. Packed(g[k], T)
  BY ONLY <1>7, <1>10, k \in Nat
<1> QED
  BY ONLY <1>5, <1>6, <1>11 DEF Packed

-----------------------------------------------------------------------------
(* The n-th token taken, from 0.                                           *)
Tokens == [n \in Int |-> Max({0, n + 1 - parseStackRoot})]

LEMMA NoLessThanZero ==
  ASSUME NEW n \in Int
  PROVE  Max({0, n}) = IF n > 0 THEN n ELSE 0
<1>1. PICK S : S = {0, n}
  OBVIOUS
<1>2. PICK m : m = IF n > 0 THEN n ELSE 0
  OBVIOUS
<1>3. m \in S /\ \A y \in S : m >= y
  BY ONLY <1>1, <1>2, n \in Int
<1>4. \A x \in S : (\A y \in S : x >= y) => x = m
  BY ONLY <1>1, <1>2, n \in Int
<1>5. PICK z : z = CHOOSE x \in S : \A y \in S : x >= y
  OBVIOUS
<1>6. z \in S /\ \A y \in S : z >= y
  BY ONLY <1>3, <1>5, Zenon
<1>7. Max(S) = z
  BY ONLY <1>5 DEF Max
<1> QED
  BY ONLY <1>1, <1>2, <1>4, <1>6, <1>7

LEMMA TokensAreNumbered ==
  /\ Numbers(Tokens) /\ Tokens[-1] = 0 /\ Tokens[0] = 1 - parseStackRoot
  /\ parseStackRoot \in {0, 1}
<1>1. PICK root : root = parseStackRoot
  OBVIOUS
<1>2. root \in {0, 1}
  BY ONLY <1>1 DEF parseStackRoot
<1>3. PICK T : T = Tokens
  OBVIOUS
<1>4. ASSUME NEW n \in Int
      PROVE  T[n] = IF n + 1 - root > 0 THEN n + 1 - root ELSE 0
  <2>1. PICK m \in Int : m = n + 1 - root
    BY ONLY <1>2, n \in Int
  <2>2. T[n] = Max({0, m})
    BY ONLY <1>1, <1>3, <2>1, n \in Int DEF Tokens
  <2>3. Max({0, m}) = IF m > 0 THEN m ELSE 0
    BY ONLY m \in Int, NoLessThanZero
  <2> QED
    BY ONLY <2>1, <2>2, <2>3
<1>5. ASSUME NEW k \in Nat
      PROVE  T[k] \in Int /\ T[k - 1] = getPrevious(T[k]) /\ T[k + 1] = T[k] + 1
  <2>1. /\ T[k] = k + 1 - root
        /\ T[k - 1] = IF k - root > 0 THEN k - root ELSE 0
        /\ T[k + 1] = k + 2 - root
    BY ONLY <1>2, <1>4, k \in Nat
  <2> QED
    BY ONLY <1>2, <2>1, k \in Nat DEF getPrevious
<1>6. Numbers(T)
  BY ONLY <1>5 DEF Numbers
<1>7. T[-1] = 0 /\ T[0] = 1 - root
  BY ONLY <1>2, <1>4
<1> QED
  BY ONLY <1>1, <1>2, <1>3, <1>6, <1>7

(* The inductive invariant.                                                *)
IInv ==
  /\ Stream /\ Healthy(forest, Tokens)
  /\ AllReady(live, Tokens) /\ AllReady(next, Tokens)
  /\ AllReady(work, Tokens) /\ AllReady(out, Tokens)

LEMMA StartIsReady ==
  ASSUME Stream, NEW T, T[-1] = 0, NEW curtok, curtok = T[0], curtok \in 0 .. len - 1,
         NEW kind \in LRAutomaton.terminals, kind # EOFT_SYMBOL => curtok + 1 < len,
         NEW c, c = Start(curtok, kind)
  PROVE  Ready(c, T)
<1>1. PICK none : none = << >>
  OBVIOUS
<1>2. /\ IsConfig(c) /\ c.states = none /\ c.locations = none /\ c.symbols = none
      /\ c.asts = none /\ c.sppfs = none /\ c.derived = none /\ c.gss = none
      /\ c.action = START_STATE /\ c.curtok = curtok /\ c.lastToken = 0 /\ c.kind = kind
  BY ONLY <1>1, c = Start(curtok, kind) DEF Start, IsConfig
<1>3. Len(none) = 0 /\ none \in Seq(Int) /\ none \in Seq(Nat) /\ none \in Symbols
  BY <1>1 DEF Symbols
<1>4. Row(none, 0)
  BY ONLY <1>3, SequenceIsRow
<1>5. Stacked(c, 0) /\ Spelled(c, 0)
  BY ONLY <1>2, <1>3, <1>4 DEF Stacked, Spelled
<1>6. Covered(none) = 0
  BY <1>1, CoveredNothing
<1>7. Counted(c, 0, T)
  <2>1. T[Covered(none) - 1] = 0
    <3>1. 0 - 1 = -1
      OBVIOUS
    <3> QED
      BY ONLY <1>6, <3>1, T[-1] = 0
  <2>2. Placed(none, none, 0, T) /\ Linked(none, none)
    BY ONLY <1>3 DEF Placed, Linked
  <2> QED
    BY ONLY <1>2, <1>3, <2>1, <2>2 DEF Counted
<1>8. Reading(c, T)
  BY ONLY <1>2, <1>6, curtok = T[0], curtok \in 0 .. len - 1,
          kind \in LRAutomaton.terminals, kind # EOFT_SYMBOL => curtok + 1 < len DEF Reading
<1>9. START_STATE \in Int
  BY LayoutAssumption
<1>10. IsViable(LRAutomaton, Append(c.states, c.action))
  <2>1. Append(none, START_STATE) = <<START_STATE>>
    BY <1>1, <1>9
  <2>2. IsViable(LRAutomaton, <<START_STATE>>)
    BY StartIsViable
  <2> QED
    BY ONLY <1>2, <2>1, <2>2
<1> QED
  BY ONLY <1>2, <1>3, <1>5, <1>7, <1>8, <1>9, <1>10 DEF Ready

LEMMA InitMakesReady == Init => IInv
<1>1. SUFFICES ASSUME Init PROVE IInv
  OBVIOUS
<1>2. PICK s : s \in Inputs[marker] /\ kinds = <<0>> \o s
  BY <1>1 DEF Init
<1>3. /\ marker \in DOMAIN Inputs /\ len = Len(kinds) /\ index = getNext(0)
      /\ errorTok = IF marker = 0 THEN index ELSE getPrevious(index)
      /\ live = <<Start(errorTok, IF marker = 0 THEN getKind(index) ELSE marker)>>
      /\ next = << >> /\ work = << >> /\ out = << >> /\ forest = NoForest
  BY <1>1 DEF Init
<1>4. s \in Seq(LRAutomaton.terminals) /\ s # << >> /\ s[Len(s)] = EOFT_SYMBOL
  BY <1>2, <1>3, TableAssumption
<1>5. PICK l \in Nat : l = Len(s) /\ l > 0
  BY ONLY <1>4
<1>6. len = l + 1 /\ \A i \in 1 .. l : kinds[i + 1] = s[i]
  <2>1. PICK U : U = LRAutomaton.terminals \cup {0}
    OBVIOUS
  <2>2. s \in Seq(U) /\ <<0>> \in Seq(U)
    <3>1. LRAutomaton.terminals \subseteq U /\ 0 \in U
      BY <2>1
    <3>2. s \in Seq(U)
      BY <1>4, <3>1, SeqMonotonic
    <3> QED
      BY <3>1, <3>2
  <2> QED
    BY <1>2, <1>3, <1>5, <2>2
<1>7. Stream
  <2>1. ASSUME NEW token \in 1 .. len - 1 PROVE getKind(token) \in LRAutomaton.terminals
    <3>1. token \in 1 .. l
      BY <1>6
    <3> QED
      BY <1>4, <1>5, <1>6, <3>1 DEF getKind
  <2>2. getKind(len - 1) = EOFT_SYMBOL
    <3>1. PICK e : e = len - 1
      OBVIOUS
    <3>2. e = l /\ l \in 1 .. l
      BY <1>5, <1>6, <3>1
    <3>3. kinds[e + 1] = s[l]
      BY ONLY <1>6, <3>2
    <3> QED
      BY ONLY <1>4, <1>5, <3>1, <3>3 DEF getKind
  <2>3. len \in Nat /\ 1 \in Nat /\ 1 < len
    BY <1>5, <1>6
  <2> QED
    BY ONLY <2>1, <2>2, <2>3 DEF Stream, Reads
<1>8. PICK T : T = Tokens
  OBVIOUS
<1>9. T[-1] = 0 /\ T[0] = 1 - parseStackRoot
  BY <1>8, TokensAreNumbered
<1>10. index = 1 /\ len \in Nat /\ len > 1
  BY <1>3, <1>5, <1>6 DEF getNext
<1>11. PICK kind : kind = IF marker = 0 THEN getKind(index) ELSE marker
  OBVIOUS
<1>12. PICK c : c = Start(errorTok, kind)
  OBVIOUS
<1>13. Ready(c, T)
  <2>1. errorTok = T[0]
    BY <1>3, <1>9, <1>10 DEF parseStackRoot, getPrevious
  <2>2. errorTok \in 0 .. len - 1
    BY <1>3, <1>10 DEF getPrevious
  <2>3. kind \in LRAutomaton.terminals
    <3>1. CASE marker = 0
      <4>1. kind = getKind(1) /\ 1 \in 1 .. len - 1
        BY <1>10, <1>11, <3>1
      <4> QED
        BY <1>7, <4>1 DEF Stream, Reads
    <3>2. CASE marker # 0
      BY <1>3, <1>11, <3>2, TableAssumption
    <3> QED
      BY <3>1, <3>2
  <2>4. kind # EOFT_SYMBOL => errorTok + 1 < len
    <3>1. CASE marker = 0
      <4>1. kind = getKind(1) /\ errorTok = 1
        BY <1>3, <1>10, <1>11, <3>1
      <4>2. len - 1 = 1 => kind = EOFT_SYMBOL
        BY <1>7, <4>1 DEF Stream
      <4> QED
        BY <1>10, <4>1, <4>2
    <3>2. CASE marker # 0
      BY <1>3, <1>10, <3>2 DEF getPrevious
    <3> QED
      BY <3>1, <3>2
  <2> QED
    BY ONLY <1>7, <1>9, <1>12, <2>1, <2>2, <2>3, <2>4, StartIsReady
<1>14. AllReady(live, T)
  <2>1. PICK none : none = << >>
    OBVIOUS
  <2>2. AllReady(none, T)
    BY <2>1, NobodyIsReady
  <2>3. live = Append(none, c)
    BY <1>3, <1>11, <1>12, <2>1
  <2> QED
    BY ONLY <1>13, <2>2, <2>3, OneMoreIsReady
<1>15. AllReady(next, T) /\ AllReady(work, T) /\ AllReady(out, T)
  BY <1>3, NobodyIsReady
<1>16. Healthy(forest, T)
  <2>1. PICK f : f = NoForest
    OBVIOUS
  <2>2. /\ IsForest(f) /\ f.nodes = << >> /\ f.familyCache = << >> /\ f.forestCache = << >>
    BY ONLY <2>1 DEF NoForest, IsForest
  <2>3. Caches(f)
    BY <2>2 DEF Caches
  <2>4. AllSaw(f.nodes, T)
    <3>1. f.nodes \in Seq({}) /\ \A x \in {} : Saw(x, T)
      BY <2>2
    <3> QED
      BY ONLY <3>1 DEF AllSaw
  <2> QED
    BY ONLY <1>3, <2>1, <2>2, <2>3, <2>4 DEF Healthy
<1> QED
  BY ONLY <1>7, <1>8, <1>14, <1>15, <1>16 DEF IInv

(* The input stays, so what is ready for a turn stays ready.               *)
LEMMA InputStays ==
  ASSUME Stream, UNCHANGED <<kinds, len, marker>>,
         NEW T, T = Tokens, Healthy(forest', T), AllReady(live', T), AllReady(next', T),
         AllReady(work', T), AllReady(out', T)
  PROVE  IInv'
<1>1. Stream'
  BY DEF Stream, Reads, getKind
<1>2. Tokens' = T
  BY DEF Tokens, parseStackRoot
<1>3. \A c : Ready(c, T)' <=> Ready(c, T)
  BY DEF Ready, Reading
<1>4. Healthy(forest, Tokens)'
  BY <1>2
<1>5. AllReady(live, Tokens)'
  BY <1>2, <1>3 DEF AllReady
<1>6. AllReady(next, Tokens)'
  BY <1>2, <1>3 DEF AllReady
<1>7. AllReady(work, Tokens)'
  BY <1>2, <1>3 DEF AllReady
<1>8. AllReady(out, Tokens)'
  BY <1>2, <1>3 DEF AllReady
<1> QED
  BY <1>1, <1>4, <1>5, <1>6, <1>7, <1>8 DEF IInv

LEMMA InvNow ==
  ASSUME IInv, NEW T, T = Tokens
  PROVE  /\ Stream /\ Numbers(T) /\ Healthy(forest, T)
         /\ AllReady(live, T) /\ AllReady(next, T) /\ AllReady(work, T) /\ AllReady(out, T)
BY TokensAreNumbered DEF IInv

LEMMA TurnKeepsReady == IInv /\ Turn => IInv'
<1>1. SUFFICES ASSUME IInv, Turn PROVE IInv'
  OBVIOUS
<1>2. PICK T : T = Tokens
  OBVIOUS
<1>3. /\ Stream /\ Numbers(T) /\ Healthy(forest, T)
      /\ AllReady(live, T) /\ AllReady(next, T) /\ AllReady(work, T) /\ AllReady(out, T)
  BY ONLY <1>1, <1>2, InvNow
<1>4. PICK last : last = Last(work)
  OBVIOUS
<1>5. PICK c : c = Pushed(last)
  OBVIOUS
<1>6. PICK edge : edge = GssEdge(last.gss, c.action, c.curtok)
  OBVIOUS
<1>7. PICK s : s = FoldLeft(applyConcreteAction,
                       [config |-> c, work |-> Front(work), out |-> out, accepts |-> stepAccepts,
                        forest |-> [forest EXCEPT !.gssNodes = @ \cup {edge}], thrown |-> FALSE],
                       candidates(tAction(last.action, c.kind, c.curtok)))
  OBVIOUS
<1>8. /\ work # << >> /\ work' = s.work /\ out' = s.out /\ forest' = s.forest
      /\ UNCHANGED <<input, live, next>>
  BY ONLY <1>1, <1>4, <1>5, <1>6, <1>7, Zenon DEF Turn
<1>9. TurnMade(s, T)
  BY ONLY <1>3, <1>4, <1>5, <1>7, <1>8, TurnsKeep
<1>10. /\ Healthy(forest', T) /\ AllReady(work', T) /\ AllReady(out', T)
       /\ AllReady(live', T) /\ AllReady(next', T)
  BY ONLY <1>3, <1>8, <1>9 DEF TurnMade
<1>11. UNCHANGED <<kinds, len, marker>>
  BY ONLY <1>8 DEF input
<1> QED
  BY ONLY <1>2, <1>3, <1>10, <1>11, InputStays

LEMMA EndStepKeepsReady == IInv /\ EndStep => IInv'
<1>1. SUFFICES ASSUME IInv, EndStep PROVE IInv'
  OBVIOUS
<1>2. PICK T : T = Tokens
  OBVIOUS
<1>3. /\ Stream /\ Numbers(T) /\ Healthy(forest, T)
      /\ AllReady(live, T) /\ AllReady(next, T) /\ AllReady(work, T) /\ AllReady(out, T)
  BY ONLY <1>1, <1>2, InvNow
<1>4. PICK joined : joined = FoldLeft(packAccept, [accepts |-> accepts, forest |-> forest], stepAccepts)
  OBVIOUS
<1>5. PICK packed : packed = FoldLeft(packConfig, [next |-> next, forest |-> joined.forest], out)
  OBVIOUS
<1>6. PICK x : x = packed.forest.nextAst
  OBVIOUS
<1>7. /\ next' = packed.next /\ forest' = [forest EXCEPT !.nextAst = x]
      /\ out' = << >> /\ UNCHANGED <<input, live, work>>
  BY ONLY <1>1, <1>4, <1>5, <1>6, Zenon DEF EndStep
<1>8. Healthy(forest', T)
  BY ONLY <1>3, <1>7, TablesOfNodes
<1>9. AllReady(next', T)
  BY ONLY <1>3, <1>5, <1>7, PacksKeep
<1>10. AllReady(out', T) /\ AllReady(live', T) /\ AllReady(work', T)
  BY ONLY <1>3, <1>7, NobodyIsReady
<1>11. UNCHANGED <<kinds, len, marker>>
  BY ONLY <1>7 DEF input
<1> QED
  BY ONLY <1>2, <1>3, <1>8, <1>9, <1>10, <1>11, InputStays

LEMMA NextKeepsReady == IInv /\ [Next]_vars => IInv'
<1>1. SUFFICES ASSUME IInv, [Next]_vars PROVE IInv'
  OBVIOUS
<1>2. PICK T : T = Tokens
  OBVIOUS
<1>3. /\ Stream /\ Numbers(T) /\ Healthy(forest, T)
      /\ AllReady(live, T) /\ AllReady(next, T) /\ AllReady(work, T) /\ AllReady(out, T)
  BY ONLY <1>1, <1>2, InvNow
<1>4. ASSUME UNCHANGED <<kinds, len, marker>>, UNCHANGED <<live, next, work, out, forest>>
      PROVE  IInv'
  <2>1. /\ Healthy(forest', T) /\ AllReady(live', T) /\ AllReady(next', T)
        /\ AllReady(work', T) /\ AllReady(out', T)
    BY ONLY <1>3, <1>4
  <2> QED
    BY ONLY <1>2, <1>3, <1>4, <2>1, InputStays
<1>5. CASE Round
  <2>1. next' = << >> /\ UNCHANGED <<kinds, len, marker, live, work, out, forest>>
    BY <1>5 DEF Round, input, step
  <2>2. /\ Healthy(forest', T) /\ AllReady(live', T) /\ AllReady(next', T)
        /\ AllReady(work', T) /\ AllReady(out', T)
    BY ONLY <1>3, <2>1, NobodyIsReady
  <2> QED
    BY ONLY <1>2, <1>3, <2>1, <2>2, InputStays
<1>6. CASE BeginStep
  <2>1. /\ live # << >> /\ work' = <<Head(live)>> /\ live' = Tail(live) /\ out' = << >>
        /\ UNCHANGED <<kinds, len, marker, next, forest>>
    BY <1>6 DEF BeginStep, input
  <2>2. Ready(Head(live), T) /\ AllReady(Tail(live), T)
    BY ONLY <1>3, <2>1, HeadIsReady
  <2>3. PICK c : c = Head(live)
    OBVIOUS
  <2>4. PICK one : one = <<c>>
    OBVIOUS
  <2>5. AllReady(one, T)
    <3>1. PICK none : none = << >>
      OBVIOUS
    <3>2. AllReady(none, T) /\ one = Append(none, c)
      BY <2>4, <3>1, NobodyIsReady
    <3> QED
      BY ONLY <2>2, <2>3, <3>2, OneMoreIsReady
  <2>6. /\ Healthy(forest', T) /\ AllReady(live', T) /\ AllReady(next', T)
        /\ AllReady(work', T) /\ AllReady(out', T)
    BY ONLY <1>3, <2>1, <2>2, <2>3, <2>4, <2>5, NobodyIsReady
  <2> QED
    BY ONLY <1>2, <1>3, <2>1, <2>6, InputStays
<1>7. CASE Turn
  BY <1>1, <1>7, TurnKeepsReady
<1>8. CASE GuardThrows
  BY <1>4, <1>8 DEF GuardThrows, input, step
<1>9. CASE EndStep
  BY <1>1, <1>9, EndStepKeepsReady
<1>10. CASE EndRound
  <2>1. /\ live' = next /\ next' = << >> /\ UNCHANGED <<kinds, len, marker, work, out, forest>>
    BY <1>10 DEF EndRound, input, step
  <2>2. /\ Healthy(forest', T) /\ AllReady(live', T) /\ AllReady(next', T)
        /\ AllReady(work', T) /\ AllReady(out', T)
    BY ONLY <1>3, <2>1, NobodyIsReady
  <2> QED
    BY ONLY <1>2, <1>3, <2>1, <2>2, InputStays
<1>11. CASE BadParse
  BY <1>4, <1>11 DEF BadParse, input, step
<1>12. CASE Accept
  <2>1. /\ \E x : forest' = [forest EXCEPT !.nextAst = x]
        /\ UNCHANGED <<kinds, len, marker, live, next, work, out>>
    BY <1>12 DEF Accept, input, step
  <2>2. PICK x : forest' = [forest EXCEPT !.nextAst = x]
    BY <2>1
  <2>3. Healthy(forest', T)
    BY ONLY <1>3, <2>2, TablesOfNodes
  <2>4. /\ AllReady(live', T) /\ AllReady(next', T) /\ AllReady(work', T) /\ AllReady(out', T)
    BY ONLY <1>3, <2>1
  <2> QED
    BY ONLY <1>2, <1>3, <2>1, <2>3, <2>4, InputStays
<1>13. CASE Cancelled
  BY <1>4, <1>13 DEF Cancelled, input, step
<1>14. CASE UNCHANGED vars
  BY <1>4, <1>14 DEF vars
<1> QED
  BY <1>1, <1>5, <1>6, <1>7, <1>8, <1>9, <1>10, <1>11, <1>12, <1>13, <1>14
     DEF Next, ParseStep, Returned

(* Every configuration, in whatever list it waits, has stacks that agree.  *)
THEOREM Invariance == Spec => []IInv
  BY InitMakesReady, NextKeepsReady, PTL DEF Spec

(* However often a configuration has been copied, popped and labelled: the *)
(* chain of nodes that it shares with others spells its own stack.         *)
THEOREM GssAlwaysSpellsTheStack == Spec => []GssSpellsTheStack
  <1>1. IInv => GssSpellsTheStack
    <2>1. SUFFICES ASSUME IInv, NEW c \in Configurations
                   PROVE  c.gss = [i \in DOMAIN c.states |->
                            [state |-> c.states[i], index |-> c.locations[i],
                             symbol |-> c.symbols[i], ast |-> c.asts[i], sppf |-> c.sppfs[i]]]
      BY DEF GssSpellsTheStack
    <2>2. PICK T : T = Tokens
      OBVIOUS
    <2>3. ASSUME NEW q, AllReady(q, T), c \in ToSet(q) PROVE Ready(c, T)
      BY ONLY <2>3 DEF AllReady, ToSet
    <2>4. Ready(c, T)
      BY <2>1, <2>2, <2>3, InvNow DEF Configurations
    <2>5. PICK n : n = Len(c.states)
      OBVIOUS
    <2>6. DOMAIN c.states = 1 .. n
      BY ONLY <2>4, <2>5 DEF Ready, Stacked
    <2>7. c.gss = [i \in 1 .. n |-> c.gss[i]] /\ \A i \in 1 .. n : c.gss[i] = GssEntry(c, i)
      BY ONLY <2>4, <2>5 DEF Ready, Spelled, Row
    <2>8. c.gss = [i \in 1 .. n |-> GssEntry(c, i)]
      BY ONLY <2>7
    <2> QED
      BY ONLY <2>6, <2>8 DEF GssEntry
  <1> QED  BY <1>1, Invariance, PTL

(* A node that was shown the n-th token taken saw that token.              *)
LEMMA SeenNode ==
  ASSUME NEW x, Saw(x, Tokens)
  PROVE  SawItsTokens(x, LAMBDA n : Max({0, n + 1 - parseStackRoot}))
<1>1. /\ x.taken \in Nat /\ x.derived \in Symbols /\ DOMAIN x.parts = 1 .. Len(x.derived)
  BY DEF Saw
<1>2. PICK c \in Nat : c = Covered(x.derived)
  <2>1. Len(x.derived) \in 0 .. Len(x.derived) /\ Until(x.derived, Len(x.derived)) = Covered(x.derived)
    BY <1>1, UntilAll
  <2> QED
    BY <1>1, <2>1, UntilIsNat
<1>3. PICK start \in Int : start = x.taken - c
  BY <1>1, <1>2
<1>4. \A n \in Int : Tokens[n] = Max({0, n + 1 - parseStackRoot})
  BY DEF Tokens
<1>5. /\ x.first = Max({0, start + 1 - parseStackRoot})
      /\ x.last = Max({0, x.taken - 1 + 1 - parseStackRoot})
  <2>1. x.first = Tokens[start] /\ x.last = Tokens[x.taken - 1]
    BY <1>2, <1>3 DEF Saw
  <2>2. x.taken - 1 \in Int
    BY <1>1
  <2> QED
    BY ONLY <1>3, <1>4, <2>1, <2>2
<1>6. ASSUME NEW p \in 1 .. Len(x.derived)
      PROVE  /\ x.parts[p].first = Max({0, start + Before(x.derived, p) + 1 - parseStackRoot})
             /\ x.parts[p].last =
                  Max({0, start + Before(x.derived, p + 1) - 1 + 1 - parseStackRoot})
             /\ x.derived[p].node # 0 => x.parts[p].node = x.derived[p].node
  <2>1. PICK l \in Nat : l = Len(x.derived)
    BY <1>1 DEF Symbols
  <2>2. p - 1 \in 0 .. l /\ p \in 0 .. l /\ p + 1 - 1 = p
    BY <2>1
  <2>3. PICK u \in Nat : u = Until(x.derived, p - 1)
    <3>1. PICK q : q = p - 1
      OBVIOUS
    <3> QED
      BY <1>1, <2>1, <2>2, <3>1, UntilIsNat
  <2>4. PICK v \in Nat : v = Until(x.derived, p)
    BY <1>1, <2>1, <2>2, UntilIsNat
  <2>5. u = Before(x.derived, p) /\ v = Before(x.derived, p + 1)
    BY <2>2, <2>3, <2>4 DEF Before, Until
  <2>6. /\ x.parts[p].first = Tokens[start + u] /\ x.parts[p].last = Tokens[start + v - 1]
        /\ x.derived[p].node # 0 => x.parts[p].node = x.derived[p].node
    BY <1>2, <1>3, <2>3, <2>4 DEF Saw
  <2>7. start + u \in Int /\ start + v - 1 \in Int
    BY <1>3, <2>3, <2>4
  <2> QED
    BY ONLY <1>4, <2>5, <2>6, <2>7
<1> QED
  BY <1>1, <1>2, <1>3, <1>5, <1>6 DEF SawItsTokens

(* While copies of the stack come and go: every rule action sees the       *)
(* tokens that the symbols of its own copy cover, and their nodes.         *)
THEOREM RuleActionsAlwaysSeeTheirTokens == Spec => []RuleActionsSeeTheirTokens
  <1>1. IInv => RuleActionsSeeTheirTokens
    <2>1. SUFFICES ASSUME IInv, NEW k \in DOMAIN forest.nodes
                   PROVE  SawItsTokens(forest.nodes[k],
                                       LAMBDA n : Max({0, n + 1 - parseStackRoot}))
      BY DEF RuleActionsSeeTheirTokens
    <2>2. PICK S : forest.nodes \in Seq(S) /\ \A x \in S : Saw(x, Tokens)
      BY <2>1 DEF IInv, Healthy, AllSaw
    <2>3. forest.nodes[k] \in S
      BY <2>1, <2>2
    <2>4. Saw(forest.nodes[k], Tokens)
      BY <2>2, <2>3
    <2> QED
      BY <2>4, SeenNode
  <1> QED  BY <1>1, Invariance, PTL
=============================================================================
