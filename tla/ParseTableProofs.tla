-------------------------- MODULE ParseTableProofs --------------------------
(***************************************************************************)
(* What follows from the table, for every parser.                          *)
(*   - What a log of actions does: the stack it builds and the number of   *)
(*     tokens it takes, when an action is appended and when the log is cut *)
(*     back.  Nothing is assumed of what one action does to the stack.     *)
(*   - If the table is made of an automaton: a rule and the goto-          *)
(*     reductions that it sets off leave a stack of the automaton.         *)
(*   - What rule actions are shown: each of those actions sees the tokens  *)
(*     and the nodes of its symbols when the driver's places are right.    *)
(***************************************************************************)
EXTENDS TableAutomaton, RuleActions, FiniteSetTheorems, SequenceTheorems,
        WellFoundedInduction, TLAPS

(* A set of naturals that is not empty has a least element.                *)
LEMMA LeastElement ==
  ASSUME NEW S \in SUBSET Nat, S # {}
  PROVE  \E n \in S : \A m \in S : n <= m
<1> DEFINE R == OpToRel(<, Nat)
<1>1. IsWellFoundedOn(R, Nat)
  BY NatLessThanWellFounded
<1>2. \A x, y \in Nat : x < y => <<x, y>> \in R
  BY DEF OpToRel
<1> HIDE DEF R
<1>3. PICK x \in S : \A y \in S : <<y, x>> \notin R
  BY <1>1, WFMin
<1>4. ASSUME NEW y \in S PROVE x <= y
  <2>1. x \in Nat /\ y \in Nat /\ ~(y < x)
    BY <1>2, <1>3
  <2> QED
    BY <2>1
<1> QED
  BY <1>4

(* Induction, said of the set of the numbers that have a property.         *)
LEMMA NatSetInduction ==
  ASSUME NEW S, 0 \in S, \A n \in Nat : n \in S => n + 1 \in S
  PROVE  Nat \subseteq S
<1> DEFINE T == Nat \ S
<1>1. SUFFICES ASSUME T # {} PROVE FALSE
  OBVIOUS
<1>2. PICK n \in T : \A m \in T : n <= m
  BY <1>1, LeastElement
<1>3. n # 0 /\ n \in Nat
  BY <1>2
<1>4. n - 1 \in Nat /\ n - 1 \notin T
  BY <1>2, <1>3
<1> QED
  BY <1>2, <1>3, <1>4

-----------------------------------------------------------------------------
(* The actions of a log are numbers.                                       *)
LEMMA LoggedActions ==
  ASSUME NEW a, IsReduce(a) \/ IsShift(a) \/ IsShiftReduce(a)
  PROVE  a \in Int
BY LayoutAssumption DEF LayoutAssumption, IsReduce, IsShift, IsShiftReduce

(* The kinds of actions are distinct.                                      *)
LEMMA KindsAreDistinct ==
  ASSUME NEW a
  PROVE  /\ IsShift(a) => ~IsReduce(a) /\ ~IsShiftReduce(a)
         /\ IsShiftReduce(a) => ~IsReduce(a)
BY LayoutAssumption DEF LayoutAssumption, IsReduce, IsShift, IsShiftReduce

LEMMA ActionTaken ==
  ASSUME NEW s, NEW act
  PROVE  AfterAction(s, act) = IF IsReduce(act) THEN AfterReduce(s, act)
                               ELSE IF IsShiftReduce(act) THEN AfterShiftReduce(s, act)
                               ELSE AfterShift(s, act)
BY DEF AfterAction, AfterReduce, AfterShiftReduce

(* The stacks along a log: f[n] is the one after n actions.  The run of a  *)
(* log is what the recursive definition in StackAfter chooses.             *)
LogRun(f, s, log) ==
  f = [n \in 0 .. Len(log) |-> IF n = 0 THEN s ELSE AfterAction(f[n - 1], log[n])]

RunUpTo(f, s, log, k) ==
  /\ f = [n \in 0 .. k |-> f[n]]
  /\ \A n \in 0 .. k : f[n] = IF n = 0 THEN s ELSE AfterAction(f[n - 1], log[n])

LEMMA StackAfterIsChosen ==
  ASSUME NEW s, NEW log
  PROVE  StackAfter(s, log) = (CHOOSE f : LogRun(f, s, log))[Len(log)]
BY DEF StackAfter, LogRun

LEMMA RunsExist ==
  ASSUME NEW s, NEW log
  PROVE  \A k \in Nat : \E f : RunUpTo(f, s, log, k)
<1> DEFINE Q == {k \in Nat : \E f : RunUpTo(f, s, log, k)}
<1>1. 0 \in Q
  <2> DEFINE f == [n \in 0 .. 0 |-> s]
  <2>1. RunUpTo(f, s, log, 0)
    BY DEF RunUpTo
  <2> QED BY <2>1
<1>2. ASSUME NEW k \in Nat, k \in Q PROVE k + 1 \in Q
  <2>1. PICK f : RunUpTo(f, s, log, k)
    BY <1>2
  <2>2. PICK top : top = AfterAction(f[k], log[k + 1])
    OBVIOUS
  <2> DEFINE g == [n \in 0 .. k + 1 |-> IF n = k + 1 THEN top ELSE f[n]]
  <2>3. \A n \in 0 .. k + 1 : g[n] = IF n = k + 1 THEN top ELSE f[n]
    OBVIOUS
  <2>4. g = [n \in 0 .. k + 1 |-> g[n]]
    OBVIOUS
  <2> HIDE DEF g
  <2>5. ASSUME NEW n \in 0 .. k + 1
        PROVE  g[n] = IF n = 0 THEN s ELSE AfterAction(g[n - 1], log[n])
    <3>1. CASE n = k + 1
      <4>1. n # 0 /\ n - 1 = k /\ k \in 0 .. k + 1 /\ k # k + 1
        BY <3>1
      <4>2. g[n] = top /\ g[n - 1] = f[k]
        BY <2>3, <3>1, <4>1
      <4> QED BY <2>2, <3>1, <4>1, <4>2
    <3>2. CASE n # k + 1
      <4>1. n \in 0 .. k /\ (n # 0 => n - 1 \in 0 .. k + 1 /\ n - 1 # k + 1)
        BY <3>2
      <4>2. g[n] = f[n] /\ (n # 0 => g[n - 1] = f[n - 1])
        BY <2>3, <3>2, <4>1
      <4>3. f[n] = IF n = 0 THEN s ELSE AfterAction(f[n - 1], log[n])
        BY <2>1, <4>1 DEF RunUpTo
      <4> QED BY <4>2, <4>3
    <3> QED BY <3>1, <3>2
  <2>6. RunUpTo(g, s, log, k + 1)
    BY <2>4, <2>5 DEF RunUpTo
  <2> QED BY <2>6
<1> HIDE DEF Q
<1>3. Nat \subseteq Q
  BY <1>1, <1>2, NatSetInduction
<1> QED BY <1>3 DEF Q

(* The recursive function that StackAfter reads exists.                    *)
LEMMA StackAfterRuns ==
  ASSUME NEW s, NEW log, Len(log) \in Nat
  PROVE  \E f : RunUpTo(f, s, log, Len(log)) /\ StackAfter(s, log) = f[Len(log)]
<1>1. PICK f : RunUpTo(f, s, log, Len(log))
  BY RunsExist
<1>2. LogRun(f, s, log)
  BY <1>1 DEF RunUpTo, LogRun
<1>3. PICK g : g = CHOOSE h : LogRun(h, s, log)
  OBVIOUS
<1>4. LogRun(g, s, log)
  BY <1>2, <1>3
<1>5. RunUpTo(g, s, log, Len(log))
  BY <1>4 DEF RunUpTo, LogRun
<1>6. StackAfter(s, log) = g[Len(log)]
  BY <1>3, StackAfterIsChosen
<1> QED BY <1>5, <1>6

(* Logs that begin with the same actions build the same stacks so far.     *)
LEMMA RunsAgree ==
  ASSUME NEW s, NEW log, NEW other, NEW f, NEW g, NEW k \in Nat, NEW m \in Nat, NEW l \in Nat,
         m <= k, m <= l,
         RunUpTo(f, s, log, k), RunUpTo(g, s, other, l),
         \A n \in 1 .. m : log[n] = other[n]
  PROVE  f[m] = g[m]
<1> DEFINE Q == {n \in Nat : n <= m => f[n] = g[n]}
<1>1. 0 \in Q
  <2>1. 0 \in 0 .. k /\ 0 \in 0 .. l
    OBVIOUS
  <2>2. f[0] = s /\ g[0] = s
    BY <2>1 DEF RunUpTo
  <2> QED BY <2>2
<1>2. ASSUME NEW n \in Nat, n \in Q PROVE n + 1 \in Q
  <2>1. SUFFICES ASSUME n + 1 <= m PROVE f[n + 1] = g[n + 1]
    OBVIOUS
  <2>2. f[n] = g[n]
    BY <1>2, <2>1
  <2>3. /\ n + 1 \in 0 .. k /\ n + 1 \in 0 .. l /\ n + 1 \in 1 .. m
        /\ n + 1 # 0 /\ n + 1 - 1 = n
    BY <2>1
  <2>4. f[n + 1] = AfterAction(f[n], log[n + 1])
    <3>1. \A i \in 0 .. k : f[i] = IF i = 0 THEN s ELSE AfterAction(f[i - 1], log[i])
      BY DEF RunUpTo
    <3> QED BY <2>3, <3>1
  <2>5. g[n + 1] = AfterAction(g[n], other[n + 1])
    <3>1. \A i \in 0 .. l : g[i] = IF i = 0 THEN s ELSE AfterAction(g[i - 1], other[i])
      BY DEF RunUpTo
    <3> QED BY <2>3, <3>1
  <2> QED BY <2>2, <2>3, <2>4, <2>5
<1> HIDE DEF Q
<1>3. m \in Q
  BY <1>1, <1>2, NatSetInduction
<1> QED BY <1>3 DEF Q

(* A log without actions builds nothing.                                   *)
LEMMA StackAfterNothing ==
  ASSUME NEW s
  PROVE  StackAfter(s, << >>) = s
<1>1. Len(<< >>) = 0
  OBVIOUS
<1>2. PICK f : RunUpTo(f, s, << >>, 0) /\ StackAfter(s, << >>) = f[0]
  BY <1>1, StackAfterRuns
<1> QED BY <1>2 DEF RunUpTo

(* One action more builds on what the log has built.                       *)
LEMMA StackAfterOneMore ==
  ASSUME NEW s, NEW S, NEW log \in Seq(S), NEW a \in S
  PROVE  StackAfter(s, Append(log, a)) = AfterAction(StackAfter(s, log), a)
<1> DEFINE more == Append(log, a)
<1>1. /\ Len(log) \in Nat /\ Len(more) = Len(log) + 1
      /\ more[Len(log) + 1] = a
      /\ \A n \in 1 .. Len(log) : more[n] = log[n]
  OBVIOUS
<1> HIDE DEF more
<1>2. PICK f : RunUpTo(f, s, log, Len(log)) /\ StackAfter(s, log) = f[Len(log)]
  BY <1>1, StackAfterRuns
<1>3. PICK g : RunUpTo(g, s, more, Len(more)) /\ StackAfter(s, more) = g[Len(more)]
  BY <1>1, StackAfterRuns
<1>4. g[Len(log)] = f[Len(log)]
  <2>1. Len(log) <= Len(log) /\ Len(log) <= Len(more) /\ Len(more) \in Nat
    BY <1>1
  <2>2. \A n \in 1 .. Len(log) : log[n] = more[n]
    BY <1>1
  <2> QED BY <1>1, <1>2, <1>3, <2>1, <2>2, RunsAgree
<1>5. g[Len(log) + 1] = AfterAction(g[Len(log)], more[Len(log) + 1])
  <2>1. /\ Len(log) + 1 \in 0 .. Len(more)
        /\ Len(log) + 1 # 0 /\ Len(log) + 1 - 1 = Len(log)
    BY <1>1
  <2> QED BY <1>3, <2>1 DEF RunUpTo
<1>6. StackAfter(s, more) = AfterAction(StackAfter(s, log), a)
  BY <1>1, <1>2, <1>3, <1>4, <1>5
<1> QED BY <1>6 DEF more

(* What is appended to a log leaves its beginning alone.                   *)
LEMMA AppendKeepsPrefix ==
  ASSUME NEW s \in Seq(Int), NEW x \in Int, NEW n \in Nat, n <= Len(s)
  PROVE  /\ Append(s, x) \in Seq(Int)
         /\ n <= Len(Append(s, x))
         /\ SubSeq(Append(s, x), 1, n) = SubSeq(s, 1, n)
  OBVIOUS

(* The whole log is its own beginning.                                     *)
LEMMA WholePrefix ==
  ASSUME NEW s \in Seq(Int)
  PROVE  /\ Len(s) \in Nat
         /\ SubSeq(s, 1, Len(s)) = s
  OBVIOUS

(* The tokens a log takes, when an action is appended.                     *)
LEMMA TokensTakenByNothing == TokensTaken(<< >>) = 0
<1>1. {i \in DOMAIN << >> : ~IsReduce(<< >>[i])} = {}
  OBVIOUS
<1> QED BY <1>1, FS_EmptySet DEF TokensTaken

LEMMA TokensTakenByOneMore ==
  ASSUME NEW S, NEW log \in Seq(S), NEW a \in S
  PROVE  /\ TokensTaken(log) \in Nat
         /\ TokensTaken(Append(log, a)) =
              IF IsReduce(a) THEN TokensTaken(log) ELSE TokensTaken(log) + 1
<1> DEFINE more == Append(log, a)
           taking == {i \in DOMAIN log : ~IsReduce(log[i])}
           then == {i \in DOMAIN more : ~IsReduce(more[i])}
<1>1. /\ Len(log) \in Nat /\ DOMAIN log = 1 .. Len(log) /\ DOMAIN more = 1 .. Len(log) + 1
      /\ more[Len(log) + 1] = a
      /\ \A n \in 1 .. Len(log) : more[n] = log[n]
  OBVIOUS
<1> HIDE DEF more
<1>2. taking \subseteq 1 .. Len(log) /\ Len(log) + 1 \notin taking
  BY <1>1
<1>3. IsFiniteSet(taking)
  <2>1. IsFiniteSet(1 .. Len(log))
    BY <1>1, FS_Interval
  <2> HIDE DEF taking
  <2> QED BY <1>2, <2>1, FS_Subset
<1>4. then = IF IsReduce(a) THEN taking ELSE taking \cup {Len(log) + 1}
  BY <1>1
<1> HIDE DEF taking, then
<1>5. Cardinality(then) = IF IsReduce(a) THEN Cardinality(taking) ELSE Cardinality(taking) + 1
  BY <1>2, <1>3, <1>4, FS_AddElement
<1>6. Cardinality(taking) \in Nat
  BY <1>3, FS_CardinalityType
<1> QED BY <1>5, <1>6 DEF TokensTaken, taking, then, more

(* A part of a log takes no more tokens than the whole.                    *)
LEMMA TokensTakenByPart ==
  ASSUME NEW S, NEW log \in Seq(S), NEW n \in 0 .. Len(log)
  PROVE  /\ TokensTaken(SubSeq(log, 1, n)) \in Nat
         /\ TokensTaken(log) \in Nat
         /\ TokensTaken(SubSeq(log, 1, n)) <= TokensTaken(log)
<1> DEFINE part == SubSeq(log, 1, n)
           taking == {i \in DOMAIN log : ~IsReduce(log[i])}
           before == {i \in DOMAIN part : ~IsReduce(part[i])}
<1>1. /\ Len(log) \in Nat /\ DOMAIN log = 1 .. Len(log) /\ DOMAIN part = 1 .. n
      /\ \A i \in 1 .. n : part[i] = log[i]
  OBVIOUS
<1> HIDE DEF part
<1>2. taking \subseteq 1 .. Len(log) /\ before \subseteq taking
  BY <1>1
<1>3. IsFiniteSet(1 .. Len(log))
  BY <1>1, FS_Interval
<1> HIDE DEF taking, before
<1>4. IsFiniteSet(taking) /\ IsFiniteSet(before)
  BY <1>2, <1>3, FS_Subset
<1>5. Cardinality(before) <= Cardinality(taking)
  BY <1>2, <1>4, FS_Subset
<1>6. Cardinality(before) \in Nat /\ Cardinality(taking) \in Nat
  BY <1>4, FS_CardinalityType
<1> QED BY <1>5, <1>6 DEF TokensTaken, taking, before, part

-----------------------------------------------------------------------------
IsTail(D, C, next, last) == C \in SUBSET D /\ \A x \in C : next[x] \in D

Follows(f, D, C, next, last) ==
  /\ f = [x \in D |-> f[x]]
  /\ \A x \in D : f[x] = IF x \in C THEN f[next[x]] ELSE last[x]

LEMMA TailRecursion ==
  ASSUME NEW D, NEW C, NEW next, NEW last, IsTail(D, C, next, last)
  PROVE  \E f : Follows(f, D, C, next, last)
<1>0. C \in SUBSET D /\ \A x \in C : next[x] \in D
  BY DEF IsTail
<1> DEFINE Closed(S) == \A y \in S \cap C : next[y] \in S
           Orbit(x) == {y \in D : \A S \in SUBSET D : x \in S /\ Closed(S) => y \in S}
           Ends(x) == Orbit(x) \ C
           f == [x \in D |-> IF Ends(x) = {} THEN D ELSE last[CHOOSE y : y \in Ends(x)]]
<1>1. ASSUME NEW x \in C PROVE Ends(x) = Ends(next[x])
  <2>1. next[x] \in D /\ x \in D
    BY <1>0
  <2>2. ASSUME NEW y \in Ends(next[x]) PROVE y \in Ends(x)
    BY <2>1
  <2>3. ASSUME NEW y \in Ends(x), NEW S \in SUBSET D, next[x] \in S, Closed(S)
        PROVE  y \in S
    <3>1. S \cup {x} \in SUBSET D /\ Closed(S \cup {x})
      BY <2>1, <2>3
    <3> QED
      BY <2>3, <3>1
  <2> QED
    BY <2>2, <2>3
<1>2. ASSUME NEW x \in D \ C PROVE Ends(x) = {x}
  <2>1. {x} \in SUBSET D /\ Closed({x})
    OBVIOUS
  <2> QED
    BY <2>1
<1> HIDE DEF Ends
<1>3. \A x \in D : f[x] = IF Ends(x) = {} THEN D ELSE last[CHOOSE y : y \in Ends(x)]
  OBVIOUS
<1>4. f = [x \in D |-> f[x]]
  OBVIOUS
<1> HIDE DEF f
<1>5. ASSUME NEW x \in D PROVE f[x] = IF x \in C THEN f[next[x]] ELSE last[x]
  <2>1. CASE x \in C
    BY <1>0, <1>1, <1>3, <2>1
  <2>2. CASE x \notin C
    <3>1. Ends(x) = {x}
      BY <1>2, <2>2
    <3>2. (CHOOSE y : y \in {x}) = x
      OBVIOUS
    <3> QED
      BY <1>3, <2>2, <3>1, <3>2
  <2> QED
    BY <2>1, <2>2
<1> QED
  BY <1>4, <1>5 DEF Follows

ReachedFrom(f, s) ==
  f = [at \in Int \X (0 .. NUM_RULES) |->
         LET act == ntAction(s[at[1]], lhs(at[2]))
         IN  IF IsReduce(act) THEN f[<<at[1] - (rhs(act) - 1), act>>] ELSE <<at[1], act>>]

LEMMA ReachedIsChosen ==
  ASSUME NEW s, NEW top, NEW rule
  PROVE  Reached(s, top, rule) =
           (CHOOSE f : ReachedFrom(f, s))[<<top - (rhs(rule) - 1), rule>>]
BY DEF Reached, ReachedFrom


LEMMA ReachedRuns ==
  ASSUME NEW s, \A rule \in 0 .. NUM_RULES : rhs(rule) \in Nat
  PROVE  \E f : ReachedFrom(f, s)
<1>1. PICK D : D = Int \X (0 .. NUM_RULES)
  OBVIOUS
<1> DEFINE Act(x) == ntAction(s[x[1]], lhs(x[2]))
           Left(x) == x[1] - (rhs(Act(x)) - 1)
<1>2. PICK C : C = {x \in D : IsReduce(Act(x))}
  OBVIOUS
<1>3. PICK next : next = [x \in D |-> <<Left(x), Act(x)>>]
  OBVIOUS
<1>4. \A x \in D : next[x] = <<Left(x), Act(x)>>
  BY <1>3
<1>5. \A x \in C : next[x] \in D
  <2>1. SUFFICES ASSUME NEW x \in C PROVE next[x] \in D
    OBVIOUS
  <2>2. x \in D /\ IsReduce(Act(x))
    BY <1>2
  <2>3. Act(x) \in 0 .. NUM_RULES
    BY <2>2 DEF IsReduce
  <2>4. Left(x) \in Int
    <3>1. rhs(Act(x)) \in Nat
      BY <2>3
    <3>2. x[1] \in Int
      BY <1>1, <2>2
    <3> HIDE DEF Act
    <3> QED
      BY <3>1, <3>2
  <2> HIDE DEF Left, Act
  <2> QED
    BY <1>1, <1>4, <2>2, <2>3, <2>4
<1>6. C \in SUBSET D
  BY <1>2
<1>7. PICK last : last = [x \in D |-> <<x[1], Act(x)>>]
  OBVIOUS
<1>8. PICK f : Follows(f, D, C, next, last)
  <2>1. IsTail(D, C, next, last)
    BY <1>5, <1>6 DEF IsTail
  <2> QED
    BY ONLY <2>1, TailRecursion
<1>9. ReachedFrom(f, s)
  BY <1>1, <1>2, <1>4, <1>7, <1>8 DEF ReachedFrom, Follows
<1> QED
  BY <1>9

(* One turn of the reductions: to the goto, or on with the rule it names.  *)
Turned(s, left, nt) ==
  LET act == ntAction(s[left], nt)
  IN  IF IsReduce(act) THEN Reached(s, left, act) ELSE <<left, act>>

LEMMA ReachedTurns ==
  ASSUME NEW s, \A r \in 0 .. NUM_RULES : rhs(r) \in Nat,
         NEW top \in Int, NEW rule \in 0 .. NUM_RULES
  PROVE  Reached(s, top, rule) = Turned(s, top - (rhs(rule) - 1), lhs(rule))
<1>1. PICK f : f = CHOOSE g : ReachedFrom(g, s)
  OBVIOUS
<1>2. ReachedFrom(f, s)
  BY <1>1, ReachedRuns
<1>3. \A t, r : Reached(s, t, r) = f[<<t - (rhs(r) - 1), r>>]
  BY <1>1, ReachedIsChosen
<1>4. PICK left \in Int : left = top - (rhs(rule) - 1)
  OBVIOUS
<1>5. PICK act : act = ntAction(s[left], lhs(rule))
  OBVIOUS
<1>6. f[<<left, rule>>] =
        IF IsReduce(act) THEN f[<<left - (rhs(act) - 1), act>>] ELSE <<left, act>>
  BY <1>2, <1>4, <1>5 DEF ReachedFrom
<1> QED
  BY <1>3, <1>4, <1>5, <1>6 DEF Turned

-----------------------------------------------------------------------------
(* Below a state that is k symbols into a rule, k symbols farther down, is *)
(* a state that knows where to go with the nonterminal.                    *)
LEMMA ItemsBegin ==
  ASSUME NEW a, IsAutomaton(a), NEW s, IsViable(a, s),
         NEW p \in 1 .. Len(s), NEW k, NEW nt, <<s[p], k, nt>> \in a.items
  PROVE  k \in Nat /\ p - k \in 1 .. p /\ <<s[p - k], 0, nt>> \in a.items
<1> DEFINE Q == {n \in Nat : \A q \in 1 .. Len(s) :
                   <<s[q], n, nt>> \in a.items =>
                     q - n \in 1 .. q /\ <<s[q - n], 0, nt>> \in a.items}
<1>1. 0 \in Q
  OBVIOUS
<1>2. ASSUME NEW n \in Nat, n \in Q PROVE n + 1 \in Q
  <2>1. SUFFICES ASSUME NEW q \in 1 .. Len(s), <<s[q], n + 1, nt>> \in a.items
                 PROVE  q - (n + 1) \in 1 .. q /\ <<s[q - (n + 1)], 0, nt>> \in a.items
    OBVIOUS
  <2>2. /\ s[q] # START_STATE
        /\ \A e \in a.edges : e[2] = s[q] => <<e[1], n, nt>> \in a.items
    <3>1. PICK x : x = <<s[q], n + 1, nt>>
      OBVIOUS
    <3>2. x \in a.items /\ x[1] = s[q] /\ x[2] = n + 1 /\ x[3] = nt /\ x[2] > 0 /\ x[2] - 1 = n
      BY <2>1, <3>1
    <3> QED
      BY <3>2 DEF IsAutomaton, ItemsReachDown
  <2>3. q \in 2 .. Len(s) /\ <<s[q - 1], s[q]>> \in a.edges
    BY ONLY <2>2, IsViable(a, s), q \in 1 .. Len(s) DEF IsViable
  <2>4. q - 1 \in 1 .. Len(s) /\ <<s[q - 1], n, nt>> \in a.items
    BY <2>2, <2>3
  <2>5. (q - 1) - n \in 1 .. q - 1 /\ <<s[(q - 1) - n], 0, nt>> \in a.items
    BY <1>2, <2>4
  <2>6. (q - 1) - n = q - (n + 1)
    OBVIOUS
  <2> QED
    BY <2>5, <2>6
<1>3. k \in Nat
  <2>1. PICK x : x = <<s[p], k, nt>>
    OBVIOUS
  <2> QED
    BY <2>1 DEF IsAutomaton, AutomatonTypes
<1> HIDE DEF Q
<1>4. k \in Q
  BY <1>1, <1>2, <1>3, NatSetInduction
<1> QED
  BY <1>3, <1>4 DEF Q

(* r is where reductions have come to: a position, no higher than left,    *)
(* and a state that may be on top of it.                                   *)
Arrives(a, s, left, r) ==
  /\ r = <<r[1], r[2]>> /\ r[1] \in 1 .. left /\ <<s[r[1]], r[2]>> \in a.edges

(* Where the parser goes with a nonterminal takes it down the stack, or to *)
(* a nonterminal of a lower rank: what holds of a goto to a state, and of  *)
(* a goto to a rule when it holds where that goes, holds of every goto.    *)
TurnsClosed(a, s, P) ==
  \A l \in 1 .. Len(s) : \A nt :
    LET act == ntAction(s[l], nt)
        left == l - (rhs(act) - 1)
    IN  /\ <<s[l], 0, nt>> \in a.items
        /\ IF IsReduce(act)
           THEN /\ left \in 1 .. l /\ <<s[left], 0, lhs(act)>> \in a.items
                /\ <<left, lhs(act)>> \in P
           ELSE <<s[l], act>> \in a.edges
        => <<l, nt>> \in P

LEMMA TurnInduction ==
  ASSUME NEW a, IsAutomaton(a), NEW s, IsViable(a, s), NEW P, TurnsClosed(a, s, P)
  PROVE  \A left \in 1 .. Len(s) : \A nt :
           <<s[left], 0, nt>> \in a.items => <<left, nt>> \in P
<1> DEFINE Lost(left, nt) == <<s[left], 0, nt>> \in a.items /\ <<left, nt>> \notin P
<1>1. SUFFICES ASSUME NEW x \in 1 .. Len(s), NEW y, Lost(x, y) PROVE FALSE
  OBVIOUS
<1>2. PICK l \in 1 .. Len(s) : /\ \E nt : Lost(l, nt)
                               /\ \A q \in 1 .. Len(s) : (\E nt : Lost(q, nt)) => l <= q
  <2> DEFINE S == {q \in 1 .. Len(s) : \E nt : Lost(q, nt)}
  <2>1. S \in SUBSET Nat /\ x \in S
    <3>1. S \subseteq 1 .. Len(s)
      OBVIOUS
    <3>2. \E nt : Lost(x, nt)
      BY <1>1
    <3> HIDE DEF Lost
    <3> QED
      BY <3>1, <3>2
  <2> HIDE DEF S
  <2>2. PICK q \in S : \A m \in S : q <= m
    BY <2>1, LeastElement
  <2> QED
    BY <2>2 DEF S
<1>3. \A nt : <<s[l], 0, nt>> \in a.items => a.rank[nt] \in Nat
  <2>1. SUFFICES ASSUME NEW nt, <<s[l], 0, nt>> \in a.items PROVE a.rank[nt] \in Nat
    OBVIOUS
  <2>2. PICK it : it = <<s[l], 0, nt>>
    OBVIOUS
  <2>3. it \in a.items /\ it[2] = 0 /\ it[3] = nt
    BY <2>1, <2>2
  <2> QED
    BY <2>3 DEF IsAutomaton, GotosAreThere
<1>4. PICK A : Lost(l, A) /\ \A nt : Lost(l, nt) => a.rank[A] <= a.rank[nt]
  <2>1. PICK S : S = {n \in Nat : \E nt : Lost(l, nt) /\ a.rank[nt] = n}
    OBVIOUS
  <2>2. S \in SUBSET Nat /\ S # {}
    BY <1>2, <1>3, <2>1
  <2>3. PICK n \in S : \A m \in S : n <= m
    BY <2>2, LeastElement
  <2>4. PICK nt : Lost(l, nt) /\ a.rank[nt] = n
    BY <2>1, <2>3
  <2>5. ASSUME NEW other, Lost(l, other) PROVE a.rank[nt] <= a.rank[other]
    <3>1. a.rank[other] \in S
      BY <1>3, <2>1, <2>5
    <3> QED
      BY <2>3, <2>4, <3>1
  <2> QED
    BY <2>4, <2>5
<1>5. PICK act : act = ntAction(s[l], A)
  OBVIOUS
<1>6. IF IsReduce(act)
      THEN /\ rhs(act) > 0 /\ <<s[l], rhs(act) - 1, lhs(act)>> \in a.items
           /\ rhs(act) = 1 => a.rank[lhs(act)] < a.rank[A]
      ELSE <<s[l], act>> \in a.edges
  <2>2. PICK it : it = <<s[l], 0, A>>
    OBVIOUS
  <2>3. it \in a.items /\ it[1] = s[l] /\ it[2] = 0 /\ it[3] = A
    BY <1>4, <2>2
  <2> QED
    BY <1>5, <2>3 DEF IsAutomaton, GotosAreThere
<1>7. CASE ~IsReduce(act)
  BY <1>4, <1>5, <1>6, <1>7 DEF TurnsClosed
<1>8. CASE IsReduce(act)
  <2>1. act \in 0 .. NUM_RULES /\ rhs(act) \in Nat
    BY <1>8 DEF IsReduce, IsAutomaton, AutomatonTypes
  <2>2. PICK left : left = l - (rhs(act) - 1)
    OBVIOUS
  <2>3. left \in 1 .. l /\ <<s[left], 0, lhs(act)>> \in a.items
    BY <1>6, <1>8, <2>2, ItemsBegin
  <2>4. <<left, lhs(act)>> \in P
    <3>1. CASE left < l
      <4>1. left \in 1 .. Len(s) /\ ~(l <= left)
        BY <2>3, <3>1
      <4> QED
        BY <1>2, <2>3, <4>1
    <3>2. CASE ~(left < l)
      <4>1. left = l /\ rhs(act) = 1
        BY <1>6, <1>8, <2>1, <2>2, <2>3, <3>2
      <4>2. a.rank[lhs(act)] < a.rank[A] /\ a.rank[lhs(act)] \in Nat /\ a.rank[A] \in Nat
        BY <1>3, <1>4, <1>6, <1>8, <2>3, <4>1
      <4>3. ~Lost(l, lhs(act))
        BY <1>4, <4>2
      <4> QED
        BY <2>3, <4>1, <4>3
    <3> QED
      BY <3>1, <3>2
  <2> QED
    BY <1>4, <1>5, <1>8, <2>2, <2>3, <2>4 DEF TurnsClosed
<1> QED
  BY <1>7, <1>8

LEMMA TurnsArrive ==
  ASSUME NEW a, IsAutomaton(a), NEW s, IsViable(a, s)
  PROVE  \A left \in 1 .. Len(s) : \A nt :
           <<s[left], 0, nt>> \in a.items => Arrives(a, s, left, Turned(s, left, nt))
<1>1. PICK P : P = {x \in (1 .. Len(s)) \X {it[3] : it \in a.items} :
                      Arrives(a, s, x[1], Turned(s, x[1], x[2]))}
  OBVIOUS
<1>2. ASSUME NEW l \in 1 .. Len(s), NEW nt, <<s[l], 0, nt>> \in a.items
      PROVE  <<l, nt>> \in P <=> Arrives(a, s, l, Turned(s, l, nt))
  <2>1. nt \in {it[3] : it \in a.items}
    <3>1. PICK it : it = <<s[l], 0, nt>>
      OBVIOUS
    <3>2. it \in a.items /\ it[3] = nt
      BY <1>2, <3>1
    <3> QED
      BY <3>2
  <2>2. PICK x : x = <<l, nt>>
    OBVIOUS
  <2>3. x \in (1 .. Len(s)) \X {it[3] : it \in a.items} /\ x[1] = l /\ x[2] = nt
    BY <2>1, <2>2
  <2> QED
    BY <1>1, <2>2, <2>3
<1>3. ASSUME NEW l \in 1 .. Len(s), NEW nt, NEW act, act = ntAction(s[l], nt),
             <<s[l], 0, nt>> \in a.items, NEW left, left = l - (rhs(act) - 1),
             IF IsReduce(act)
             THEN /\ left \in 1 .. l /\ <<s[left], 0, lhs(act)>> \in a.items
                  /\ <<left, lhs(act)>> \in P
             ELSE <<s[l], act>> \in a.edges
      PROVE  <<l, nt>> \in P
  <2>1. CASE ~IsReduce(act)
    <3>1. Turned(s, l, nt) = <<l, act>>
      BY <1>3, <2>1 DEF Turned
    <3>2. Arrives(a, s, l, <<l, act>>)
      BY <1>3, <2>1 DEF Arrives
    <3> QED
      BY <1>2, <1>3, <3>1, <3>2
  <2>2. CASE IsReduce(act)
    <3>1. act \in 0 .. NUM_RULES /\ left \in 1 .. Len(s)
      BY <1>3, <2>2 DEF IsReduce, IsViable
    <3>2. Arrives(a, s, left, Turned(s, left, lhs(act)))
      BY <1>2, <1>3, <2>2, <3>1
    <3>3. Turned(s, l, nt) = Turned(s, left, lhs(act))
      <4>1. Turned(s, l, nt) = Reached(s, l, act)
        BY <1>3, <2>2 DEF Turned
      <4>2. \A r \in 0 .. NUM_RULES : rhs(r) \in Nat
        BY DEF IsAutomaton, AutomatonTypes
      <4>3. Reached(s, l, act) = Turned(s, l - (rhs(act) - 1), lhs(act))
        BY <3>1, <4>2, ReachedTurns
      <4> QED
        BY <1>3, <4>1, <4>3
    <3>4. Arrives(a, s, l, Turned(s, l, nt))
      BY <1>3, <2>2, <3>2, <3>3 DEF Arrives
    <3> QED
      BY <1>2, <1>3, <3>4
  <2> QED
    BY <2>1, <2>2
<1>4. TurnsClosed(a, s, P)
  BY <1>3 DEF TurnsClosed
<1>5. \A left \in 1 .. Len(s) : \A nt :
        <<s[left], 0, nt>> \in a.items => <<left, nt>> \in P
  BY ONLY <1>4, IsAutomaton(a), IsViable(a, s), TurnInduction
<1> QED
  BY <1>2, <1>5

LEMMA ReachedArrives ==
  ASSUME NEW a, IsAutomaton(a), NEW s, IsViable(a, s), NEW p \in 1 .. Len(s),
         NEW top \in Int, NEW rule \in 0 .. NUM_RULES, NEW left \in Int,
         left = top - (rhs(rule) - 1),
         <<s[p], p - left, lhs(rule)>> \in a.items
  PROVE  left \in 1 .. p /\ Arrives(a, s, left, Reached(s, top, rule))
<1>1. Reached(s, top, rule) = Turned(s, top - (rhs(rule) - 1), lhs(rule))
  <2>1. \A r \in 0 .. NUM_RULES : rhs(r) \in Nat
    BY DEF IsAutomaton, AutomatonTypes
  <2> QED
    BY <2>1, ReachedTurns
<1>2. /\ p - (p - left) \in 1 .. p
      /\ <<s[p - (p - left)], 0, lhs(rule)>> \in a.items
  BY ItemsBegin
<1>3. p - (p - left) = left
  OBVIOUS
<1>4. left \in 1 .. Len(s) /\ left \in 1 .. p /\ <<s[left], 0, lhs(rule)>> \in a.items
  <2>1. Len(s) \in Nat
    BY DEF IsViable
  <2>2. left \in 1 .. p /\ <<s[left], 0, lhs(rule)>> \in a.items
    BY ONLY <1>2, <1>3
  <2>3. left \in 1 .. Len(s)
    BY ONLY <2>1, <2>2, p \in 1 .. Len(s)
  <2> QED
    BY ONLY <2>2, <2>3
<1> QED
  BY <1>1, <1>4, TurnsArrive

(* What is left of a stack, and a state that may be on top of it.          *)
LEMMA CutIsViable ==
  ASSUME NEW a, IsAutomaton(a), NEW s, IsViable(a, s), NEW u \in 1 .. Len(s),
         NEW st, <<s[u], st>> \in a.edges
  PROVE  IsViable(a, Append(SubSeq(s, 1, u), st))
<1>1. st \in Int
  BY DEF IsAutomaton, AutomatonTypes
<1>2. PICK t : t = Append(SubSeq(s, 1, u), st)
  OBVIOUS
<1>3. /\ t \in Seq(Int) /\ Len(t) = u + 1 /\ t[u + 1] = st
      /\ \A q \in 1 .. u : t[q] = s[q]
  BY <1>1, <1>2 DEF IsViable
<1>4. ASSUME NEW q \in 2 .. Len(t) PROVE <<t[q - 1], t[q]>> \in a.edges
  <2>1. CASE q = u + 1
    BY <1>3, <2>1
  <2>2. CASE q # u + 1
    <3>1. q \in 2 .. Len(s) /\ q \in 1 .. u /\ q - 1 \in 1 .. u
      BY <1>3, <2>2 DEF IsViable
    <3> QED
      BY <1>3, <3>1 DEF IsViable
  <2> QED
    BY <2>1, <2>2
<1>5. t[1] = START_STATE /\ Len(t) > 0
  BY <1>3 DEF IsViable
<1> QED
  BY <1>2, <1>3, <1>4, <1>5 DEF IsViable

(* The bottom of a viable stack is viable.                                 *)
LEMMA BottomIsViable ==
  ASSUME NEW a, NEW s, IsViable(a, s), NEW u \in 1 .. Len(s)
  PROVE  IsViable(a, SubSeq(s, 1, u)) /\ Len(SubSeq(s, 1, u)) = u
         /\ \A q \in 1 .. u : SubSeq(s, 1, u)[q] = s[q]
<1>1. PICK t : t = SubSeq(s, 1, u)
  OBVIOUS
<1>2. t \in Seq(Int) /\ Len(t) = u /\ \A q \in 1 .. u : t[q] = s[q]
  BY <1>1 DEF IsViable
<1>3. ASSUME NEW q \in 2 .. Len(t) PROVE <<t[q - 1], t[q]>> \in a.edges
  <2>1. q \in 2 .. Len(s) /\ q \in 1 .. u /\ q - 1 \in 1 .. u
    <3>1. Len(s) \in Nat
      BY DEF IsViable
    <3>2. q \in 2 .. u
      BY ONLY <1>2, q \in 2 .. Len(t)
    <3> QED
      BY ONLY <3>1, <3>2, u \in 1 .. Len(s)
  <2> QED
    BY <1>2, <2>1 DEF IsViable
<1> QED
  BY <1>1, <1>2, <1>3 DEF IsViable

LEMMA StartIsViable ==
  ASSUME NEW a PROVE IsViable(a, <<START_STATE>>)
<1>1. START_STATE \in Int
  BY LayoutAssumption
<1> QED
  BY <1>1 DEF IsViable

(* The states of a stack are states of the automaton.                      *)
LEMMA TopIsAState ==
  ASSUME NEW a, NEW s, IsViable(a, s)
  PROVE  s[Len(s)] \in StatesOf(a) /\ Last(s) = s[Len(s)]
<1>0. PICK n \in Nat : n = Len(s) /\ n > 0
  BY DEF IsViable
<1>1. CASE n = 1
  BY <1>0, <1>1 DEF IsViable, StatesOf, Last
<1>2. CASE n # 1
  <2>0. n \in 2 .. n
    BY <1>0, <1>2
  <2>1. Len(s) \in 2 .. Len(s)
    BY <1>0, <2>0
  <2>2. PICK e : e = <<s[Len(s) - 1], s[Len(s)]>>
    OBVIOUS
  <2>3. e \in a.edges /\ e[2] = s[Len(s)]
    BY <2>1, <2>2 DEF IsViable
  <2> QED
    BY <2>3 DEF StatesOf, Last
<1> QED
  BY <1>1, <1>2

(* Where the reductions have come to is where the stack goes on.           *)
LEMMA ArrivalIsTaken ==
  ASSUME NEW a, IsAutomaton(a), NEW s, NEW top, NEW rule, NEW left \in Int,
         Arrives(a, s, left, Reached(s, top, rule))
  PROVE  Reductions(s, top, rule) =
           Append(SubSeq(s, 1, Reached(s, top, rule)[1]), Reached(s, top, rule)[2])
<1>1. PICK r : r = Reached(s, top, rule)
  OBVIOUS
<1>2. r \in Int \X Int
  <2>1. r = <<r[1], r[2]>> /\ r[1] \in Int
    BY <1>1 DEF Arrives
  <2>2. PICK e : e = <<s[r[1]], r[2]>>
    OBVIOUS
  <2>3. e \in Int \X Int
    BY <1>1, <2>2 DEF Arrives, IsAutomaton, AutomatonTypes
  <2> QED
    BY <2>1, <2>2, <2>3
<1> QED
  BY <1>1, <1>2 DEF Reductions

(* Whatever the table answers in the state on top of a viable stack, the   *)
(* stack that the action makes of it is viable.                            *)
Answers(a, s, act) == \E k \in Nat : <<s[Len(s)], k, act>> \in a.actions

(* The items that the table's answers are about.                           *)
LEMMA ReduceHasItem ==
  ASSUME NEW a, IsAutomaton(a), NEW s, NEW act, Answers(a, s, act), IsReduce(act)
  PROVE  /\ act \in 0 .. NUM_RULES /\ rhs(act) \in Nat
         /\ <<s[Len(s)], rhs(act), lhs(act)>> \in a.items
<1>1. act \in 0 .. NUM_RULES /\ rhs(act) \in Nat
  BY DEF IsReduce, IsAutomaton, AutomatonTypes
<1>2. PICK k \in Nat : <<s[Len(s)], k, act>> \in a.actions
  BY DEF Answers
<1>3. PICK x : x = <<s[Len(s)], k, act>>
  OBVIOUS
<1> QED
  BY <1>1, <1>2, <1>3 DEF IsAutomaton, ActionsAreThere

LEMMA ShiftReduceHasItem ==
  ASSUME NEW a, IsAutomaton(a), NEW s, NEW act, Answers(a, s, act), IsShiftReduce(act),
         NEW rule, rule = act - ERROR_ACTION
  PROVE  /\ rule \in 0 .. NUM_RULES /\ rhs(rule) \in Nat /\ rhs(rule) > 0
         /\ <<s[Len(s)], rhs(rule) - 1, lhs(rule)>> \in a.items
<1>1. PICK k \in Nat : <<s[Len(s)], k, act>> \in a.actions
  BY DEF Answers
<1>2. PICK x : x = <<s[Len(s)], k, act>>
  OBVIOUS
<1>3. /\ rule \in 0 .. NUM_RULES /\ rhs(rule) > 0
      /\ <<s[Len(s)], rhs(rule) - 1, lhs(rule)>> \in a.items
  BY <1>1, <1>2 DEF IsAutomaton, ActionsAreThere
<1> QED
  BY <1>3 DEF IsAutomaton, AutomatonTypes

LEMMA ReduceArrives ==
  ASSUME NEW a, IsAutomaton(a), NEW s, IsViable(a, s), NEW act, Answers(a, s, act), IsReduce(act)
  PROVE  LET r == Reached(s, Len(s) - 1, act)
         IN  /\ Arrives(a, s, Len(s), r)
             /\ AfterReduce(s, act) = Append(SubSeq(s, 1, r[1]), r[2])
             /\ IsViable(a, AfterReduce(s, act))
<1>1. /\ Len(s) \in Nat /\ Len(s) \in 1 .. Len(s) /\ act \in 0 .. NUM_RULES
      /\ rhs(act) \in Nat
  <2>1. Len(s) \in Nat /\ Len(s) \in 1 .. Len(s)
    BY DEF IsViable
  <2> QED
    BY <2>1, ReduceHasItem
<1>2. <<s[Len(s)], rhs(act), lhs(act)>> \in a.items
  BY ReduceHasItem
<1>3. PICK left \in Int : left = (Len(s) - 1) - (rhs(act) - 1) /\ Len(s) - left = rhs(act)
  BY <1>1
<1>4. PICK r : r = Reached(s, Len(s) - 1, act)
  OBVIOUS
<1>5. left \in 1 .. Len(s) /\ Arrives(a, s, left, r)
  <2>1. Len(s) - 1 \in Int
    BY <1>1
  <2>2. <<s[Len(s)], Len(s) - left, lhs(act)>> \in a.items
    BY ONLY <1>2, <1>3
  <2> QED
    BY ONLY <2>2, <1>1, <1>3, <1>4, <2>1, IsAutomaton(a), IsViable(a, s), ReachedArrives
<1>6. Arrives(a, s, Len(s), r)
  BY <1>1, <1>5 DEF Arrives
<1>7. AfterReduce(s, act) = Append(SubSeq(s, 1, r[1]), r[2])
  <2>1. Len(s) \in Int /\ Arrives(a, s, Len(s), Reached(s, Len(s) - 1, act))
    BY <1>1, <1>4, <1>6
  <2>2. Reductions(s, Len(s) - 1, act) = Append(SubSeq(s, 1, r[1]), r[2])
    BY ONLY <1>4, <2>1, IsAutomaton(a), ArrivalIsTaken
  <2> QED
    BY <2>2 DEF AfterReduce
<1>8. IsViable(a, AfterReduce(s, act))
  BY <1>6, <1>7, CutIsViable DEF Arrives
<1> QED
  BY <1>4, <1>6, <1>7, <1>8

LEMMA ShiftReduceArrives ==
  ASSUME NEW a, IsAutomaton(a), NEW s, IsViable(a, s), NEW act, Answers(a, s, act),
         IsShiftReduce(act)
  PROVE  IsViable(a, AfterShiftReduce(s, act))
<1>1. PICK rule : rule = act - ERROR_ACTION
  OBVIOUS
<1>2. /\ rule \in 0 .. NUM_RULES /\ rhs(rule) \in Nat /\ rhs(rule) > 0
      /\ <<s[Len(s)], rhs(rule) - 1, lhs(rule)>> \in a.items
  BY <1>1, ShiftReduceHasItem
<1>3. Len(s) \in Nat /\ Len(s) \in 1 .. Len(s)
  BY DEF IsViable
<1>4. PICK left \in Int : left = Len(s) - (rhs(rule) - 1) /\ Len(s) - left = rhs(rule) - 1
  BY <1>2, <1>3
<1>5. PICK r : r = Reached(s, Len(s), rule)
  OBVIOUS
<1>6. left \in 1 .. Len(s) /\ Arrives(a, s, left, r)
  <2>1. Len(s) \in Int
    BY <1>3
  <2>2. <<s[Len(s)], Len(s) - left, lhs(rule)>> \in a.items
    BY ONLY <1>2, <1>4
  <2> QED
    BY ONLY <2>2, <1>2, <1>3, <1>4, <1>5, <2>1, IsAutomaton(a), IsViable(a, s), ReachedArrives
<1>7. r[1] \in 1 .. Len(s) /\ <<s[r[1]], r[2]>> \in a.edges
  BY <1>3, <1>6 DEF Arrives
<1>8. AfterShiftReduce(s, act) = Append(SubSeq(s, 1, r[1]), r[2])
  BY <1>1, <1>5, <1>6, ArrivalIsTaken DEF AfterShiftReduce
<1> QED
  BY <1>7, <1>8, CutIsViable

LEMMA ShiftArrives ==
  ASSUME NEW a, IsAutomaton(a), NEW s, IsViable(a, s), NEW act, Answers(a, s, act), IsShift(act)
  PROVE  IsViable(a, AfterShift(s, act))
<1>1. <<s[Len(s)], act>> \in a.edges
  <2>1. PICK k \in Nat : <<s[Len(s)], k, act>> \in a.actions
    BY DEF Answers
  <2>2. PICK x : x = <<s[Len(s)], k, act>>
    OBVIOUS
  <2> QED
    BY <2>1, <2>2 DEF IsAutomaton, ActionsAreThere
<1>2. Len(s) \in 1 .. Len(s) /\ SubSeq(s, 1, Len(s)) = s
  BY DEF IsViable
<1>3. IsViable(a, Append(SubSeq(s, 1, Len(s)), act))
  BY <1>1, <1>2, CutIsViable
<1> QED
  BY <1>2, <1>3 DEF AfterShift

LEMMA AnswersAreViable ==
  ASSUME NEW a, IsAutomaton(a), NEW s, IsViable(a, s), NEW act, Answers(a, s, act),
         IsReduce(act) \/ IsShift(act) \/ IsShiftReduce(act)
  PROVE  IsViable(a, AfterAction(s, act))
  BY ActionTaken, ReduceArrives, ShiftArrives, ShiftReduceArrives

-----------------------------------------------------------------------------
Symbols == Seq([node : Nat, count : Nat])

(* The sums in Covered: f[n] is what the first n symbols cover.            *)
Sums(f, symbols) ==
  f = [n \in 0 .. Len(symbols) |-> IF n = 0 THEN 0 ELSE f[n - 1] + symbols[n].count]

SumsUpTo(f, symbols, k) ==
  /\ f = [n \in 0 .. k |-> f[n]]
  /\ \A n \in 0 .. k : f[n] = IF n = 0 THEN 0 ELSE f[n - 1] + symbols[n].count

LEMMA CoveredIsChosen ==
  ASSUME NEW symbols
  PROVE  Covered(symbols) = (CHOOSE f : Sums(f, symbols))[Len(symbols)]
BY DEF Covered, Sums

LEMMA SumsExist ==
  ASSUME NEW symbols
  PROVE  \A k \in Nat : \E f : SumsUpTo(f, symbols, k)
<1> DEFINE Q == {k \in Nat : \E f : SumsUpTo(f, symbols, k)}
<1>1. 0 \in Q
  <2>1. PICK f : f = [n \in 0 .. 0 |-> 0]
    OBVIOUS
  <2>2. SumsUpTo(f, symbols, 0)
    BY <2>1 DEF SumsUpTo
  <2> QED
    BY <2>2
<1>2. ASSUME NEW k \in Nat, k \in Q PROVE k + 1 \in Q
  <2>1. PICK f : SumsUpTo(f, symbols, k)
    BY <1>2
  <2>2. PICK sum : sum = f[k] + symbols[k + 1].count
    OBVIOUS
  <2>3. PICK g : g = [n \in 0 .. k + 1 |-> IF n = k + 1 THEN sum ELSE f[n]]
    OBVIOUS
  <2>4. /\ g = [n \in 0 .. k + 1 |-> g[n]]
        /\ \A n \in 0 .. k + 1 : g[n] = IF n = k + 1 THEN sum ELSE f[n]
    BY <2>3
  <2>5. ASSUME NEW n \in 0 .. k + 1
        PROVE  g[n] = IF n = 0 THEN 0 ELSE g[n - 1] + symbols[n].count
    <3>1. CASE n = k + 1
      <4>1. n # 0 /\ n - 1 = k /\ k \in 0 .. k + 1 /\ k # k + 1
        BY <3>1
      <4>2. g[n] = sum /\ g[n - 1] = f[k]
        BY <2>4, <3>1, <4>1
      <4> QED
        BY <2>2, <3>1, <4>1, <4>2
    <3>2. CASE n # k + 1
      <4>1. n \in 0 .. k /\ (n # 0 => n - 1 \in 0 .. k + 1 /\ n - 1 # k + 1)
        BY <3>2
      <4>2. g[n] = f[n] /\ (n # 0 => g[n - 1] = f[n - 1])
        BY <2>4, <3>2, <4>1
      <4>3. f[n] = IF n = 0 THEN 0 ELSE f[n - 1] + symbols[n].count
        BY <2>1, <4>1 DEF SumsUpTo
      <4> QED
        BY <4>2, <4>3
    <3> QED
      BY <3>1, <3>2
  <2>6. SumsUpTo(g, symbols, k + 1)
    BY <2>4, <2>5 DEF SumsUpTo
  <2> QED
    BY <2>6
<1> HIDE DEF Q
<1>3. Nat \subseteq Q
  BY <1>1, <1>2, NatSetInduction
<1> QED
  BY <1>3 DEF Q

LEMMA CoveredRuns ==
  ASSUME NEW symbols, Len(symbols) \in Nat
  PROVE  \E f : SumsUpTo(f, symbols, Len(symbols)) /\ Covered(symbols) = f[Len(symbols)]
<1>1. PICK f : SumsUpTo(f, symbols, Len(symbols))
  BY SumsExist
<1>2. Sums(f, symbols)
  BY <1>1 DEF SumsUpTo, Sums
<1>3. PICK g : g = CHOOSE h : Sums(h, symbols)
  OBVIOUS
<1>4. Sums(g, symbols)
  BY <1>2, <1>3
<1>5. SumsUpTo(g, symbols, Len(symbols))
  BY <1>4 DEF SumsUpTo, Sums
<1>6. Covered(symbols) = g[Len(symbols)]
  BY <1>3, CoveredIsChosen
<1> QED
  BY <1>5, <1>6

(* Symbols that begin alike cover the same so far.                         *)
LEMMA SumsAgree ==
  ASSUME NEW symbols, NEW other, NEW f, NEW g, NEW k \in Nat, NEW l \in Nat, NEW m \in Nat,
         m <= k, m <= l, SumsUpTo(f, symbols, k), SumsUpTo(g, other, l),
         \A n \in 1 .. m : symbols[n] = other[n]
  PROVE  f[m] = g[m]
<1> DEFINE Q == {n \in Nat : n <= m => f[n] = g[n]}
<1>1. 0 \in Q
  <2>1. 0 \in 0 .. k /\ 0 \in 0 .. l
    OBVIOUS
  <2>2. f[0] = 0 /\ g[0] = 0
    BY <2>1 DEF SumsUpTo
  <2> QED
    BY <2>2
<1>2. ASSUME NEW n \in Nat, n \in Q PROVE n + 1 \in Q
  <2>1. SUFFICES ASSUME n + 1 <= m PROVE f[n + 1] = g[n + 1]
    OBVIOUS
  <2>2. f[n] = g[n]
    BY <1>2, <2>1
  <2>3. /\ n + 1 \in 0 .. k /\ n + 1 \in 0 .. l /\ n + 1 \in 1 .. m
        /\ n + 1 # 0 /\ n + 1 - 1 = n
    BY <2>1
  <2>4. f[n + 1] = f[n] + symbols[n + 1].count
    <3>1. \A i \in 0 .. k : f[i] = IF i = 0 THEN 0 ELSE f[i - 1] + symbols[i].count
      BY DEF SumsUpTo
    <3> QED
      BY <2>3, <3>1
  <2>5. g[n + 1] = g[n] + other[n + 1].count
    <3>1. \A i \in 0 .. l : g[i] = IF i = 0 THEN 0 ELSE g[i - 1] + other[i].count
      BY DEF SumsUpTo
    <3> QED
      BY <2>3, <3>1
  <2> QED
    BY <2>2, <2>3, <2>4, <2>5
<1> HIDE DEF Q
<1>3. m \in Q
  BY <1>1, <1>2, NatSetInduction
<1> QED
  BY <1>3 DEF Q

LEMMA CoveredNothing == Covered(<< >>) = 0
<1>1. Len(<< >>) = 0
  OBVIOUS
<1>2. PICK f : SumsUpTo(f, << >>, 0) /\ Covered(<< >>) = f[0]
  BY <1>1, CoveredRuns
<1> QED
  BY <1>2 DEF SumsUpTo

LEMMA CoveredOneMore ==
  ASSUME NEW d \in Symbols, NEW x \in [node : Nat, count : Nat]
  PROVE  Covered(Append(d, x)) = Covered(d) + x.count
<1>1. PICK more : more = Append(d, x)
  OBVIOUS
<1>2. /\ Len(d) \in Nat /\ Len(more) = Len(d) + 1 /\ Len(more) \in Nat
      /\ more[Len(d) + 1] = x
      /\ \A n \in 1 .. Len(d) : d[n] = more[n]
  BY <1>1 DEF Symbols
<1>3. PICK f : SumsUpTo(f, d, Len(d)) /\ Covered(d) = f[Len(d)]
  BY <1>2, CoveredRuns
<1>4. PICK g : SumsUpTo(g, more, Len(more)) /\ Covered(more) = g[Len(more)]
  BY <1>2, CoveredRuns
<1>5. f[Len(d)] = g[Len(d)]
  <2>1. PICK k : k = Len(d)
    OBVIOUS
  <2>2. PICK l : l = Len(more)
    OBVIOUS
  <2>3. k \in Nat /\ l \in Nat /\ k <= k /\ k <= l
    BY <1>2, <2>1, <2>2
  <2>4. \A n \in 1 .. k : d[n] = more[n]
    BY <1>2, <2>1
  <2>5. SumsUpTo(f, d, k) /\ SumsUpTo(g, more, l)
    BY <1>3, <1>4, <2>1, <2>2
  <2>6. f[k] = g[k]
    BY ONLY <2>3, <2>4, <2>5, SumsAgree
  <2> QED
    BY <2>1, <2>6
<1>6. g[Len(d) + 1] = g[Len(d)] + more[Len(d) + 1].count
  <2>1. PICK k : k = Len(d) + 1
    OBVIOUS
  <2>2. k \in 0 .. Len(more) /\ k # 0 /\ k - 1 = Len(d)
    BY <1>2, <2>1
  <2>3. \A n \in 0 .. Len(more) : g[n] = IF n = 0 THEN 0 ELSE g[n - 1] + more[n].count
    BY <1>4 DEF SumsUpTo
  <2>4. g[k] = g[k - 1] + more[k].count
    BY ONLY <2>2, <2>3
  <2> QED
    BY <2>1, <2>2, <2>4
<1> QED
  BY <1>1, <1>2, <1>3, <1>4, <1>5, <1>6

(* What the first n symbols cover.                                         *)
Until(d, n) == Covered(SubSeq(d, 1, n))

LEMMA SubSeqOneMore ==
  ASSUME NEW S, NEW s \in Seq(S), NEW m \in Nat, NEW k \in Nat, m <= k, k < Len(s)
  PROVE  /\ SubSeq(s, m + 1, k) \in Seq(S)
         /\ s[k + 1] \in S
         /\ SubSeq(s, m + 1, k + 1) = Append(SubSeq(s, m + 1, k), s[k + 1])
<1>1. PICK part : part = SubSeq(s, m + 1, k)
  OBVIOUS
<1>2. PICK longer : longer = SubSeq(s, m + 1, k + 1)
  OBVIOUS
<1>3. Len(s) \in Nat /\ k + 1 \in 1 .. Len(s)
  OBVIOUS
<1>4. /\ part \in Seq(S) /\ Len(part) = k - m
      /\ \A i \in 1 .. k - m : part[i] = s[m + i]
  BY <1>1, <1>3
<1>5. /\ longer \in Seq(S) /\ Len(longer) = (k + 1) - m
      /\ \A i \in 1 .. (k + 1) - m : longer[i] = s[m + i]
  BY <1>2, <1>3
<1>6. PICK more : more = Append(part, s[k + 1])
  OBVIOUS
<1>7. /\ s[k + 1] \in S /\ more \in Seq(S) /\ Len(more) = (k - m) + 1
      /\ \A i \in 1 .. k - m : more[i] = part[i]
      /\ more[(k - m) + 1] = s[k + 1]
  BY <1>3, <1>4, <1>6
<1>8. ASSUME NEW i \in 1 .. Len(more) PROVE more[i] = longer[i]
  <2>1. CASE i = (k - m) + 1
    <3>1. m + i = k + 1 /\ i \in 1 .. (k + 1) - m
      BY <1>7, <2>1
    <3> QED
      BY <1>5, <1>7, <2>1, <3>1
  <2>2. CASE i # (k - m) + 1
    <3>1. i \in 1 .. k - m /\ i \in 1 .. (k + 1) - m
      BY <1>7, <2>2
    <3> QED
      BY <1>4, <1>5, <1>7, <3>1
  <2> QED
    BY <2>1, <2>2
<1>9. more = longer
  <2>1. Len(more) = Len(longer)
    BY <1>5, <1>7
  <2> QED
    BY <1>5, <1>7, <1>8, <2>1, SeqEqual
<1> QED
  BY <1>1, <1>2, <1>4, <1>6, <1>7, <1>9

LEMMA PartOneMore ==
  ASSUME NEW d \in Symbols, NEW m \in Nat, NEW k \in Nat, m <= k, k < Len(d)
  PROVE  /\ SubSeq(d, m + 1, k) \in Symbols
         /\ d[k + 1] \in [node : Nat, count : Nat]
         /\ SubSeq(d, m + 1, k + 1) = Append(SubSeq(d, m + 1, k), d[k + 1])
<1>1. PICK S : S = [node : Nat, count : Nat]
  OBVIOUS
<1>2. d \in Seq(S)
  BY <1>1 DEF Symbols
<1>3. /\ SubSeq(d, m + 1, k) \in Seq(S)
      /\ d[k + 1] \in S
      /\ SubSeq(d, m + 1, k + 1) = Append(SubSeq(d, m + 1, k), d[k + 1])
  BY ONLY <1>2, SubSeqOneMore, m \in Nat, k \in Nat, m <= k, k < Len(d)
<1> QED
  BY <1>1, <1>3 DEF Symbols

LEMMA NoPart ==
  ASSUME NEW d \in Symbols, NEW m \in Nat
  PROVE  SubSeq(d, m + 1, m) \in Symbols /\ Covered(SubSeq(d, m + 1, m)) = 0
<1>1. PICK part : part = SubSeq(d, m + 1, m)
  OBVIOUS
<1>2. part = << >>
  BY <1>1 DEF Symbols
<1>3. part \in Symbols
  BY <1>2 DEF Symbols
<1>4. Covered(part) = 0
  <2>1. PICK empty : empty = << >>
    OBVIOUS
  <2>2. Covered(empty) = 0
    BY ONLY <2>1, CoveredNothing, Zenon
  <2> QED
    BY <1>2, <2>1, <2>2
<1> QED
  BY <1>1, <1>3, <1>4

(* Parts of a sequence of symbols cover what the longer beginning covers   *)
(* without what the shorter one does.                                      *)
LEMMA CoveredPart ==
  ASSUME NEW d \in Symbols, NEW m \in 0 .. Len(d)
  PROVE  \A k \in m .. Len(d) :
           /\ SubSeq(d, m + 1, k) \in Symbols
           /\ Covered(SubSeq(d, m + 1, k)) \in Nat
           /\ Until(d, k) = Until(d, m) + Covered(SubSeq(d, m + 1, k))
           /\ Until(d, k) \in Nat
<1>0. Len(d) \in Nat /\ m \in Nat
  BY DEF Symbols
<1>1. ASSUME NEW from \in 0 .. Len(d)
      PROVE  \A k \in Nat : k >= from /\ k <= Len(d) =>
               SubSeq(d, from + 1, k) \in Symbols /\ Covered(SubSeq(d, from + 1, k)) \in Nat
  <2>1. PICK Q : Q = {n \in Nat : \A k \in Nat : k = from + n /\ k <= Len(d) =>
                        /\ SubSeq(d, from + 1, k) \in Symbols
                        /\ Covered(SubSeq(d, from + 1, k)) \in Nat}
    OBVIOUS
  <2>2. 0 \in Q
    <3>1. from \in Nat
      BY <1>0
    <3>2. SubSeq(d, from + 1, from) \in Symbols /\ Covered(SubSeq(d, from + 1, from)) = 0
      BY <3>1, NoPart
    <3>3. ASSUME NEW k \in Nat, k = from + 0 PROVE k = from
      BY <1>0, <3>3
    <3> QED
      BY <2>1, <3>2, <3>3
  <2>3. ASSUME NEW n \in Nat, n \in Q PROVE n + 1 \in Q
    <3>1. SUFFICES ASSUME NEW l \in Nat, l = from + (n + 1), l <= Len(d)
                   PROVE  /\ SubSeq(d, from + 1, l) \in Symbols
                          /\ Covered(SubSeq(d, from + 1, l)) \in Nat
      BY <2>1
    <3>2. PICK k \in Nat : k = from + n /\ from <= k /\ k < Len(d) /\ l = k + 1
      BY <1>0, <3>1
    <3>3. SubSeq(d, from + 1, k) \in Symbols /\ Covered(SubSeq(d, from + 1, k)) \in Nat
      BY <1>0, <2>1, <2>3, <3>2
    <3>4. PICK x : x = d[k + 1]
      OBVIOUS
    <3>5. PICK part : part = SubSeq(d, from + 1, k)
      OBVIOUS
    <3>6. /\ x \in [node : Nat, count : Nat] /\ part \in Symbols /\ Covered(part) \in Nat
          /\ SubSeq(d, from + 1, k + 1) = Append(part, x)
      BY <1>0, <3>2, <3>3, <3>4, <3>5, PartOneMore
    <3>7. Covered(Append(part, x)) = Covered(part) + x.count
      BY <3>6, CoveredOneMore
    <3>8. x.count \in Nat /\ Append(part, x) \in Symbols
      BY <3>6 DEF Symbols
    <3>9. SubSeq(d, from + 1, l) = Append(part, x)
      BY <3>2, <3>6
    <3>10. Covered(Append(part, x)) \in Nat
      BY <3>6, <3>7, <3>8
    <3> QED
      BY ONLY <3>8, <3>9, <3>10
  <2>4. Nat \subseteq Q
    BY <2>2, <2>3, NatSetInduction
  <2>5. ASSUME NEW k \in Nat, k >= from, k <= Len(d)
        PROVE  SubSeq(d, from + 1, k) \in Symbols /\ Covered(SubSeq(d, from + 1, k)) \in Nat
    <3>1. k - from \in Nat /\ from + (k - from) = k
      BY <2>5
    <3> QED
      BY <2>1, <2>4, <2>5, <3>1
  <2> QED
    BY <2>5
<1>2. \A k \in 0 .. Len(d) : Until(d, k) \in Nat /\ SubSeq(d, 1, k) \in Symbols
  <2>1. 0 \in 0 .. Len(d) /\ 0 + 1 = 1
    BY <1>0
  <2> QED
    BY <1>0, <1>1, <2>1 DEF Until
<1>3. PICK Q : Q = {n \in Nat : \A k \in Nat : k = m + n /\ k <= Len(d) =>
                      Until(d, k) = Until(d, m) + Covered(SubSeq(d, m + 1, k))}
  OBVIOUS
<1>4. 0 \in Q
  <2>1. Covered(SubSeq(d, m + 1, m)) = 0
    BY <1>0, NoPart
  <2>2. Until(d, m) \in Nat
    BY <1>2
  <2>3. ASSUME NEW k \in Nat, k = m + 0 PROVE k = m
    BY <1>0, <2>3
  <2>4. Until(d, m) = Until(d, m) + Covered(SubSeq(d, m + 1, m))
    BY <2>1, <2>2
  <2> QED
    BY <1>3, <2>3, <2>4
<1>5. ASSUME NEW n \in Nat, n \in Q PROVE n + 1 \in Q
  <2>1. SUFFICES ASSUME NEW l \in Nat, l = m + (n + 1), l <= Len(d)
                 PROVE  Until(d, l) = Until(d, m) + Covered(SubSeq(d, m + 1, l))
    BY <1>3
  <2>2. PICK k \in Nat : k = m + n /\ m <= k /\ k < Len(d) /\ l = k + 1
    BY <1>0, <2>1
  <2>3. Until(d, k) = Until(d, m) + Covered(SubSeq(d, m + 1, k))
    BY <1>0, <1>3, <1>5, <2>2
  <2>4. PICK x : x = d[k + 1]
    OBVIOUS
  <2>5. PICK part : part = SubSeq(d, m + 1, k)
    OBVIOUS
  <2>6. PICK whole : whole = SubSeq(d, 1, k)
    OBVIOUS
  <2>7. /\ x \in [node : Nat, count : Nat] /\ part \in Symbols
        /\ SubSeq(d, m + 1, k + 1) = Append(part, x)
    BY <1>0, <2>2, <2>4, <2>5, PartOneMore
  <2>8. whole \in Symbols /\ SubSeq(d, 1, k + 1) = Append(whole, x)
    <3>1. PICK zero \in Nat : zero = 0 /\ zero + 1 = 1 /\ zero <= k
      BY <2>2
    <3>2. /\ SubSeq(d, zero + 1, k) \in Symbols
          /\ SubSeq(d, zero + 1, k + 1) = Append(SubSeq(d, zero + 1, k), d[k + 1])
      BY <2>2, <3>1, PartOneMore
    <3> QED
      BY <2>4, <2>6, <3>1, <3>2
  <2>9. /\ Covered(Append(part, x)) = Covered(part) + x.count
        /\ Covered(Append(whole, x)) = Covered(whole) + x.count
    BY <2>7, <2>8, CoveredOneMore
  <2>10. Until(d, m) \in Nat /\ Covered(part) \in Nat /\ x.count \in Nat
    <3>1. k >= m /\ k <= Len(d)
      BY <1>0, <2>2
    <3> QED
      BY <1>1, <1>2, <2>2, <2>5, <2>7, <3>1
  <2>11. /\ Until(d, k) = Covered(whole) /\ Until(d, l) = Covered(Append(whole, x))
         /\ SubSeq(d, m + 1, l) = Append(part, x)
    BY <2>2, <2>6, <2>7, <2>8 DEF Until
  <2>12. Covered(whole) = Until(d, m) + Covered(part)
    BY <2>3, <2>5, <2>11
  <2>13. PICK c : c = Covered(part)
    OBVIOUS
  <2>14. PICK u : u = Until(d, m)
    OBVIOUS
  <2>15. Covered(Append(whole, x)) = u + (c + x.count)
    BY ONLY <2>9, <2>10, <2>12, <2>13, <2>14
  <2> QED
    BY <2>9, <2>11, <2>13, <2>14, <2>15
<1>6. Nat \subseteq Q
  BY <1>4, <1>5, NatSetInduction
<1>7. ASSUME NEW k \in m .. Len(d)
      PROVE  Until(d, k) = Until(d, m) + Covered(SubSeq(d, m + 1, k))
  <2>1. k - m \in Nat /\ m + (k - m) = k /\ k <= Len(d)
    BY <1>0
  <2> QED
    BY <1>3, <1>6, <2>1
<1> QED
  BY <1>0, <1>1, <1>2, <1>7

-----------------------------------------------------------------------------
(* What RunRules makes of the set of one element.                          *)
Ran(shown, rule, answers) ==
  CHOOSE r \in {RunRule(last, rule, answers) : last \in {shown}} : TRUE

LEMMA RanOnce ==
  ASSUME NEW shown, NEW rule, NEW answers
  PROVE  Ran(shown, rule, answers) = RunRule(shown, rule, answers)
<1>1. PICK S : S = {RunRule(last, rule, answers) : last \in {shown}}
  OBVIOUS
<1>2. \A r \in S : r = RunRule(shown, rule, answers)
  BY <1>1
<1>3. RunRule(shown, rule, answers) \in S
  BY <1>1
<1>4. (CHOOSE r \in S : TRUE) \in S
  BY <1>3
<1> QED
  BY <1>1, <1>2, <1>4 DEF Ran

(* What is shown along a list of rules: f[n] is after n rules.             *)
RuleRun(f, shown, rules, answers) ==
  f = [n \in 0 .. Len(rules) |-> IF n = 0 THEN shown ELSE Ran(f[n - 1], rules[n], answers)]

RulesUpTo(f, shown, rules, answers, k) ==
  /\ f = [n \in 0 .. k |-> f[n]]
  /\ \A n \in 0 .. k : f[n] = IF n = 0 THEN shown ELSE Ran(f[n - 1], rules[n], answers)

LEMMA RunRulesIsChosen ==
  ASSUME NEW shown, NEW rules, NEW answers
  PROVE  RunRules(shown, rules, answers) =
           (CHOOSE f : RuleRun(f, shown, rules, answers))[Len(rules)]
BY DEF RunRules, RuleRun, Ran

LEMMA RuleRunsExist ==
  ASSUME NEW shown, NEW rules, NEW answers
  PROVE  \A k \in Nat : \E f : RulesUpTo(f, shown, rules, answers, k)
<1> DEFINE Q == {k \in Nat : \E f : RulesUpTo(f, shown, rules, answers, k)}
<1>1. 0 \in Q
  <2>1. PICK f : f = [n \in 0 .. 0 |-> shown]
    OBVIOUS
  <2>2. RulesUpTo(f, shown, rules, answers, 0)
    BY <2>1 DEF RulesUpTo
  <2> QED
    BY <2>2
<1>2. ASSUME NEW k \in Nat, k \in Q PROVE k + 1 \in Q
  <2>1. PICK f : RulesUpTo(f, shown, rules, answers, k)
    BY <1>2
  <2>2. PICK top : top = Ran(f[k], rules[k + 1], answers)
    OBVIOUS
  <2>3. PICK g : g = [n \in 0 .. k + 1 |-> IF n = k + 1 THEN top ELSE f[n]]
    OBVIOUS
  <2>4. /\ g = [n \in 0 .. k + 1 |-> g[n]]
        /\ \A n \in 0 .. k + 1 : g[n] = IF n = k + 1 THEN top ELSE f[n]
    BY <2>3
  <2>5. ASSUME NEW n \in 0 .. k + 1
        PROVE  g[n] = IF n = 0 THEN shown ELSE Ran(g[n - 1], rules[n], answers)
    <3>1. CASE n = k + 1
      <4>1. n # 0 /\ n - 1 = k /\ k \in 0 .. k + 1 /\ k # k + 1
        BY <3>1
      <4>2. g[n] = top /\ g[n - 1] = f[k]
        BY <2>4, <3>1, <4>1
      <4> QED
        BY <2>2, <3>1, <4>1, <4>2
    <3>2. CASE n # k + 1
      <4>1. n \in 0 .. k /\ (n # 0 => n - 1 \in 0 .. k + 1 /\ n - 1 # k + 1)
        BY <3>2
      <4>2. g[n] = f[n] /\ (n # 0 => g[n - 1] = f[n - 1])
        BY <2>4, <3>2, <4>1
      <4>3. f[n] = IF n = 0 THEN shown ELSE Ran(f[n - 1], rules[n], answers)
        BY <2>1, <4>1 DEF RulesUpTo
      <4> QED
        BY <4>2, <4>3
    <3> QED
      BY <3>1, <3>2
  <2>6. RulesUpTo(g, shown, rules, answers, k + 1)
    BY <2>4, <2>5 DEF RulesUpTo
  <2> QED
    BY <2>6
<1> HIDE DEF Q
<1>3. Nat \subseteq Q
  BY <1>1, <1>2, NatSetInduction
<1> QED
  BY <1>3 DEF Q

LEMMA RunRulesRuns ==
  ASSUME NEW shown, NEW rules, NEW answers, Len(rules) \in Nat
  PROVE  \E f : /\ RulesUpTo(f, shown, rules, answers, Len(rules))
                /\ RunRules(shown, rules, answers) = f[Len(rules)]
<1>1. PICK f : RulesUpTo(f, shown, rules, answers, Len(rules))
  BY RuleRunsExist
<1>2. RuleRun(f, shown, rules, answers)
  BY <1>1 DEF RulesUpTo, RuleRun
<1>3. PICK g : g = CHOOSE h : RuleRun(h, shown, rules, answers)
  OBVIOUS
<1>4. RuleRun(g, shown, rules, answers)
  BY <1>2, <1>3
<1>5. RulesUpTo(g, shown, rules, answers, Len(rules))
  BY <1>4 DEF RulesUpTo, RuleRun
<1>6. RunRules(shown, rules, answers) = g[Len(rules)]
  BY <1>3, RunRulesIsChosen
<1> QED
  BY <1>5, <1>6

(* Lists that begin with the same rules show the same so far.              *)
LEMMA RuleRunsAgree ==
  ASSUME NEW shown, NEW rules, NEW other, NEW answers, NEW f, NEW g,
         NEW k \in Nat, NEW l \in Nat, NEW m \in Nat, m <= k, m <= l,
         RulesUpTo(f, shown, rules, answers, k), RulesUpTo(g, shown, other, answers, l),
         \A n \in 1 .. m : rules[n] = other[n]
  PROVE  f[m] = g[m]
<1> DEFINE Q == {n \in Nat : n <= m => f[n] = g[n]}
<1>1. 0 \in Q
  <2>1. 0 \in 0 .. k /\ 0 \in 0 .. l
    OBVIOUS
  <2>2. f[0] = shown /\ g[0] = shown
    BY <2>1 DEF RulesUpTo
  <2> QED
    BY <2>2
<1>2. ASSUME NEW n \in Nat, n \in Q PROVE n + 1 \in Q
  <2>1. SUFFICES ASSUME n + 1 <= m PROVE f[n + 1] = g[n + 1]
    OBVIOUS
  <2>2. f[n] = g[n]
    BY <1>2, <2>1
  <2>3. /\ n + 1 \in 0 .. k /\ n + 1 \in 0 .. l /\ n + 1 \in 1 .. m
        /\ n + 1 # 0 /\ n + 1 - 1 = n
    BY <2>1
  <2>4. f[n + 1] = Ran(f[n], rules[n + 1], answers)
    <3>1. \A i \in 0 .. k : f[i] = IF i = 0 THEN shown ELSE Ran(f[i - 1], rules[i], answers)
      BY DEF RulesUpTo
    <3> QED
      BY <2>3, <3>1
  <2>5. g[n + 1] = Ran(g[n], other[n + 1], answers)
    <3>1. \A i \in 0 .. l : g[i] = IF i = 0 THEN shown ELSE Ran(g[i - 1], other[i], answers)
      BY DEF RulesUpTo
    <3> QED
      BY <2>3, <3>1
  <2> QED
    BY <2>2, <2>3, <2>4, <2>5
<1> HIDE DEF Q
<1>3. m \in Q
  BY <1>1, <1>2, NatSetInduction
<1> QED
  BY <1>3 DEF Q

LEMMA RunRulesOneMore ==
  ASSUME NEW shown, NEW S, NEW rules \in Seq(S), NEW rule \in S, NEW answers
  PROVE  RunRules(shown, Append(rules, rule), answers) =
           RunRule(RunRules(shown, rules, answers), rule, answers)
<1>1. PICK more : more = Append(rules, rule)
  OBVIOUS
<1>2. PICK n \in Nat : n = Len(rules)
  OBVIOUS
<1>3. /\ Len(more) = n + 1 /\ more[n + 1] = rule
      /\ \A m \in 1 .. n : rules[m] = more[m]
  BY <1>1, <1>2
<1>4. PICK f : RulesUpTo(f, shown, rules, answers, n) /\ RunRules(shown, rules, answers) = f[n]
  BY <1>2, RunRulesRuns
<1>5. PICK g : /\ RulesUpTo(g, shown, more, answers, n + 1)
               /\ RunRules(shown, more, answers) = g[n + 1]
  BY <1>2, <1>3, RunRulesRuns
<1>6. f[n] = g[n]
  <2>1. n <= n /\ n <= n + 1 /\ n + 1 \in Nat
    OBVIOUS
  <2> QED
    BY <1>3, <1>4, <1>5, <2>1, RuleRunsAgree
<1>7. g[n + 1] = Ran(g[n], more[n + 1], answers)
  <2>1. n + 1 \in 0 .. n + 1 /\ n + 1 # 0 /\ n + 1 - 1 = n
    OBVIOUS
  <2>2. \A i \in 0 .. n + 1 : g[i] = IF i = 0 THEN shown ELSE Ran(g[i - 1], more[i], answers)
    BY <1>5 DEF RulesUpTo
  <2> QED
    BY ONLY <2>1, <2>2
<1> QED
  BY <1>1, <1>3, <1>4, <1>5, <1>6, <1>7, RanOnce

LEMMA RunRulesOfOne ==
  ASSUME NEW shown, NEW S, NEW rule \in S, NEW answers
  PROVE  RunRules(shown, <<rule>>, answers) = RunRule(shown, rule, answers)
<1>1. PICK rules : rules = <<rule>>
  OBVIOUS
<1>2. Len(rules) = 1 /\ rules[1] = rule
  BY <1>1
<1>3. PICK f : RulesUpTo(f, shown, rules, answers, 1) /\ RunRules(shown, rules, answers) = f[1]
  <2>1. Len(rules) \in Nat
    BY <1>2
  <2>2. PICK f : /\ RulesUpTo(f, shown, rules, answers, Len(rules))
                 /\ RunRules(shown, rules, answers) = f[Len(rules)]
    BY ONLY <2>1, RunRulesRuns
  <2> QED
    BY <1>2, <2>2
<1>4. f[0] = shown /\ f[1] = Ran(f[0], rules[1], answers)
  <2>1. \A i \in 0 .. 1 : f[i] = IF i = 0 THEN shown ELSE Ran(f[i - 1], rules[i], answers)
    BY <1>3 DEF RulesUpTo
  <2> QED
    BY ONLY <2>1
<1> QED
  BY <1>1, <1>2, <1>3, <1>4, RanOnce

-----------------------------------------------------------------------------
(* The automaton knows the tokens from the first one that is read.         *)
Reads(a, first) ==
  /\ len \in Nat /\ first \in Nat /\ first < len
  /\ \A token \in first .. len - 1 : getKind(token) \in a.terminals

LEMMA ReadsOn ==
  ASSUME NEW a, NEW first, Reads(a, first)
  PROVE  /\ \A token \in first .. len - 1 : getKind(token) \in a.terminals
         /\ \A token \in Int : token >= first - 1 => getNext(token) \in first .. len - 1
  BY DEF Reads, getNext

(* The recursive function lookahead.                                       *)
LooksAhead(f) ==
  f = [from \in Int \X Nat |->
         LET next == lookAhead(from[1] - LA_STATE_OFFSET, getKind(from[2]))
         IN  IF AsksForMore(next) THEN f[<<next, getNext(from[2])>>] ELSE next]

LEMMA LookaheadRuns ==
  ASSUME len \in Nat, len > 0
  PROVE  LooksAhead(lookahead)
<1>1. PICK D : D = Int \X Nat
  OBVIOUS
<1> DEFINE Answer(x) == lookAhead(x[1] - LA_STATE_OFFSET, getKind(x[2]))
<1>2. PICK C : C = {x \in D : AsksForMore(Answer(x))}
  OBVIOUS
<1>3. PICK next : next = [x \in D |-> <<Answer(x), getNext(x[2])>>]
  OBVIOUS
<1>4. \A x \in D : next[x] = <<Answer(x), getNext(x[2])>>
  BY <1>3
<1>5. \A x \in C : next[x] \in D
  <2>1. SUFFICES ASSUME NEW x \in C PROVE next[x] \in D
    OBVIOUS
  <2>2. x \in D /\ x[2] \in Nat /\ Answer(x) \in Int
    BY <1>1, <1>2 DEF AsksForMore
  <2>3. getNext(x[2]) \in Nat
    BY <2>2 DEF getNext
  <2> HIDE DEF Answer
  <2> QED
    BY <1>1, <1>4, <2>2, <2>3
<1>6. PICK last : last = [x \in D |-> Answer(x)]
  OBVIOUS
<1>7. PICK f : Follows(f, D, C, next, last)
  <2>1. IsTail(D, C, next, last)
    BY <1>2, <1>5 DEF IsTail
  <2> QED
    BY ONLY <2>1, TailRecursion
<1>8. LooksAhead(f)
  BY <1>1, <1>2, <1>4, <1>6, <1>7 DEF LooksAhead, Follows
<1>9. lookahead = CHOOSE g : LooksAhead(g)
  BY DEF lookahead, LooksAhead
<1> QED
  BY <1>8, <1>9

(* The lookahead comes to an end, and what it finds is what the table      *)
(* answers in that state.                                                  *)
LEMMA LookaheadAnswers ==
  ASSUME NEW a, IsAutomaton(a), NEW first, Reads(a, first),
         NEW state, NEW k \in Nat, NEW act, <<state, k, act>> \in a.actions,
         act > LA_STATE_OFFSET, NEW token \in first .. len - 1
  PROVE  \E n \in Nat : <<state, n, lookahead[<<act, token>>]>> \in a.actions
<1>1. /\ ActionsAreThere(a) /\ a.lookahead \in Nat
      /\ \A x \in a.actions : x[3] \in Int
  BY DEF IsAutomaton, AutomatonTypes
<1> DEFINE Asks(n, y) == <<state, n, y>> \in a.actions /\ y > LA_STATE_OFFSET
           Answered(y) == \E n \in Nat : <<state, n, y>> \in a.actions
<1>2. ASSUME NEW n \in Nat, NEW y, Asks(n, y)
      PROVE  /\ y \in Int /\ n < a.lookahead
             /\ \A t \in a.terminals :
                  <<state, n + 1, lookAhead(y - LA_STATE_OFFSET, t)>> \in a.actions
  <2>1. PICK x : x = <<state, n, y>>
    OBVIOUS
  <2>2. x \in a.actions /\ x[1] = state /\ x[2] = n /\ x[3] = y
    BY <1>2, <2>1
  <2> QED
    BY <1>1, <1>2, <2>2 DEF ActionsAreThere
<1>3. ASSUME NEW y \in Int, NEW u \in first .. len - 1, NEW next,
             next = lookAhead(y - LA_STATE_OFFSET, getKind(u))
      PROVE  lookahead[<<y, u>>] =
               IF AsksForMore(next) THEN lookahead[<<next, getNext(u)>>] ELSE next
  <2>1. PICK x : x = <<y, u>>
    OBVIOUS
  <2>2. x \in Int \X Nat /\ x[1] = y /\ x[2] = u
    BY <2>1 DEF Reads
  <2>3. LooksAhead(lookahead)
    BY LookaheadRuns DEF Reads
  <2>4. PICK f : f = lookahead
    OBVIOUS
  <2>5. f[x] = IF AsksForMore(next) THEN f[<<next, getNext(u)>>] ELSE next
    BY <1>3, <2>2, <2>3, <2>4 DEF LooksAhead
  <2> QED
    BY <2>1, <2>4, <2>5
<1>4. PICK Q : Q = {m \in Nat : \A n \in Nat : \A y : \A u \in first .. len - 1 :
                     n + m = a.lookahead /\ Asks(n, y) => Answered(lookahead[<<y, u>>])}
  OBVIOUS
<1>5. 0 \in Q
  <2>1. SUFFICES ASSUME NEW n \in Nat, NEW y, n + 0 = a.lookahead, Asks(n, y)
                 PROVE  FALSE
    BY <1>4
  <2>2. n < a.lookahead
    BY <1>2, <2>1
  <2> QED
    BY <1>1, <2>1, <2>2
<1>6. ASSUME NEW m \in Nat, m \in Q PROVE m + 1 \in Q
  <2>1. SUFFICES ASSUME NEW n \in Nat, NEW y, NEW u \in first .. len - 1,
                        n + (m + 1) = a.lookahead, Asks(n, y)
                 PROVE  Answered(lookahead[<<y, u>>])
    BY <1>4
  <2>2. PICK next : next = lookAhead(y - LA_STATE_OFFSET, getKind(u))
    OBVIOUS
  <2>3. y \in Int /\ <<state, n + 1, next>> \in a.actions
    BY <1>2, <2>1, <2>2, ReadsOn
  <2>4. lookahead[<<y, u>>] = IF AsksForMore(next) THEN lookahead[<<next, getNext(u)>>] ELSE next
    BY <1>3, <2>2, <2>3
  <2>5. CASE AsksForMore(next)
    <3>1. Asks(n + 1, next)
      BY <2>3, <2>5 DEF AsksForMore
    <3>2. PICK w \in Nat : w = n + 1 /\ w + m = a.lookahead
      BY <1>1, <2>1
    <3>3. getNext(u) \in first .. len - 1
      <4>1. first \in Nat /\ len \in Nat
        BY DEF Reads
      <4>2. u \in Int /\ u >= first - 1
        BY <4>1
      <4> QED
        BY ONLY <4>2, Reads(a, first), ReadsOn
    <3>4. PICK v \in first .. len - 1 : v = getNext(u)
      BY <3>3
    <3>5. Answered(lookahead[<<next, v>>])
      <4>1. Asks(w, next)
        BY <3>1, <3>2
      <4> HIDE DEF Asks, Answered
      <4>2. \A n0 \in Nat : \A z : \A q \in first .. len - 1 :
              n0 + m = a.lookahead /\ Asks(n0, z) => Answered(lookahead[<<z, q>>])
        BY ONLY <1>4, <1>6
      <4> QED
        BY ONLY <3>2, <4>1, <4>2, v \in first .. len - 1
    <3>6. lookahead[<<y, u>>] = lookahead[<<next, v>>]
      BY <2>4, <2>5, <3>4
    <3> HIDE DEF Answered
    <3> QED
      BY <3>5, <3>6
  <2>6. CASE ~AsksForMore(next)
    <3>1. PICK w \in Nat : w = n + 1
      OBVIOUS
    <3>2. <<state, w, next>> \in a.actions
      BY <2>3, <3>1
    <3>3. Answered(next)
      BY ONLY <1>1, <2>6, <3>2, w \in Nat DEF AsksForMore
    <3>4. lookahead[<<y, u>>] = next
      BY ONLY <2>4, <2>6, Zenon
    <3> HIDE DEF Answered
    <3> QED
      BY ONLY <3>3, <3>4, Zenon
  <2> HIDE DEF Answered
  <2> QED
    BY ONLY <2>5, <2>6, Zenon
<1>7. PICK m \in Nat : k + m = a.lookahead
  <2>1. k < a.lookahead
    BY <1>2
  <2>2. a.lookahead - k \in Nat /\ k + (a.lookahead - k) = a.lookahead
    BY <1>1, <2>1
  <2> QED
    BY <2>2
<1>8. m \in Q
  <2>1. Nat \subseteq Q
    BY ONLY <1>5, <1>6, NatSetInduction
  <2> QED
    BY <2>1
<1> QED
  BY <1>4, <1>7, <1>8

(* What tAction finds is what the table answers in the state on top.       *)
LEMMA tActionAnswers ==
  ASSUME NEW a, IsAutomaton(a), NEW first, Reads(a, first),
         NEW s, IsViable(a, s), NEW k \in a.terminals, NEW cursor \in Int, cursor >= first - 1
  PROVE  Answers(a, s, tAction(Last(s), k, cursor))
<1>1. PICK state : state = s[Len(s)]
  OBVIOUS
<1>2. state \in StatesOf(a) /\ Last(s) = state
  BY <1>1, TopIsAState
<1>3. PICK act : act = tableAction(state, k)
  OBVIOUS
<1>4. <<state, 1, act>> \in a.actions
  BY <1>2, <1>3  DEF IsAutomaton, ActionsAreThere
<1>5. CASE AsksForMore(act)
  <2>1. peek(cursor) \in first .. len - 1
    BY ReadsOn DEF peek
  <2>2. act > LA_STATE_OFFSET
    BY <1>5 DEF AsksForMore
  <2>3. \E n \in Nat : <<state, n, lookahead[<<act, peek(cursor)>>]>> \in a.actions
    BY <1>4, <2>1, <2>2, LookaheadAnswers
  <2> QED
    BY <1>1, <1>2, <1>3, <1>5, <2>3 DEF tAction, Answers
<1>6. CASE ~AsksForMore(act)
  BY <1>1, <1>2, <1>3, <1>4, <1>6 DEF tAction, Answers
<1> QED
  BY <1>5, <1>6

-----------------------------------------------------------------------------
RulesFrom(f, s, ends) ==
  f = [at \in Int \X (0 .. NUM_RULES) \X Seq(0 .. NUM_RULES) |->
         LET act == ntAction(s[at[1]], lhs(at[2]))
         IN  IF lhs(at[2]) \notin ends /\ IsReduce(act)
             THEN f[<<at[1] - (rhs(act) - 1), act, Append(at[3], act)>>]
             ELSE [top |-> at[1], act |-> act, rules |-> at[3]]]

(* The rules when those in rules have run, the last of them a rule, and    *)
(* the stack is left up to left.                                           *)
RulesOn(s, ends, left, rule, rules) == (CHOOSE f : RulesFrom(f, s, ends))[<<left, rule, rules>>]

LEMMA RulesOfIsChosen ==
  ASSUME NEW s, NEW top, NEW rule, NEW ends
  PROVE  RulesOf(s, top, rule, ends) = RulesOn(s, ends, top - (rhs(rule) - 1), rule, <<rule>>)
BY DEF RulesOf, RulesOn, RulesFrom

LEMMA RulesRun ==
  ASSUME NEW s, NEW ends, \A rule \in 0 .. NUM_RULES : rhs(rule) \in Nat
  PROVE  \E f : RulesFrom(f, s, ends)
<1>1. PICK D : D = Int \X (0 .. NUM_RULES) \X Seq(0 .. NUM_RULES)
  OBVIOUS
<1> DEFINE Act(x) == ntAction(s[x[1]], lhs(x[2]))
           Left(x) == x[1] - (rhs(Act(x)) - 1)
<1>2. PICK C : C = {x \in D : lhs(x[2]) \notin ends /\ IsReduce(Act(x))}
  OBVIOUS
<1>3. PICK next : next = [x \in D |-> <<Left(x), Act(x), Append(x[3], Act(x))>>]
  OBVIOUS
<1>4. \A x \in D : next[x] = <<Left(x), Act(x), Append(x[3], Act(x))>>
  BY <1>3
<1>5. \A x \in C : next[x] \in D
  <2>1. SUFFICES ASSUME NEW x \in C PROVE next[x] \in D
    OBVIOUS
  <2>2. x \in D /\ IsReduce(Act(x))
    BY <1>2
  <2>3. Act(x) \in 0 .. NUM_RULES
    BY <2>2 DEF IsReduce
  <2>4. Left(x) \in Int
    <3>1. rhs(Act(x)) \in Nat
      BY <2>3
    <3>2. x[1] \in Int
      BY <1>1, <2>2
    <3> HIDE DEF Act
    <3> QED
      BY <3>1, <3>2
  <2>5. Append(x[3], Act(x)) \in Seq(0 .. NUM_RULES)
    <3>1. x[3] \in Seq(0 .. NUM_RULES)
      BY <1>1, <2>2
    <3> HIDE DEF Act
    <3> QED
      BY <2>3, <3>1
  <2>6. next[x] = <<Left(x), Act(x), Append(x[3], Act(x))>>
    BY <1>4, <2>2
  <2> HIDE DEF Left, Act
  <2>7. PICK l, r, rules : l = Left(x) /\ r = Act(x) /\ rules = Append(x[3], Act(x))
    OBVIOUS
  <2>8. <<l, r, rules>> \in Int \X (0 .. NUM_RULES) \X Seq(0 .. NUM_RULES)
    BY ONLY <2>3, <2>4, <2>5, <2>7
  <2> QED
    BY ONLY <1>1, <2>6, <2>7, <2>8
<1>6. C \in SUBSET D
  BY <1>2
<1>7. PICK last : last = [x \in D |-> [top |-> x[1], act |-> Act(x), rules |-> x[3]]]
  OBVIOUS
<1>8. PICK f : Follows(f, D, C, next, last)
  <2>1. IsTail(D, C, next, last)
    BY <1>5, <1>6 DEF IsTail
  <2> QED
    BY ONLY <2>1, TailRecursion
<1>9. RulesFrom(f, s, ends)
  BY <1>1, <1>2, <1>4, <1>7, <1>8 DEF RulesFrom, Follows
<1> QED
  BY <1>9

(* A turn of the loop: the rule sets off another, or it is the last.       *)
TurnsTo(s, ends, left, rule, rules, act, rest) ==
  RulesOn(s, ends, left, rule, rules) =
    IF lhs(rule) \notin ends /\ IsReduce(act)
    THEN RulesOn(s, ends, rest, act, Append(rules, act))
    ELSE [top |-> left, act |-> act, rules |-> rules]

LEMMA RulesTurn ==
  ASSUME NEW s, NEW ends, \A r \in 0 .. NUM_RULES : rhs(r) \in Nat,
         NEW left \in Int, NEW rule \in 0 .. NUM_RULES, NEW rules \in Seq(0 .. NUM_RULES),
         NEW act, act = ntAction(s[left], lhs(rule)),
         NEW rest, rest = left - (rhs(act) - 1)
  PROVE  TurnsTo(s, ends, left, rule, rules, act, rest)
<1>1. PICK f : f = CHOOSE g : RulesFrom(g, s, ends)
  OBVIOUS
<1>2. RulesFrom(f, s, ends)
  BY <1>1, RulesRun
<1>3. \A l, r, rs : RulesOn(s, ends, l, r, rs) = f[<<l, r, rs>>]
  BY <1>1 DEF RulesOn
<1>5. PICK at : at = <<left, rule, rules>>
  OBVIOUS
<1>6. /\ at \in Int \X (0 .. NUM_RULES) \X Seq(0 .. NUM_RULES)
      /\ at[1] = left /\ at[2] = rule /\ at[3] = rules
  BY <1>5
<1>7. f[at] = IF lhs(rule) \notin ends /\ IsReduce(act)
              THEN f[<<rest, act, Append(rules, act)>>]
              ELSE [top |-> left, act |-> act, rules |-> rules]
  BY <1>2, <1>6 DEF RulesFrom
<1>8. RulesOn(s, ends, left, rule, rules) = f[at]
  BY ONLY <1>3, <1>5, Zenon
<1>9. RulesOn(s, ends, rest, act, Append(rules, act)) = f[<<rest, act, Append(rules, act)>>]
  BY ONLY <1>3, Zenon
<1> QED
  BY ONLY <1>7, <1>8, <1>9, Zenon DEF TurnsTo

(* As long as there are rules to run, the stack is not left.               *)
RulesStay(Q, n) ==
  \A left \in 1 .. n : \A rules \in Seq(0 .. NUM_RULES) : \A act \in 0 .. NUM_RULES :
    <<left, rules>> \in Q /\ left - (rhs(act) - 1) \in 1 .. left =>
      <<left - (rhs(act) - 1), Append(rules, act)>> \in Q

(* The rules have come to an end, on what is left of the stack.            *)
EndsWithin(r, Q, ends, left, goal) ==
  /\ r.top \in 1 .. left /\ <<r.top, r.rules>> \in Q
  /\ ends = {} => <<r.top, r.act>> = goal

(* The parser goes on where the last of the rules leads.                   *)
EndsWith(rules, rule) == Len(rules) > 0 /\ rules[Len(rules)] = rule

GoesOn(r, s) == r.act = ntAction(s[r.top], lhs(r.rules[Len(r.rules)]))

LEMMA RulesTurnsStay ==
  ASSUME NEW a, IsAutomaton(a), NEW s, IsViable(a, s), NEW ends, NEW Q, RulesStay(Q, Len(s))
  PROVE  \A left \in 1 .. Len(s) : \A rule \in 0 .. NUM_RULES : \A rules \in Seq(0 .. NUM_RULES) :
           <<s[left], 0, lhs(rule)>> \in a.items /\ <<left, rules>> \in Q =>
             /\ EndsWithin(RulesOn(s, ends, left, rule, rules), Q, ends, left,
                           Turned(s, left, lhs(rule)))
             /\ EndsWith(rules, rule) => GoesOn(RulesOn(s, ends, left, rule, rules), s)
<1>0. /\ Len(s) \in Nat
      /\ \A r \in 0 .. NUM_RULES : rhs(r) \in Nat
  BY DEF IsViable, IsAutomaton, AutomatonTypes
<1> DEFINE Stays(left, nt) ==
             \A rule \in 0 .. NUM_RULES : \A rules \in Seq(0 .. NUM_RULES) :
               lhs(rule) = nt /\ <<left, rules>> \in Q =>
                 LET r == RulesOn(s, ends, left, rule, rules)
                 IN  /\ r.top \in 1 .. left /\ <<r.top, r.rules>> \in Q
                     /\ ends = {} => <<r.top, r.act>> = Turned(s, left, nt)
                     /\ EndsWith(rules, rule) => GoesOn(r, s)
<1>1. PICK P : P = {x \in (1 .. Len(s)) \X {it[3] : it \in a.items} : Stays(x[1], x[2])}
  OBVIOUS
<1>2. ASSUME NEW l \in 1 .. Len(s), NEW nt, <<s[l], 0, nt>> \in a.items
      PROVE  <<l, nt>> \in P <=> Stays(l, nt)
  <2>1. nt \in {it[3] : it \in a.items}
    <3>1. PICK it : it = <<s[l], 0, nt>>
      OBVIOUS
    <3>2. it \in a.items /\ it[3] = nt
      BY <1>2, <3>1
    <3> QED
      BY <3>2
  <2>2. PICK x : x = <<l, nt>>
    OBVIOUS
  <2>3. x \in (1 .. Len(s)) \X {it[3] : it \in a.items} /\ x[1] = l /\ x[2] = nt
    BY <2>1, <2>2
  <2> HIDE DEF Stays
  <2> QED
    BY <1>1, <2>2, <2>3
<1>3. ASSUME NEW l \in 1 .. Len(s), NEW nt, NEW act, act = ntAction(s[l], nt),
             <<s[l], 0, nt>> \in a.items, NEW left, left = l - (rhs(act) - 1),
             IF IsReduce(act)
             THEN /\ left \in 1 .. l /\ <<s[left], 0, lhs(act)>> \in a.items
                  /\ <<left, lhs(act)>> \in P
             ELSE <<s[l], act>> \in a.edges
      PROVE  <<l, nt>> \in P
  <2>1. SUFFICES ASSUME NEW rule \in 0 .. NUM_RULES, NEW rules \in Seq(0 .. NUM_RULES),
                        lhs(rule) = nt, <<l, rules>> \in Q
                 PROVE  LET r == RulesOn(s, ends, l, rule, rules)
                        IN  /\ r.top \in 1 .. l /\ <<r.top, r.rules>> \in Q
                            /\ ends = {} => <<r.top, r.act>> = Turned(s, l, nt)
                            /\ EndsWith(rules, rule) => GoesOn(r, s)
    BY <1>2, <1>3
  <2>2. RulesOn(s, ends, l, rule, rules) =
          IF lhs(rule) \notin ends /\ IsReduce(act)
          THEN RulesOn(s, ends, left, act, Append(rules, act))
          ELSE [top |-> l, act |-> act, rules |-> rules]
    <3>1. l \in Int
      OBVIOUS
    <3>2. act = ntAction(s[l], lhs(rule))
      BY <1>3, <2>1
    <3>3. rule \in 0 .. NUM_RULES /\ rules \in Seq(0 .. NUM_RULES)
      BY <2>1
    <3>4. TurnsTo(s, ends, l, rule, rules, act, left)
      BY ONLY <1>0, <3>1, <3>2, <3>3, left = l - (rhs(act) - 1), RulesTurn
    <3> QED
      BY ONLY <3>4 DEF TurnsTo
  <2>3. CASE ~(lhs(rule) \notin ends /\ IsReduce(act))
    <3>1. PICK r : r = RulesOn(s, ends, l, rule, rules)
      OBVIOUS
    <3>2. r.top = l /\ r.act = act /\ r.rules = rules
      BY <2>2, <2>3, <3>1
    <3>3. ends = {} => ~IsReduce(act)
      BY <2>3
    <3>4. ~IsReduce(act) => Turned(s, l, nt) = <<l, act>>
      BY <1>3 DEF Turned
    <3>5. l \in 1 .. l
      OBVIOUS
    <3>6. EndsWith(rules, rule) => GoesOn(r, s)
      BY <1>3, <2>1, <3>2 DEF EndsWith, GoesOn
    <3> QED
      BY <2>1, <3>1, <3>2, <3>3, <3>4, <3>5, <3>6
  <2>4. CASE lhs(rule) \notin ends /\ IsReduce(act)
    <3>1. act \in 0 .. NUM_RULES /\ left \in 1 .. Len(s) /\ left \in 1 .. l
      BY <1>0, <1>3, <2>4 DEF IsReduce
    <3>2. Stays(left, lhs(act))
      BY <1>2, <1>3, <2>4, <3>1
    <3>3. <<left, Append(rules, act)>> \in Q
      BY <1>3, <2>1, <3>1 DEF RulesStay
    <3>4. PICK r : r = RulesOn(s, ends, left, act, Append(rules, act))
      OBVIOUS
    <3>5. Append(rules, act) \in Seq(0 .. NUM_RULES)
      BY <3>1
    <3>6. /\ r.top \in 1 .. left /\ <<r.top, r.rules>> \in Q
          /\ ends = {} => <<r.top, r.act>> = Turned(s, left, lhs(act))
          /\ EndsWith(Append(rules, act), act) => GoesOn(r, s)
      BY <3>1, <3>2, <3>3, <3>4, <3>5
    <3>7. Turned(s, l, nt) = Turned(s, left, lhs(act))
      <4>1. Turned(s, l, nt) = Reached(s, l, act)
        BY <1>3, <2>4 DEF Turned
      <4>2. Reached(s, l, act) = Turned(s, l - (rhs(act) - 1), lhs(act))
        BY <1>0, <3>1, ReachedTurns
      <4> QED
        BY <1>3, <4>1, <4>2
    <3>8. r.top \in 1 .. l
      BY <3>1, <3>6
    <3>9. RulesOn(s, ends, l, rule, rules) = r
      BY <2>2, <2>4, <3>4
    <3>10. EndsWith(Append(rules, act), act)
      BY <3>1 DEF EndsWith
    <3> QED
      BY ONLY <3>6, <3>7, <3>8, <3>9, <3>10
  <2> QED
    BY <2>3, <2>4
<1>4. TurnsClosed(a, s, P)
  BY <1>3 DEF TurnsClosed
<1>5. \A left \in 1 .. Len(s) : \A nt :
        <<s[left], 0, nt>> \in a.items => <<left, nt>> \in P
  BY ONLY <1>4, IsAutomaton(a), IsViable(a, s), TurnInduction
<1>6. ASSUME NEW left \in 1 .. Len(s), NEW rule \in 0 .. NUM_RULES,
             NEW rules \in Seq(0 .. NUM_RULES),
             <<s[left], 0, lhs(rule)>> \in a.items, <<left, rules>> \in Q
      PROVE  /\ EndsWithin(RulesOn(s, ends, left, rule, rules), Q, ends, left,
                           Turned(s, left, lhs(rule)))
             /\ EndsWith(rules, rule) => GoesOn(RulesOn(s, ends, left, rule, rules), s)
  <2>1. PICK nt : nt = lhs(rule)
    OBVIOUS
  <2>2. Stays(left, nt)
    <3> HIDE DEF Stays
    <3> QED
      BY ONLY <1>2, <1>5, <1>6, <2>1
  <2> QED
    BY ONLY <1>6, <2>1, <2>2 DEF EndsWithin
<1> QED
  BY ONLY <1>6, Zenon

(* The symbols of the rule up to top are on the stack: in its state at p   *)
(* the parser has those from behind left.                                  *)
OnTop(a, s, p, top, rule, left) ==
  /\ p \in 1 .. Len(s) /\ top \in Int /\ rule \in 0 .. NUM_RULES
  /\ left \in Int /\ left = top - (rhs(rule) - 1)
  /\ <<s[p], p - left, lhs(rule)>> \in a.items

BeginsWith(Q, left, rule) == <<left, <<rule>>>> \in Q

(* A rule whose right-hand side is on the stack, and those it sets off.    *)
LEMMA RulesOfStays ==
  ASSUME NEW a, IsAutomaton(a), NEW s, IsViable(a, s), NEW ends, NEW Q, RulesStay(Q, Len(s)),
         NEW p, NEW top, NEW rule, NEW left, OnTop(a, s, p, top, rule, left),
         BeginsWith(Q, left, rule)
  PROVE  /\ left \in 1 .. p
         /\ EndsWithin(RulesOf(s, top, rule, ends), Q, ends, left, Reached(s, top, rule))
         /\ GoesOn(RulesOf(s, top, rule, ends), s)
<1>0. /\ p \in 1 .. Len(s) /\ top \in Int /\ rule \in 0 .. NUM_RULES
      /\ left \in Int /\ left = top - (rhs(rule) - 1)
      /\ <<s[p], p - left, lhs(rule)>> \in a.items
  BY DEF OnTop
<1>1. Reached(s, top, rule) = Turned(s, left, lhs(rule))
  <2>1. \A r \in 0 .. NUM_RULES : rhs(r) \in Nat
    BY DEF IsAutomaton, AutomatonTypes
  <2> QED
    BY <1>0, <2>1, ReachedTurns
<1>2. /\ p - (p - left) \in 1 .. p
      /\ <<s[p - (p - left)], 0, lhs(rule)>> \in a.items
  BY <1>0, ItemsBegin
<1>3. p - (p - left) = left
  BY <1>0
<1>4. left \in 1 .. p /\ left \in 1 .. Len(s) /\ <<s[left], 0, lhs(rule)>> \in a.items
  <2>1. Len(s) \in Nat
    BY DEF IsViable
  <2>2. left \in 1 .. p /\ <<s[left], 0, lhs(rule)>> \in a.items
    BY ONLY <1>2, <1>3
  <2>3. left \in 1 .. Len(s)
    BY ONLY <1>0, <2>1, <2>2
  <2> QED
    BY ONLY <2>2, <2>3
<1>5. PICK rules : rules = <<rule>>
  OBVIOUS
<1>6. rules \in Seq(0 .. NUM_RULES)
  <2>1. Append(<< >>, rule) \in Seq(0 .. NUM_RULES) /\ Append(<< >>, rule) = <<rule>>
    BY <1>0
  <2> QED
    BY <1>5, <2>1
<1>7. RulesOf(s, top, rule, ends) = RulesOn(s, ends, left, rule, rules)
  BY <1>0, <1>5, RulesOfIsChosen
<1>8. /\ EndsWithin(RulesOn(s, ends, left, rule, rules), Q, ends, left, Turned(s, left, lhs(rule)))
      /\ GoesOn(RulesOn(s, ends, left, rule, rules), s)
  <2>1. <<left, rules>> \in Q
    BY <1>5 DEF BeginsWith
  <2>2. EndsWith(rules, rule)
    BY <1>5 DEF EndsWith
  <2> QED
    BY ONLY <1>0, <1>4, <1>6, <2>1, <2>2, IsAutomaton(a), IsViable(a, s), RulesStay(Q, Len(s)),
            RulesTurnsStay
<1> QED
  BY <1>1, <1>4, <1>7, <1>8

-----------------------------------------------------------------------------
(* A node was shown the tokens its symbols cover; T[n] is the n-th taken.  *)
Saw(x, T) ==
  LET start == x.taken - Covered(x.derived)
  IN  /\ x.taken \in Nat /\ x.derived \in Symbols /\ DOMAIN x.parts = 1 .. Len(x.derived)
      /\ x.first = T[start] /\ x.last = T[x.taken - 1]
      /\ \A i \in 1 .. Len(x.derived) :
           /\ x.parts[i].first = T[start + Until(x.derived, i - 1)]
           /\ x.parts[i].last = T[start + Until(x.derived, i) - 1]
           /\ x.derived[i].node # 0 => x.parts[i].node = x.derived[i].node

AllSaw(built, T) == \E S : built \in Seq(S) /\ \A x \in S : Saw(x, T)

(* The places of the first n symbols, and their nodes.                     *)
Placed(first, d, n, T) == \A p \in 1 .. n : first[p] = T[Until(d, p - 1)]

PlacedBefore(prior, d, n, T) == \A p \in 1 .. n : prior[p] = T[Until(d, p - 1) - 1]

Linked(parse, d) ==
  /\ parse \in Seq(Int) /\ Len(d) <= Len(parse)
  /\ \A p \in 1 .. Len(d) : d[p].node # 0 => parse[p] = d[p].node

(* A driver shows what is there, on a stack of n states.                   *)
Showing(r, n, answers, T) ==
  /\ r.derived \in Symbols /\ Len(r.derived) = r.top
  /\ n <= Len(r.parseStack)
  /\ Covered(r.derived) = answers.taken /\ answers.last = T[answers.taken - 1]
  /\ Placed(answers.first, r.derived, r.top, T)
  /\ PlacedBefore(answers.prior, r.derived, r.top, T)
  /\ Linked(r.parseStack, r.derived)
  /\ AllSaw(r.nodes, T)

(* The beginning of a part.                                                *)
LEMMA PartOfPart ==
  ASSUME NEW S, NEW s \in Seq(S), NEW m \in Nat, m <= Len(s), NEW k \in Nat, m + k <= Len(s)
  PROVE  SubSeq(SubSeq(s, m + 1, Len(s)), 1, k) = SubSeq(s, m + 1, m + k)
<1>1. PICK part : part = SubSeq(s, m + 1, Len(s))
  OBVIOUS
<1>2. /\ part \in Seq(S) /\ Len(part) = Len(s) - m
      /\ \A i \in 1 .. Len(s) - m : part[i] = s[m + i]
  BY <1>1
<1>3. PICK x : x = SubSeq(part, 1, k)
  OBVIOUS
<1>4. x \in Seq(S) /\ Len(x) = k /\ \A i \in 1 .. k : x[i] = s[m + i]
  BY <1>2, <1>3
<1>5. PICK y : y = SubSeq(s, m + 1, m + k)
  OBVIOUS
<1>6. y \in Seq(S) /\ Len(y) = k /\ \A i \in 1 .. k : y[i] = s[m + i]
  <2>1. PICK e \in Nat : e = m + k
    OBVIOUS
  <2>2. y = SubSeq(s, m + 1, e) /\ e <= Len(s) /\ m <= e /\ Len(s) \in Nat /\ e - m = k
    BY <1>5, <2>1
  <2>3. y \in Seq(S) /\ Len(y) = e - m /\ \A i \in 1 .. e - m : y[i] = s[m + i]
    BY ONLY <2>2, s \in Seq(S), m \in Nat, e \in Nat
  <2> QED
    BY ONLY <2>2, <2>3
<1>7. x = y
  BY <1>4, <1>6, SeqEqual
<1> QED
  BY <1>1, <1>3, <1>5, <1>7

(* What the first symbols of a longer sequence cover.                      *)
LEMMA UntilOfOneMore ==
  ASSUME NEW d \in Symbols, NEW m \in 0 .. Len(d), NEW x \in [node : Nat, count : Nat]
  PROVE  LET more == Append(SubSeq(d, 1, m), x)
         IN  /\ more \in Symbols /\ Len(more) = m + 1 /\ more[m + 1] = x
             /\ \A p \in 1 .. m : more[p] = d[p]
             /\ \A p \in 0 .. m : Until(more, p) = Until(d, p)
             /\ Covered(more) = Until(d, m) + x.count
<1>1. PICK S : S = [node : Nat, count : Nat]
  OBVIOUS
<1>2. d \in Seq(S) /\ Len(d) \in Nat /\ x \in S
  BY <1>1 DEF Symbols
<1>3. PICK part : part = SubSeq(d, 1, m)
  OBVIOUS
<1>4. part \in Seq(S) /\ Len(part) = m /\ \A p \in 1 .. m : part[p] = d[p]
  BY ONLY <1>2, <1>3, m \in 0 .. Len(d)
<1>5. PICK more : more = Append(part, x)
  OBVIOUS
<1>6. /\ more \in Seq(S) /\ Len(more) = m + 1 /\ more[m + 1] = x
      /\ \A p \in 1 .. m : more[p] = d[p]
  BY ONLY <1>2, <1>4, <1>5
<1>7. ASSUME NEW p \in 0 .. m PROVE Until(more, p) = Until(d, p)
  <2>1. PICK u : u = SubSeq(more, 1, p)
    OBVIOUS
  <2>2. PICK v : v = SubSeq(d, 1, p)
    OBVIOUS
  <2>3. u \in Seq(S) /\ Len(u) = p /\ \A q \in 1 .. p : u[q] = d[q]
    BY <1>2, <1>6, <2>1
  <2>4. v \in Seq(S) /\ Len(v) = p /\ \A q \in 1 .. p : v[q] = d[q]
    BY <1>2, <2>2
  <2>5. u = v
    BY <2>3, <2>4, SeqEqual
  <2> QED
    BY <2>1, <2>2, <2>5 DEF Until
<1>8. Covered(more) = Until(d, m) + x.count
  <2>1. part \in Symbols
    BY <1>1, <1>4 DEF Symbols
  <2>2. Covered(more) = Covered(part) + x.count
    BY <1>5, <2>1, CoveredOneMore
  <2> QED
    BY <1>3, <2>2 DEF Until
<1> QED
  BY <1>1, <1>3, <1>5, <1>6, <1>7, <1>8 DEF Symbols

LEMMA UntilAll ==
  ASSUME NEW d \in Symbols
  PROVE  Len(d) \in Nat /\ Until(d, Len(d)) = Covered(d) /\ Until(d, 0) = 0
<1>1. Len(d) \in Nat /\ SubSeq(d, 1, Len(d)) = d
  BY DEF Symbols
<1>2. PICK zero \in Nat : zero = 0 /\ zero + 1 = 1
  OBVIOUS
<1>3. Covered(SubSeq(d, zero + 1, zero)) = 0
  BY NoPart
<1> QED
  BY <1>1, <1>2, <1>3 DEF Until

LEMMA UntilIsNat ==
  ASSUME NEW d \in Symbols, NEW k \in 0 .. Len(d)
  PROVE  Until(d, k) \in Nat
<1>1. k \in k .. Len(d)
  BY UntilAll
<1> QED
  BY <1>1, CoveredPart

(* What the symbols behind the first m cover.                              *)
IsRest(part, d, m) ==
  /\ part \in Symbols /\ Len(part) = Len(d) - m
  /\ Covered(part) \in Nat /\ Covered(d) = Until(d, m) + Covered(part)
  /\ \A i \in 1 .. Len(d) - m : part[i] = d[m + i]
  /\ \A k \in 0 .. Len(d) - m : Until(d, m + k) = Until(d, m) + Until(part, k)
  /\ \A k \in 0 .. Len(d) : Until(d, k) \in Nat

LEMMA UntilOfPart ==
  ASSUME NEW d \in Symbols, NEW m \in 0 .. Len(d), NEW part, part = SubSeq(d, m + 1, Len(d))
  PROVE  IsRest(part, d, m)
<1>0. PICK S : S = [node : Nat, count : Nat]
  OBVIOUS
<1>1. d \in Seq(S) /\ Len(d) \in Nat /\ m \in Nat /\ m <= Len(d)
  BY <1>0 DEF Symbols
<1>2. part \in Seq(S) /\ Len(part) = Len(d) - m /\ \A i \in 1 .. Len(d) - m : part[i] = d[m + i]
  BY <1>1
<1>3. /\ Covered(part) \in Nat /\ Until(d, Len(d)) = Until(d, m) + Covered(part)
  <2>1. Len(d) \in m .. Len(d)
    BY <1>1
  <2> QED
    BY <2>1, CoveredPart
<1>4. ASSUME NEW k \in 0 .. Len(d) - m PROVE Until(d, m + k) = Until(d, m) + Until(part, k)
  <2>1. PICK e \in m .. Len(d) : e = m + k
    BY <1>1
  <2>2. Until(d, e) = Until(d, m) + Covered(SubSeq(d, m + 1, e))
    BY CoveredPart
  <2>3. k \in Nat /\ m + k <= Len(d)
    BY <1>1
  <2>4. SubSeq(part, 1, k) = SubSeq(d, m + 1, m + k)
    BY <1>1, <2>3, PartOfPart
  <2> QED
    BY <2>1, <2>2, <2>4 DEF Until
<1>5. \A k \in 0 .. Len(d) : Until(d, k) \in Nat
  BY UntilIsNat
<1>6. Covered(d) = Until(d, m) + Covered(part)
  BY <1>3, UntilAll
<1> QED
  BY <1>0, <1>2, <1>3, <1>4, <1>5, <1>6 DEF Symbols, IsRest

(* The node that an action builds of the symbols of its rule.              *)
IsBuilt(x, r, rule, top, answers) ==
  /\ x.first = answers.first[top] /\ x.last = answers.last
  /\ x.parts = [i \in 1 .. rhs(rule) |->
                  [first |-> answers.first[top + i - 1],
                   last |-> IF i >= rhs(rule) THEN answers.last ELSE answers.prior[top + i],
                   node |-> r.parseStack[top + i - 1]]]
  /\ x.derived = SubSeq(r.derived, top, Len(r.derived)) /\ x.taken = answers.taken

LEMMA ActionSees ==
  ASSUME NEW r, NEW n, NEW answers, NEW T, Showing(r, n, answers, T),
         NEW rule, rhs(rule) \in Nat, NEW top \in Nat, top > 0, top = r.top - (rhs(rule) - 1),
         top <= r.top \/ answers.first[top] = T[answers.taken],
         NEW x, IsBuilt(x, r, rule, top, answers)
  PROVE  Saw(x, T)
<1>0. PICK symbols : symbols = SubSeq(r.derived, top, Len(r.derived))
  OBVIOUS
<1>1. PICK d : d = r.derived
  OBVIOUS
<1>2. PICK m \in Nat : m = top - 1 /\ top = m + 1
  OBVIOUS
<1>3. /\ d \in Symbols /\ Len(d) \in Nat /\ Len(d) = r.top /\ m \in 0 .. Len(d)
      /\ rhs(rule) = Len(d) - m
  <2>1. d \in Symbols /\ Len(d) = r.top
    BY <1>1 DEF Showing
  <2>2. Len(d) \in Nat
    BY <2>1, UntilAll
  <2> QED
    BY <1>2, <2>1, <2>2
<1>4. /\ symbols \in Symbols /\ Len(symbols) = Len(d) - m
      /\ Covered(symbols) \in Nat /\ Covered(d) = Until(d, m) + Covered(symbols)
      /\ \A i \in 1 .. Len(d) - m : symbols[i] = d[m + i]
      /\ \A k \in 0 .. Len(d) - m : Until(d, m + k) = Until(d, m) + Until(symbols, k)
      /\ \A k \in 0 .. Len(d) : Until(d, k) \in Nat
  <2>1. symbols = SubSeq(d, m + 1, Len(d))
    BY <1>0, <1>1, <1>2
  <2>2. d \in Symbols /\ m \in 0 .. Len(d)
    BY <1>3
  <2>3. IsRest(symbols, d, m)
    BY ONLY <2>1, <2>2, UntilOfPart
  <2> QED
    BY ONLY <2>3 DEF IsRest
<1>5. PICK start \in Nat : start = Until(d, m)
  BY <1>3, <1>4
<1>6. /\ answers.taken = Covered(d) /\ answers.taken \in Nat
      /\ answers.taken - Covered(symbols) = start
      /\ answers.last = T[answers.taken - 1]
  <2>1. answers.taken = Covered(d) /\ answers.last = T[answers.taken - 1]
    BY <1>1 DEF Showing
  <2> QED
    BY ONLY <1>4, <1>5, <2>1
<1>7. /\ \A p \in 1 .. Len(d) : answers.first[p] = T[Until(d, p - 1)]
      /\ \A p \in 1 .. Len(d) : answers.prior[p] = T[Until(d, p - 1) - 1]
      /\ \A p \in 1 .. Len(d) : d[p].node # 0 => r.parseStack[p] = d[p].node
  BY <1>1, <1>3 DEF Showing, Placed, PlacedBefore, Linked
<1>14. x.first = answers.first[top] /\ x.last = answers.last
  BY DEF IsBuilt
<1>8. x.first = T[start]
  <2>1. CASE top <= r.top
    <3>1. top \in 1 .. Len(d) /\ top - 1 = m
      BY <1>2, <1>3, <2>1
    <3> QED
      BY <1>5, <1>7, <1>14, <3>1
  <2>2. CASE ~(top <= r.top)
    <3>1. m = Len(d)
      BY <1>2, <1>3, <2>2
    <3>2. Until(d, Len(d)) = Covered(d)
      BY <1>3, UntilAll
    <3> QED
      BY <1>5, <1>6, <1>14, <2>2, <3>1, <3>2
  <2> QED
    BY <2>1, <2>2
<1>9. ASSUME NEW i \in 1 .. Len(d) - m
      PROVE  /\ x.parts[i].first = T[start + Until(symbols, i - 1)]
             /\ x.parts[i].last = T[start + Until(symbols, i) - 1]
             /\ symbols[i].node # 0 => x.parts[i].node = symbols[i].node
  <2>1. /\ x.parts[i].first = answers.first[top + i - 1]
        /\ x.parts[i].last = IF i >= rhs(rule) THEN answers.last ELSE answers.prior[top + i]
        /\ x.parts[i].node = r.parseStack[top + i - 1]
    BY <1>3 DEF IsBuilt
  <2>0. PICK l \in Nat : l = Len(d) /\ i \in 1 .. l - m /\ rhs(rule) = l - m
    BY ONLY <1>3, i \in 1 .. Len(d) - m
  <2>2. PICK p \in 1 .. l : p = m + i /\ top + i - 1 = p /\ p - 1 = m + (i - 1)
    BY ONLY <1>2, <2>0, m \in Nat
  <2>3. i - 1 \in 0 .. Len(d) - m /\ i \in 0 .. Len(d) - m
    BY ONLY <2>0, m \in Nat
  <2>4. /\ Until(d, p - 1) = start + Until(symbols, i - 1)
        /\ Until(d, p) = start + Until(symbols, i)
    <3>1. /\ Until(d, m + (i - 1)) = Until(d, m) + Until(symbols, i - 1)
          /\ Until(d, m + i) = Until(d, m) + Until(symbols, i)
      BY <1>4, <2>3
    <3> QED
      BY ONLY <1>5, <2>2, <3>1
  <2>8. PICK before : before = start + Until(symbols, i - 1)
    OBVIOUS
  <2>9. PICK behind \in Nat : behind = start + Until(symbols, i) /\ behind - 1 = start + Until(symbols, i) - 1
    <3>1. Until(symbols, i) \in Nat
      BY ONLY <1>4, <2>3, UntilIsNat
    <3> QED
      BY ONLY <3>1, start \in Nat
  <2>5. x.parts[i].first = T[start + Until(symbols, i - 1)]
    <3>1. answers.first[p] = T[Until(d, p - 1)]
      BY ONLY <1>7, <2>0, p \in 1 .. l
    <3>2. Until(d, p - 1) = before
      BY ONLY <2>4, <2>8
    <3> QED
      BY ONLY <2>1, <2>2, <2>8, <3>1, <3>2
  <2>6. symbols[i].node # 0 => x.parts[i].node = symbols[i].node
    <3>1. symbols[i] = d[p]
      BY ONLY <1>4, <2>2, i \in 1 .. Len(d) - m
    <3>2. d[p].node # 0 => r.parseStack[p] = d[p].node
      BY ONLY <1>7, <2>0, p \in 1 .. l
    <3> QED
      BY ONLY <2>1, <2>2, <3>1, <3>2
  <2>7. x.parts[i].last = T[start + Until(symbols, i) - 1]
    <3>1. CASE i >= rhs(rule)
      <4>1. p = Len(d)
        BY ONLY <2>0, <2>2, <3>1, m \in Nat
      <4>2. Until(d, p) = Covered(d)
        BY <1>3, <4>1, UntilAll
      <4>3. answers.taken = behind
        BY ONLY <1>6, <2>4, <2>9, <4>2
      <4> QED
        BY ONLY <1>6, <2>1, <2>9, <3>1, <4>3
    <3>2. CASE ~(i >= rhs(rule))
      <4>1. PICK q \in 1 .. l : q = p + 1 /\ q = top + i /\ q - 1 = p
        BY ONLY <1>2, <2>0, <2>2, <3>2, m \in Nat
      <4>2. answers.prior[q] = T[Until(d, p) - 1]
        BY ONLY <1>7, <2>0, <4>1
      <4>3. x.parts[i].last = answers.prior[q]
        BY ONLY <2>1, <3>2, <4>1
      <4>4. Until(d, p) = behind
        BY ONLY <2>4, <2>9
      <4> QED
        BY ONLY <2>9, <4>2, <4>3, <4>4
    <3> QED
      BY ONLY <3>1, <3>2
  <2> QED
    BY <2>5, <2>6, <2>7
<1>10. DOMAIN x.parts = 1 .. Len(symbols)
  BY <1>3, <1>4 DEF IsBuilt
<1>11. /\ x.taken - Covered(x.derived) = start /\ x.taken \in Nat /\ x.derived = symbols
       /\ x.last = T[x.taken - 1]
  BY <1>0, <1>6, <1>14 DEF IsBuilt
<1>12. Len(x.derived) = Len(d) - m /\ x.derived \in Symbols
  BY <1>4, <1>11
<1>13. /\ x.taken - Covered(x.derived) = start
       /\ \A i \in 1 .. Len(x.derived) :
            /\ x.parts[i].first = T[start + Until(x.derived, i - 1)]
            /\ x.parts[i].last = T[start + Until(x.derived, i) - 1]
            /\ x.derived[i].node # 0 => x.parts[i].node = x.derived[i].node
  BY ONLY <1>4, <1>9, <1>11
<1> QED
  BY ONLY <1>8, <1>10, <1>11, <1>12, <1>13 DEF Saw

LEMMA OneMoreSaw ==
  ASSUME NEW built, NEW T, AllSaw(built, T), NEW x, Saw(x, T)
  PROVE  AllSaw(Append(built, x), T) /\ Len(built) \in Nat
<1>1. PICK S : built \in Seq(S) /\ \A y \in S : Saw(y, T)
  BY DEF AllSaw
<1>2. PICK more : more = S \cup {x}
  OBVIOUS
<1>3. built \in Seq(more)
  <2>1. S \subseteq more
    BY <1>2
  <2> QED
    BY <1>1, <2>1, SeqMonotonic
<1>4. x \in more /\ \A y \in more : Saw(y, T)
  BY <1>1, <1>2
<1>5. Append(built, x) \in Seq(more) /\ Len(built) \in Nat
  BY ONLY <1>3, <1>4
<1> QED
  BY <1>4, <1>5 DEF AllSaw

(* An action of a rule whose right-hand side is on top shows the next what *)
(* is there.                                                               *)
LEMMA RunRuleShows ==
  ASSUME NEW r, NEW n \in Nat, NEW answers, NEW T, Showing(r, n, answers, T),
         NEW rule, rhs(rule) \in Nat, NEW top \in 1 .. n, top = r.top - (rhs(rule) - 1),
         \/ top <= r.top
         \/ answers.first[top] = T[answers.taken] /\ answers.prior[top] = T[answers.taken - 1],
         NEW next, next = RunRule(r, rule, answers)
  PROVE  next.top = top /\ Showing(next, n, answers, T)
<1>1. PICK d : d = r.derived
  OBVIOUS
<1>2. PICK m \in Nat : m = top - 1 /\ top = m + 1
  OBVIOUS
<1>3. PICK symbols : symbols = SubSeq(d, top, Len(d))
  OBVIOUS
<1>4. PICK x : x = [rule |-> rule,
                    first |-> answers.first[top],
                    last |-> answers.last,
                    parts |-> [i \in 1 .. rhs(rule) |->
                                 [first |-> answers.first[top + i - 1],
                                  last |-> IF i >= rhs(rule) THEN answers.last
                                           ELSE answers.prior[top + i],
                                  node |-> r.parseStack[top + i - 1]]],
                    derived |-> symbols,
                    taken |-> answers.taken]
  OBVIOUS
<1>5. PICK id : id = Len(r.nodes) + 1
  OBVIOUS
<1>6. PICK symbol : symbol = [node |-> id, count |-> Covered(symbols)]
  OBVIOUS
<1>7. PICK parse : parse = [r.parseStack EXCEPT ![top] = id]
  OBVIOUS
<1>8. PICK more : more = Append(SubSeq(d, 1, m), symbol)
  OBVIOUS
<1>9. /\ next.top = top /\ next.parseStack = parse /\ next.nodes = Append(r.nodes, x)
      /\ next.derived = more
  <2>1. SubSeq(d, 1, top - 1) = SubSeq(d, 1, m)
    BY <1>2
  <2>2. next = Shown(top, parse, Append(r.nodes, x), more)
    BY ONLY <1>1, <1>3, <1>4, <1>5, <1>6, <1>7, <1>8, <2>1, next = RunRule(r, rule, answers),
            top = r.top - (rhs(rule) - 1) DEF RunRule
  <2> QED
    BY ONLY <2>2 DEF Shown
<1>10. /\ d \in Symbols /\ Len(d) \in Nat /\ Len(d) = r.top /\ m \in 0 .. Len(d)
       /\ Covered(d) = answers.taken /\ answers.last = T[answers.taken - 1]
       /\ n <= Len(r.parseStack)
       /\ Placed(answers.first, d, r.top, T) /\ PlacedBefore(answers.prior, d, r.top, T)
       /\ Linked(r.parseStack, d) /\ AllSaw(r.nodes, T)
  <2>1. /\ d \in Symbols /\ Len(d) = r.top
        /\ Covered(d) = answers.taken /\ answers.last = T[answers.taken - 1]
        /\ n <= Len(r.parseStack)
        /\ Placed(answers.first, d, r.top, T) /\ PlacedBefore(answers.prior, d, r.top, T)
        /\ Linked(r.parseStack, d) /\ AllSaw(r.nodes, T)
    BY <1>1 DEF Showing
  <2>2. Len(d) \in Nat
    BY <2>1, UntilAll
  <2> QED
    BY <1>2, <2>1, <2>2
<1>11. Saw(x, T)
  <2>2. top \in Nat /\ top > 0
    OBVIOUS
  <2> QED
    <3>1. IsBuilt(x, r, rule, top, answers)
      BY ONLY <1>1, <1>3, <1>4 DEF IsBuilt
    <3>2. top <= r.top \/ answers.first[top] = T[answers.taken]
      OBVIOUS
    <3> QED
      BY ONLY <2>2, <3>1, <3>2, ActionSees, Showing(r, n, answers, T),
              rhs(rule) \in Nat, top = r.top - (rhs(rule) - 1)
<1>12. AllSaw(next.nodes, T) /\ id \in Nat /\ id # 0
  <2>1. AllSaw(r.nodes, T)
    BY <1>10
  <2> QED
    BY ONLY <1>5, <1>9, <1>11, <2>1, OneMoreSaw
<1>13. Covered(symbols) \in Nat /\ Covered(d) = Until(d, m) + Covered(symbols)
  <2>1. symbols = SubSeq(d, m + 1, Len(d))
    BY <1>2, <1>3
  <2>2. IsRest(symbols, d, m)
    BY ONLY <1>10, <2>1, UntilOfPart
  <2> QED
    BY ONLY <2>2 DEF IsRest
<1>14. /\ more \in Symbols /\ Len(more) = top /\ more[top] = symbol
       /\ \A p \in 1 .. m : more[p] = d[p]
       /\ \A p \in 0 .. m : Until(more, p) = Until(d, p)
       /\ Covered(more) = answers.taken
  <2>1. symbol \in [node : Nat, count : Nat] /\ symbol.count = Covered(symbols)
    BY <1>6, <1>12, <1>13
  <2> QED
    BY ONLY <1>2, <1>8, <1>10, <1>13, <2>1, UntilOfOneMore
<1>16. Placed(answers.first, more, top, T)
  <2>1. ASSUME NEW p \in 1 .. top PROVE answers.first[p] = T[Until(more, p - 1)]
    <3>1. CASE p \in 1 .. r.top
      <4>1. p - 1 \in 0 .. m
        BY <1>2
      <4>2. answers.first[p] = T[Until(d, p - 1)]
        BY <1>10, <3>1 DEF Placed
      <4> QED
        BY <1>14, <4>1, <4>2
    <3>2. CASE ~(p \in 1 .. r.top)
      <4>1. p = top /\ m = Len(d) /\ p - 1 = m /\ ~(top <= r.top)
        <5>1. PICK l \in Nat : l = Len(d) /\ l = r.top /\ m \in 0 .. l
          BY <1>10
        <5> QED
          BY ONLY <1>2, <3>2, <5>1, m \in Nat, p \in 1 .. top
      <4>2. Until(d, m) = answers.taken
        BY <1>10, <4>1, UntilAll
      <4>3. Until(more, p - 1) = answers.taken
        BY <1>10, <1>14, <4>1, <4>2
      <4> QED
        BY <4>1, <4>3
    <3> QED
      BY <3>1, <3>2
  <2> QED
    BY <2>1 DEF Placed
<1>17. PlacedBefore(answers.prior, more, top, T)
  <2>1. ASSUME NEW p \in 1 .. top PROVE answers.prior[p] = T[Until(more, p - 1) - 1]
    <3>1. CASE p \in 1 .. r.top
      <4>1. p - 1 \in 0 .. m
        BY <1>2
      <4>2. answers.prior[p] = T[Until(d, p - 1) - 1]
        BY <1>10, <3>1 DEF PlacedBefore
      <4> QED
        BY <1>14, <4>1, <4>2
    <3>2. CASE ~(p \in 1 .. r.top)
      <4>1. p = top /\ m = Len(d) /\ p - 1 = m /\ ~(top <= r.top)
        <5>1. PICK l \in Nat : l = Len(d) /\ l = r.top /\ m \in 0 .. l
          BY <1>10
        <5> QED
          BY ONLY <1>2, <3>2, <5>1, m \in Nat, p \in 1 .. top
      <4>2. Until(d, m) = answers.taken
        BY <1>10, <4>1, UntilAll
      <4>3. Until(more, p - 1) = answers.taken
        BY <1>10, <1>14, <4>1, <4>2
      <4> QED
        BY <4>1, <4>3
    <3> QED
      BY <3>1, <3>2
  <2> QED
    BY <2>1 DEF PlacedBefore
<1>18. Linked(parse, more) /\ n <= Len(parse)
  <2>1. /\ r.parseStack \in Seq(Int) /\ Len(r.parseStack) \in Nat
        /\ \A p \in 1 .. Len(d) : d[p].node # 0 => r.parseStack[p] = d[p].node
    BY <1>10 DEF Linked
  <2>2. /\ parse \in Seq(Int) /\ Len(parse) = Len(r.parseStack)
        /\ parse[top] = id
        /\ \A p \in 1 .. m : parse[p] = r.parseStack[p]
    <3>1. top \in 1 .. Len(r.parseStack) /\ id \in Int /\ m < top /\ m < Len(r.parseStack)
      BY <1>2, <1>10, <1>12, <2>1
    <3> QED
      BY ONLY <1>7, <2>1, <3>1, m \in Nat
  <2>3. ASSUME NEW p \in 1 .. top, more[p].node # 0 PROVE parse[p] = more[p].node
    <3>1. CASE p = top
      BY <1>6, <1>14, <2>2, <3>1
    <3>2. CASE p # top
      <4>1. p \in 1 .. m /\ p \in 1 .. Len(d)
        BY <1>2, <1>10, <3>2
      <4> QED
        BY <1>14, <2>1, <2>2, <2>3, <4>1
    <3> QED
      BY <3>1, <3>2
  <2>4. Len(more) <= Len(parse) /\ n <= Len(parse)
    BY <1>10, <1>14, <2>1, <2>2
  <2> QED
    BY <1>14, <2>2, <2>3, <2>4 DEF Linked
<1> QED
  BY <1>9, <1>10, <1>12, <1>14, <1>16, <1>17, <1>18 DEF Showing

(* What is shown after some rules have run: the stack is left up to left.  *)
ShowingAfter(left, rules, shown, n, answers, T) ==
  /\ RunRules(shown, rules, answers).top = left
  /\ Showing(RunRules(shown, rules, answers), n, answers, T)

LEMMA OneMoreRuleShows ==
  ASSUME NEW shown, NEW n \in Nat, NEW answers, NEW T, NEW left \in 1 .. n,
         NEW rules \in Seq(0 .. NUM_RULES), ShowingAfter(left, rules, shown, n, answers, T),
         NEW rule \in 0 .. NUM_RULES, rhs(rule) \in Nat,
         NEW top \in 1 .. left, top = left - (rhs(rule) - 1)
  PROVE  ShowingAfter(top, Append(rules, rule), shown, n, answers, T)
<1>1. PICK r : r = RunRules(shown, rules, answers)
  OBVIOUS
<1>2. PICK next : next = RunRule(r, rule, answers)
  OBVIOUS
<1>3. Showing(r, n, answers, T) /\ r.top = left
  BY <1>1 DEF ShowingAfter
<1>4. top \in 1 .. n /\ top = r.top - (rhs(rule) - 1) /\ top <= r.top
  BY <1>3
<1>5. next.top = top /\ Showing(next, n, answers, T)
  BY ONLY <1>2, <1>3, <1>4, n \in Nat, rhs(rule) \in Nat, RunRuleShows
<1>6. RunRules(shown, Append(rules, rule), answers) = next
  BY <1>1, <1>2, RunRulesOneMore
<1> QED
  BY <1>5, <1>6 DEF ShowingAfter

(* The first symbol of a rule is on the stack, or it is empty, and what is *)
(* answered there are the tokens around its place.                         *)
Told(answers, left, top, T) ==
  \/ left <= top
  \/ answers.first[left] = T[answers.taken] /\ answers.prior[left] = T[answers.taken - 1]

(* What is left of the stack, and the state to go on in.                   *)
Reaches(run, s, top, rule) == <<run.shown.top, run.act>> = Reached(s, top, rule)

RunShows(run, s, top, rule, left, ends, answers, T) ==
  /\ run.shown.top \in 1 .. left /\ Showing(run.shown, Len(s), answers, T)
  /\ run.shown.top = RulesOf(s, top, rule, ends).top
  /\ ends = {} => Reaches(run, s, top, rule)

(* The actions of a rule whose right-hand side is on top, and of those     *)
(* that it sets off: every one is shown what is there, and what is left of *)
(* the stack is what the table leaves of it.                               *)
LEMMA ProcessReductionsShow ==
  ASSUME NEW a, IsAutomaton(a), NEW s, IsViable(a, s), NEW ends,
         NEW shown, NEW answers, NEW T, Showing(shown, Len(s), answers, T),
         NEW p, NEW top, top = shown.top, NEW rule, NEW left, OnTop(a, s, p, top, rule, left),
         Told(answers, left, top, T),
         NEW run, run = process_reductions(s, shown, rule, answers, ends)
  PROVE  left \in 1 .. p /\ RunShows(run, s, top, rule, left, ends, answers, T)
<1>1. PICK n \in Nat : n = Len(s)
  BY DEF IsViable
<1>2. \A r \in 0 .. NUM_RULES : rhs(r) \in Nat
  BY DEF IsAutomaton, AutomatonTypes
<1>3. /\ left \in 1 .. n /\ rule \in 0 .. NUM_RULES
      /\ left \in Int /\ left = top - (rhs(rule) - 1)
  <2>1. /\ p \in 1 .. n /\ rule \in 0 .. NUM_RULES
        /\ left \in Int /\ left = top - (rhs(rule) - 1)
        /\ <<s[p], p - left, lhs(rule)>> \in a.items
    BY <1>1 DEF OnTop
  <2>2. PICK k : k = p - left
    OBVIOUS
  <2>3. k \in Nat /\ p - k \in 1 .. p
    BY <1>1, <2>1, <2>2, ItemsBegin
  <2> QED
    BY <1>1, <2>1, <2>2, <2>3
<1>4. PICK rules : rules = <<rule>>
  OBVIOUS
<1>5. rules \in Seq(0 .. NUM_RULES)
  <2>1. Append(<< >>, rule) \in Seq(0 .. NUM_RULES) /\ Append(<< >>, rule) = <<rule>>
    BY <1>3
  <2> QED
    BY <1>4, <2>1
<1>6. ShowingAfter(left, rules, shown, n, answers, T)
  <2>1. PICK next : next = RunRule(shown, rule, answers)
    OBVIOUS
  <2>2. RunRules(shown, rules, answers) = next
    BY <1>3, <1>4, <2>1, RunRulesOfOne
  <2>3. rhs(rule) \in Nat /\ Showing(shown, n, answers, T)
    BY <1>1, <1>2, <1>3
  <2>4. next.top = left /\ Showing(next, n, answers, T)
    <3>1. \/ left <= top
          \/ answers.first[left] = T[answers.taken] /\ answers.prior[left] = T[answers.taken - 1]
      BY DEF Told
    <3> QED
      BY ONLY <1>3, <2>1, <2>3, <3>1, n \in Nat, top = shown.top, RunRuleShows
  <2> QED
    BY <2>2, <2>4 DEF ShowingAfter
<1>7. PICK Q : Q = {x \in Int \X Seq(0 .. NUM_RULES) :
                      ShowingAfter(x[1], x[2], shown, n, answers, T)}
  OBVIOUS
<1>8. ASSUME NEW l \in Int, NEW xs \in Seq(0 .. NUM_RULES)
      PROVE  <<l, xs>> \in Q <=> ShowingAfter(l, xs, shown, n, answers, T)
  <2>1. PICK x : x = <<l, xs>>
    OBVIOUS
  <2>2. x \in Int \X Seq(0 .. NUM_RULES) /\ x[1] = l /\ x[2] = xs
    BY <2>1
  <2> QED
    BY <1>7, <2>1, <2>2
<1>9. RulesStay(Q, Len(s))
  <2>1. SUFFICES ASSUME NEW l \in 1 .. n, NEW xs \in Seq(0 .. NUM_RULES),
                        NEW act \in 0 .. NUM_RULES, <<l, xs>> \in Q,
                        l - (rhs(act) - 1) \in 1 .. l
                 PROVE  <<l - (rhs(act) - 1), Append(xs, act)>> \in Q
    BY <1>1 DEF RulesStay
  <2>2. PICK lower \in 1 .. l : lower = l - (rhs(act) - 1)
    BY <2>1
  <2>3. ShowingAfter(l, xs, shown, n, answers, T) /\ rhs(act) \in Nat
    BY <1>2, <1>8, <2>1
  <2>4. ShowingAfter(lower, Append(xs, act), shown, n, answers, T)
    BY ONLY <2>1, <2>2, <2>3, n \in Nat, OneMoreRuleShows
  <2>5. lower \in Int /\ Append(xs, act) \in Seq(0 .. NUM_RULES)
    OBVIOUS
  <2>6. <<lower, Append(xs, act)>> \in Q
    BY <1>8, <2>4, <2>5
  <2> QED
    BY <2>2, <2>6
<1>10. <<left, <<rule>>>> \in Q
  BY <1>3, <1>4, <1>5, <1>6, <1>8
<1>11. PICK r : r = RulesOf(s, top, rule, ends)
  OBVIOUS
<1>12. left \in 1 .. p /\ EndsWithin(r, Q, ends, left, Reached(s, top, rule))
  <2>1. BeginsWith(Q, left, rule)
    BY <1>10 DEF BeginsWith
  <2> QED
    BY ONLY <1>9, <1>11, <2>1, IsAutomaton(a), IsViable(a, s), OnTop(a, s, p, top, rule, left),
            RulesOfStays
<1>13. ShowingAfter(r.top, r.rules, shown, n, answers, T)
  <2>1. PICK x : x = <<r.top, r.rules>>
    OBVIOUS
  <2>2. x \in Q /\ x[1] = r.top /\ x[2] = r.rules
    BY <1>12, <2>1 DEF EndsWithin
  <2> QED
    BY <1>7, <2>2
<1>14. run.shown = RunRules(shown, r.rules, answers) /\ run.act = r.act
  BY <1>11 DEF process_reductions
<1> QED
  BY <1>1, <1>11, <1>12, <1>13, <1>14 DEF ShowingAfter, EndsWithin, Reaches, RunShows

(* parseStack has room for one state more, and the nodes stay where they   *)
(* are; a terminal has none.                                               *)
LEMMA RoomIsMade ==
  ASSUME NEW d \in Symbols, NEW parse, Linked(parse, d), NEW s, Len(s) = Len(d) + 1,
         NEW room, room = WithRoom(parse, s)
  PROVE  /\ Len(s) <= Len(room) /\ Linked(room, d)
         /\ Append(d, Terminal) \in Symbols /\ Len(Append(d, Terminal)) = Len(s)
         /\ Covered(Append(d, Terminal)) = Covered(d) + 1
         /\ \A p \in 0 .. Len(d) : Until(Append(d, Terminal), p) = Until(d, p)
         /\ Linked(room, Append(d, Terminal))
<1>1. PICK n \in Nat : n = Len(d)
  BY UntilAll
<1>2. /\ parse \in Seq(Int) /\ n <= Len(parse)
      /\ \A p \in 1 .. n : d[p].node # 0 => parse[p] = d[p].node
  BY <1>1 DEF Linked
<1>3. /\ room \in Seq(Int) /\ n + 1 <= Len(room)
      /\ \A p \in 1 .. n : room[p] = parse[p]
  <2>1. PICK l \in Nat : l = Len(parse)
    BY <1>2
  <2>2. CASE n + 1 <= l
    <3>1. room = parse
      BY <1>1, <2>1, <2>2 DEF WithRoom
    <3> QED
      BY ONLY <1>2, <2>1, <2>2, <3>1
  <2>3. CASE ~(n + 1 <= l)
    <3>1. PICK unset \in Int : unset = UNSET
      BY DEF UNSET
    <3>2. room = Append(parse, unset)
      BY <1>1, <2>1, <2>3, <3>1 DEF WithRoom
    <3> QED
      BY ONLY <1>2, <2>1, <2>3, <3>2, n \in Nat, unset \in Int
  <2> QED
    BY <2>2, <2>3
<1>4. Linked(room, d)
  <2>1. \A p \in 1 .. n : d[p].node # 0 => room[p] = d[p].node
    BY <1>2, <1>3
  <2>2. n <= Len(room)
    BY <1>3
  <2> QED
    BY <1>1, <1>3, <2>1, <2>2 DEF Linked
<1>5. PICK x : x = Terminal
  OBVIOUS
<1>6. x \in [node : Nat, count : Nat] /\ x.node = 0 /\ x.count = 1
  BY <1>5 DEF Terminal
<1>7. PICK more : more = Append(d, x)
  OBVIOUS
<1>8. /\ more \in Symbols /\ Len(more) = n + 1 /\ more[n + 1] = x
      /\ \A p \in 1 .. n : more[p] = d[p]
      /\ \A p \in 0 .. n : Until(more, p) = Until(d, p)
      /\ Covered(more) = Covered(d) + 1
  <2>1. SubSeq(d, 1, n) = d /\ n \in 0 .. Len(d)
    BY <1>1 DEF Symbols
  <2>2. Until(d, n) = Covered(d)
    BY <1>1, UntilAll
  <2>3. more = Append(SubSeq(d, 1, n), x)
    BY <1>7, <2>1
  <2>4. /\ more \in Symbols /\ Len(more) = n + 1 /\ more[n + 1] = x
        /\ \A p \in 1 .. n : more[p] = d[p]
        /\ \A p \in 0 .. n : Until(more, p) = Until(d, p)
        /\ Covered(more) = Until(d, n) + x.count
    BY ONLY <1>6, <2>1, <2>3, d \in Symbols, UntilOfOneMore
  <2> QED
    BY <1>6, <2>2, <2>4
<1>9. Linked(room, more)
  <2>1. ASSUME NEW p \in 1 .. n + 1, more[p].node # 0 PROVE room[p] = more[p].node
    <3>1. CASE p = n + 1
      BY <1>6, <1>8, <2>1, <3>1
    <3>2. CASE p # n + 1
      <4>1. p \in 1 .. n
        BY <3>2
      <4> QED
        BY <1>2, <1>3, <1>8, <2>1, <4>1
    <3> QED
      BY <3>1, <3>2
  <2> QED
    BY <1>3, <1>8, <2>1 DEF Linked
<1> QED
  BY <1>1, <1>3, <1>4, <1>5, <1>7, <1>8, <1>9

=============================================================================
