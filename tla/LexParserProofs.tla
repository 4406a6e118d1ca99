--------------------------- MODULE LexParserProofs --------------------------
(***************************************************************************)
(* For every table that is made of an automaton, and every text and call:  *)
(* the reductions that a scanner simulates in tempStack are the ones that  *)
(* lexNextToken's log records and parseNextCharacter carries out, so that  *)
(* what it takes a character on is the stack it has simulated; and the     *)
(* rule actions see the characters and the nodes of their symbols; and the *)
(* items and the errors cover the text, one right behind the other.        *)
(***************************************************************************)
EXTENDS LexParser, ParseTableProofs

(* The recursive function in Stopped.                                      *)
StoppedFrom(f, s) ==
  f = [at \in Int \X (0 .. NUM_RULES) |->
         LET act == ntAction(s[at[1]], lhs(at[2]))
         IN  IF lhs(at[2]) = START_SYMBOL THEN at
             ELSE IF IsReduce(act) THEN f[<<at[1] - (rhs(act) - 1), act>>]
             ELSE <<at[1], act>>]

LEMMA StoppedIsChosen ==
  ASSUME NEW s, NEW top, NEW rule
  PROVE  Stopped(s, top, rule) =
           (CHOOSE f : StoppedFrom(f, s))[<<top - (rhs(rule) - 1), rule>>]
BY DEF Stopped, StoppedFrom

LEMMA StoppedRuns ==
  ASSUME NEW s, \A rule \in 0 .. NUM_RULES : rhs(rule) \in Nat
  PROVE  \E f : StoppedFrom(f, s)
<1>1. PICK D : D = Int \X (0 .. NUM_RULES)
  OBVIOUS
<1> DEFINE Act(x) == ntAction(s[x[1]], lhs(x[2]))
           Left(x) == x[1] - (rhs(Act(x)) - 1)
<1>2. PICK C : C = {x \in D : lhs(x[2]) # START_SYMBOL /\ IsReduce(Act(x))}
  OBVIOUS
<1>3. PICK next : next = [x \in D |-> <<Left(x), Act(x)>>]
  OBVIOUS
<1>4. \A x \in D : next[x] = <<Left(x), Act(x)>>
  BY <1>3
<1>5. \A x \in C : next[x] \in D
  <2>1. SUFFICES ASSUME NEW x \in C PROVE next[x] \in D
    OBVIOUS
  <2>2. x \in D /\ IsReduce(Act(x))
    BY <1>2
  <2>3. Act(x) \in 0 .. NUM_RULES
    BY <2>2 DEF IsReduce
  <2>4. Left(x) \in Int
    <3>1. rhs(Act(x)) \in Nat
      BY <2>3
    <3>2. x[1] \in Int
      BY <1>1, <2>2
    <3> HIDE DEF Act
    <3> QED
      BY <3>1, <3>2
  <2> HIDE DEF Left, Act
  <2> QED
    BY <1>1, <1>4, <2>2, <2>3, <2>4
<1>6. C \in SUBSET D
  BY <1>2
<1>7. PICK last : last = [x \in D |-> IF lhs(x[2]) = START_SYMBOL THEN x ELSE <<x[1], Act(x)>>]
  OBVIOUS
<1>8. PICK f : Follows(f, D, C, next, last)
  <2>1. IsTail(D, C, next, last)
    BY <1>5, <1>6 DEF IsTail
  <2> QED
    BY ONLY <2>1, TailRecursion
<1>9. StoppedFrom(f, s)
  BY <1>1, <1>2, <1>4, <1>7, <1>8 DEF StoppedFrom, Follows
<1> QED
  BY <1>9

(* One turn of the reductions, as far as a rule for START_SYMBOL.          *)
LEMMA StoppedTurns ==
  ASSUME NEW s, \A r \in 0 .. NUM_RULES : rhs(r) \in Nat,
         NEW top \in Int, NEW rule \in 0 .. NUM_RULES,
         NEW left, left = top - (rhs(rule) - 1), NEW act, act = ntAction(s[left], lhs(rule))
  PROVE  Stopped(s, top, rule) = IF lhs(rule) = START_SYMBOL THEN <<left, rule>>
                                 ELSE IF IsReduce(act) THEN Stopped(s, left, act)
                                 ELSE <<left, act>>
<1>1. PICK f : f = CHOOSE g : StoppedFrom(g, s)
  OBVIOUS
<1>2. StoppedFrom(f, s)
  BY <1>1, StoppedRuns
<1>3. \A t, r : Stopped(s, t, r) = f[<<t - (rhs(r) - 1), r>>]
  BY <1>1, StoppedIsChosen
<1>4. left \in Int
  OBVIOUS
<1>5. PICK x : x = <<left, rule>>
  OBVIOUS
<1>6. x \in Int \X (0 .. NUM_RULES) /\ x[1] = left /\ x[2] = rule
  BY <1>4, <1>5
<1>7. f[x] = IF lhs(rule) = START_SYMBOL THEN x
             ELSE IF IsReduce(act) THEN f[<<left - (rhs(act) - 1), act>>] ELSE <<left, act>>
  BY <1>2, <1>6 DEF StoppedFrom
<1> QED
  BY <1>3, <1>5, <1>7

(* Where the reductions stop: with a rule for START_SYMBOL where one       *)
(* begins, or where they reach a state.                                    *)
StopsWell(a, s, left, r, reached) ==
  /\ r = <<r[1], r[2]>> /\ r[1] \in 1 .. left
  /\ IF IsReduce(r[2]) THEN <<s[r[1]], 0, START_SYMBOL>> \in a.items ELSE r = reached

Stops(a, s, left, nt) ==
  \A top \in Int, rule \in 0 .. NUM_RULES :
    left = top - (rhs(rule) - 1) /\ nt = lhs(rule) =>
      StopsWell(a, s, left, Stopped(s, top, rule), Reached(s, top, rule))

LEMMA TurnsStop ==
  ASSUME NEW a, IsAutomaton(a), NEW s, IsViable(a, s)
  PROVE  \A left \in 1 .. Len(s) : \A nt :
           <<s[left], 0, nt>> \in a.items => Stops(a, s, left, nt)
<1>1. PICK P : P = {x \in (1 .. Len(s)) \X {it[3] : it \in a.items} : Stops(a, s, x[1], x[2])}
  OBVIOUS
<1>2. ASSUME NEW l \in 1 .. Len(s), NEW nt, <<s[l], 0, nt>> \in a.items
      PROVE  <<l, nt>> \in P <=> Stops(a, s, l, nt)
  <2>1. nt \in {it[3] : it \in a.items}
    <3>1. PICK it : it = <<s[l], 0, nt>>
      OBVIOUS
    <3>2. it \in a.items /\ it[3] = nt
      BY <1>2, <3>1
    <3> QED
      BY <3>2
  <2>2. PICK x : x = <<l, nt>>
    OBVIOUS
  <2>3. x \in (1 .. Len(s)) \X {it[3] : it \in a.items} /\ x[1] = l /\ x[2] = nt
    BY <2>1, <2>2
  <2> QED
    BY <1>1, <2>2, <2>3
<1>3. ASSUME NEW l \in 1 .. Len(s), NEW nt, NEW act, act = ntAction(s[l], nt),
             <<s[l], 0, nt>> \in a.items, NEW left, left = l - (rhs(act) - 1),
             IF IsReduce(act)
             THEN /\ left \in 1 .. l /\ <<s[left], 0, lhs(act)>> \in a.items
                  /\ <<left, lhs(act)>> \in P
             ELSE <<s[l], act>> \in a.edges
      PROVE  <<l, nt>> \in P
  <2>1. SUFFICES ASSUME NEW top \in Int, NEW rule \in 0 .. NUM_RULES,
                        l = top - (rhs(rule) - 1), nt = lhs(rule)
                 PROVE  StopsWell(a, s, l, Stopped(s, top, rule), Reached(s, top, rule))
    BY <1>2, <1>3 DEF Stops
  <2>2. \A r \in 0 .. NUM_RULES : rhs(r) \in Nat
    BY DEF IsAutomaton, AutomatonTypes
  <2>3. PICK here : here = Stopped(s, top, rule)
    OBVIOUS
  <2>4. here = IF nt = START_SYMBOL THEN <<l, rule>>
               ELSE IF IsReduce(act) THEN Stopped(s, l, act)
               ELSE <<l, act>>
    BY <1>3, <2>1, <2>2, <2>3, StoppedTurns
  <2>5. PICK there : there = Reached(s, top, rule)
    OBVIOUS
  <2>6. there = IF IsReduce(act) THEN Reached(s, l, act) ELSE <<l, act>>
    <3>1. there = Turned(s, l, nt)
      BY <2>1, <2>2, <2>5, ReachedTurns
    <3> QED
      BY <1>3, <3>1 DEF Turned
  <2>7. l \in 1 .. l
    OBVIOUS
  <2>8. CASE nt = START_SYMBOL
    <3>1. here = <<l, rule>> /\ IsReduce(rule)
      BY <2>4, <2>8 DEF IsReduce
    <3>2. <<s[here[1]], 0, START_SYMBOL>> \in a.items
      BY <1>3, <2>8, <3>1
    <3> QED
      BY <2>3, <2>7, <3>1, <3>2 DEF StopsWell
  <2>9. CASE nt # START_SYMBOL /\ ~IsReduce(act)
    BY <2>3, <2>4, <2>5, <2>6, <2>7, <2>9 DEF StopsWell
  <2>10. CASE nt # START_SYMBOL /\ IsReduce(act)
    <3>1. act \in 0 .. NUM_RULES /\ left \in 1 .. Len(s) /\ left \in 1 .. l
      BY <1>3, <2>10 DEF IsReduce, IsViable
    <3>2. Stops(a, s, left, lhs(act))
      BY <1>2, <1>3, <2>10, <3>1
    <3>3. l \in Int /\ here = Stopped(s, l, act) /\ there = Reached(s, l, act)
      BY <2>4, <2>6, <2>10
    <3>4. StopsWell(a, s, left, here, there)
      BY <1>3, <3>1, <3>2, <3>3 DEF Stops
    <3>5. here[1] \in 1 .. l
      BY <3>1, <3>4 DEF StopsWell
    <3> QED
      BY <2>3, <2>5, <3>4, <3>5 DEF StopsWell
  <2> QED
    BY <2>8, <2>9, <2>10
<1>4. TurnsClosed(a, s, P)
  BY <1>3 DEF TurnsClosed
<1>5. \A left \in 1 .. Len(s) : \A nt :
        <<s[left], 0, nt>> \in a.items => <<left, nt>> \in P
  BY ONLY <1>4, IsAutomaton(a), IsViable(a, s), TurnInduction
<1> QED
  BY <1>2, <1>5

LEMMA StoppedArrives ==
  ASSUME NEW a, IsAutomaton(a), NEW s, IsViable(a, s), NEW p \in 1 .. Len(s),
         NEW top \in Int, NEW rule \in 0 .. NUM_RULES, NEW left \in Int,
         left = top - (rhs(rule) - 1), NEW nt, nt = lhs(rule),
         <<s[p], p - left, nt>> \in a.items
  PROVE  /\ left \in 1 .. p
         /\ StopsWell(a, s, left, Stopped(s, top, rule), Reached(s, top, rule))
<1>1. p - (p - left) \in 1 .. p /\ <<s[p - (p - left)], 0, nt>> \in a.items
  BY ItemsBegin
<1>2. p - (p - left) = left
  OBVIOUS
<1>3. left \in 1 .. Len(s) /\ left \in 1 .. p /\ <<s[left], 0, nt>> \in a.items
  <2>1. Len(s) \in Nat
    BY ONLY IsViable(a, s), LenProperties DEF IsViable
  <2>2. left \in 1 .. p /\ <<s[left], 0, nt>> \in a.items
    BY ONLY <1>1, <1>2
  <2>3. left \in 1 .. Len(s)
    BY ONLY <2>1, <2>2, p \in 1 .. Len(s)
  <2> QED
    BY ONLY <2>2, <2>3
<1>4. Stops(a, s, left, nt)
  BY <1>3, TurnsStop
<1> QED
  BY <1>3, <1>4 DEF Stops

(* The rules whose actions run are those as far as the reductions stop.    *)
StopAlike(s, left, nt) ==
  \A top \in Int, rule \in 0 .. NUM_RULES, rules \in Seq(0 .. NUM_RULES) :
    left = top - (rhs(rule) - 1) /\ nt = lhs(rule) =>
      RulesOn(s, {START_SYMBOL}, left, rule, rules).top = Stopped(s, top, rule)[1]

LEMMA TurnsStopAlike ==
  ASSUME NEW a, IsAutomaton(a), NEW s, IsViable(a, s)
  PROVE  \A left \in 1 .. Len(s) : \A nt :
           <<s[left], 0, nt>> \in a.items => StopAlike(s, left, nt)
<1>1. PICK P : P = {x \in (1 .. Len(s)) \X {it[3] : it \in a.items} : StopAlike(s, x[1], x[2])}
  OBVIOUS
<1>2. ASSUME NEW l \in 1 .. Len(s), NEW nt, <<s[l], 0, nt>> \in a.items
      PROVE  <<l, nt>> \in P <=> StopAlike(s, l, nt)
  <2>1. nt \in {it[3] : it \in a.items}
    <3>1. PICK it : it = <<s[l], 0, nt>>
      OBVIOUS
    <3>2. it \in a.items /\ it[3] = nt
      BY <1>2, <3>1
    <3> QED
      BY <3>2
  <2>2. PICK x : x = <<l, nt>>
    OBVIOUS
  <2>3. x \in (1 .. Len(s)) \X {it[3] : it \in a.items} /\ x[1] = l /\ x[2] = nt
    BY <2>1, <2>2
  <2> QED
    BY <1>1, <2>2, <2>3
<1>3. ASSUME NEW l \in 1 .. Len(s), NEW nt, NEW act, act = ntAction(s[l], nt),
             <<s[l], 0, nt>> \in a.items, NEW left, left = l - (rhs(act) - 1),
             IF IsReduce(act)
             THEN /\ left \in 1 .. l /\ <<s[left], 0, lhs(act)>> \in a.items
                  /\ <<left, lhs(act)>> \in P
             ELSE <<s[l], act>> \in a.edges
      PROVE  <<l, nt>> \in P
  <2>1. SUFFICES ASSUME NEW top \in Int, NEW rule \in 0 .. NUM_RULES,
                        NEW rules \in Seq(0 .. NUM_RULES),
                        l = top - (rhs(rule) - 1), nt = lhs(rule)
                 PROVE  RulesOn(s, {START_SYMBOL}, l, rule, rules).top = Stopped(s, top, rule)[1]
    <3>1. StopAlike(s, l, nt)
      BY <2>1 DEF StopAlike
    <3> QED
      BY <1>2, <1>3, <3>1
  <2>2. \A r \in 0 .. NUM_RULES : rhs(r) \in Nat
    BY DEF IsAutomaton, AutomatonTypes
  <2>3. PICK here : here = Stopped(s, top, rule)
    OBVIOUS
  <2>4. here = IF nt = START_SYMBOL THEN <<l, rule>>
               ELSE IF IsReduce(act) THEN Stopped(s, l, act)
               ELSE <<l, act>>
    BY <1>3, <2>1, <2>2, <2>3, StoppedTurns
  <2>5. PICK ends : ends = {START_SYMBOL}
    OBVIOUS
  <2>6. TurnsTo(s, ends, l, rule, rules, act, left)
    <3>1. l \in Int /\ act = ntAction(s[l], lhs(rule))
      BY <1>3, <2>1
    <3> QED
      BY ONLY <2>2, <3>1, rule \in 0 .. NUM_RULES, rules \in Seq(0 .. NUM_RULES),
              left = l - (rhs(act) - 1), RulesTurn
  <2>7. PICK r : r = RulesOn(s, ends, l, rule, rules)
    OBVIOUS
  <2>8. r = IF nt # START_SYMBOL /\ IsReduce(act)
            THEN RulesOn(s, ends, left, act, Append(rules, act))
            ELSE [top |-> l, act |-> act, rules |-> rules]
    BY <2>1, <2>5, <2>6, <2>7 DEF TurnsTo
  <2>9. CASE ~(nt # START_SYMBOL /\ IsReduce(act))
    <3>1. r.top = l /\ here[1] = l
      BY <2>4, <2>8, <2>9
    <3> QED
      BY <2>3, <2>5, <2>7, <3>1
  <2>10. CASE nt # START_SYMBOL /\ IsReduce(act)
    <3>1. act \in 0 .. NUM_RULES /\ left \in 1 .. Len(s) /\ l \in Int
      BY <1>3, <2>10 DEF IsReduce, IsViable
    <3>2. Append(rules, act) \in Seq(0 .. NUM_RULES)
      BY <3>1
    <3>3. StopAlike(s, left, lhs(act))
      BY <1>2, <1>3, <2>10, <3>1
    <3>4. RulesOn(s, {START_SYMBOL}, left, act, Append(rules, act)).top = Stopped(s, l, act)[1]
      BY <1>3, <3>1, <3>2, <3>3 DEF StopAlike
    <3> QED
      BY <2>3, <2>4, <2>5, <2>7, <2>8, <2>10, <3>4
  <2> QED
    BY <2>9, <2>10
<1>4. TurnsClosed(a, s, P)
  BY <1>3 DEF TurnsClosed
<1>5. \A left \in 1 .. Len(s) : \A nt :
        <<s[left], 0, nt>> \in a.items => <<left, nt>> \in P
  BY ONLY <1>4, IsAutomaton(a), IsViable(a, s), TurnInduction
<1> QED
  BY <1>2, <1>5

LEMMA RulesStopThere ==
  ASSUME NEW a, IsAutomaton(a), NEW s, IsViable(a, s),
         NEW p, NEW top, NEW rule, NEW left, OnTop(a, s, p, top, rule, left)
  PROVE  RulesOf(s, top, rule, {START_SYMBOL}).top = Stopped(s, top, rule)[1]
<1>0. /\ p \in 1 .. Len(s) /\ top \in Int /\ rule \in 0 .. NUM_RULES
      /\ left \in Int /\ left = top - (rhs(rule) - 1)
      /\ <<s[p], p - left, lhs(rule)>> \in a.items
  BY DEF OnTop
<1>1. /\ p - (p - left) \in 1 .. p
      /\ <<s[p - (p - left)], 0, lhs(rule)>> \in a.items
  BY <1>0, ItemsBegin
<1>2. p - (p - left) = left
  BY <1>0
<1>3. left \in 1 .. Len(s) /\ <<s[left], 0, lhs(rule)>> \in a.items
  <2>1. Len(s) \in Nat
    BY DEF IsViable
  <2>2. left \in 1 .. p /\ <<s[left], 0, lhs(rule)>> \in a.items
    BY ONLY <1>1, <1>2
  <2>3. left \in 1 .. Len(s)
    BY ONLY <1>0, <2>1, <2>2
  <2> QED
    BY ONLY <2>2, <2>3
<1>4. PICK rules : rules = <<rule>>
  OBVIOUS
<1>5. rules \in Seq(0 .. NUM_RULES)
  <2>1. Append(<< >>, rule) \in Seq(0 .. NUM_RULES) /\ Append(<< >>, rule) = <<rule>>
    BY <1>0
  <2> QED
    BY <1>4, <2>1
<1>6. RulesOf(s, top, rule, {START_SYMBOL}) = RulesOn(s, {START_SYMBOL}, left, rule, rules)
  BY <1>0, <1>4, RulesOfIsChosen
<1>7. StopAlike(s, left, lhs(rule))
  BY <1>3, TurnsStopAlike
<1> QED
  BY <1>0, <1>5, <1>6, <1>7 DEF StopAlike

(* What a scanner pops for an action of the table is on the stack, and     *)
(* what it makes of the stack, unless that completes an item, is what the  *)
(* action makes of it.                                                     *)
Keeps(a, s, r, after) ==
  /\ r.top \in 1 .. Len(s)
  /\ Complete(r) => <<s[r.top], 0, START_SYMBOL>> \in a.items
  /\ ~Complete(r) => after = Append(SubSeq(s, 1, r.top), r.act) /\ IsViable(a, after)

LEMMA WellStoppedKeeps ==
  ASSUME NEW a, NEW s, NEW after, NEW left \in 1 .. Len(s), Len(s) \in Nat,
         NEW here, NEW there, StopsWell(a, s, left, here, there),
         after = Append(SubSeq(s, 1, there[1]), there[2]), IsViable(a, after),
         NEW r, r.top = here[1], r.act = here[2]
  PROVE  Keeps(a, s, r, after)
<1>1. here[1] \in 1 .. left /\ (~IsReduce(here[2]) => here = there)
  BY DEF StopsWell
<1>2. here[1] \in 1 .. Len(s)
  <2>1. PICK h : h = here[1]
    OBVIOUS
  <2>2. h \in 1 .. left
    BY ONLY <1>1, <2>1
  <2>3. h \in 1 .. Len(s)
    BY ONLY <2>2, left \in 1 .. Len(s), Len(s) \in Nat
  <2> QED
    BY ONLY <2>1, <2>3
<1>3. r.top \in 1 .. Len(s)
  BY ONLY <1>2, r.top = here[1]
<1>4. ASSUME ~Complete(r)
      PROVE  after = Append(SubSeq(s, 1, r.top), r.act) /\ IsViable(a, after)
  <2>1. here = there
    BY <1>1, <1>4 DEF Complete
  <2> QED
    BY ONLY <2>1, after = Append(SubSeq(s, 1, there[1]), there[2]), IsViable(a, after),
            r.top = here[1], r.act = here[2]
<1>5. Complete(r) => <<s[r.top], 0, START_SYMBOL>> \in a.items
  <2>1. Complete(r) => <<s[here[1]], 0, START_SYMBOL>> \in a.items
    BY DEF StopsWell, Complete
  <2> QED
    BY ONLY <2>1, r.top = here[1]
<1> QED
  BY ONLY <1>3, <1>4, <1>5 DEF Keeps

LEMMA ReduceStops ==
  ASSUME NEW a, IsAutomaton(a), NEW s, IsViable(a, s), NEW act, Answers(a, s, act),
         IsReduce(act)
  PROVE  Keeps(a, s, Reduced(s, Len(s) - 1, act), AfterReduce(s, act))
<1>1. /\ Len(s) \in Nat /\ Len(s) \in 1 .. Len(s) /\ act \in 0 .. NUM_RULES
      /\ rhs(act) \in Nat /\ <<s[Len(s)], rhs(act), lhs(act)>> \in a.items
  BY ReduceHasItem DEF IsViable
<1>2. PICK top \in Int : top = Len(s) - 1
  BY <1>1
<1>3. PICK left \in Int : left = top - (rhs(act) - 1) /\ Len(s) - left = rhs(act)
  BY <1>1, <1>2
<1>4. PICK here : here = Stopped(s, top, act)
  OBVIOUS
<1>5. PICK there : there = Reached(s, top, act)
  OBVIOUS
<1>6. left \in 1 .. Len(s) /\ StopsWell(a, s, left, here, there)
  <2>1. PICK nt : nt = lhs(act)
    OBVIOUS
  <2>2. <<s[Len(s)], Len(s) - left, nt>> \in a.items
    BY ONLY <1>1, <1>3, <2>1
  <2> QED
    BY ONLY <2>1, <2>2, <1>1, <1>3, <1>4, <1>5, IsAutomaton(a), IsViable(a, s), StoppedArrives
<1>7. /\ AfterReduce(s, act) = Append(SubSeq(s, 1, there[1]), there[2])
      /\ IsViable(a, AfterReduce(s, act))
  BY <1>2, <1>5, ReduceArrives
<1>8. PICK r : r = Reduced(s, top, act)
  OBVIOUS
<1>9. r.top = here[1] /\ r.act = here[2]
  BY <1>4, <1>8 DEF Reduced
<1>10. Keeps(a, s, r, AfterReduce(s, act))
  BY ONLY <1>1, <1>6, <1>7, <1>9, WellStoppedKeeps
<1> QED
  BY <1>2, <1>8, <1>10

LEMMA ShiftReduceStops ==
  ASSUME NEW a, IsAutomaton(a), NEW s, IsViable(a, s), NEW act, Answers(a, s, act),
         IsShiftReduce(act)
  PROVE  Keeps(a, s, Reduced(s, Len(s), act - ERROR_ACTION), AfterShiftReduce(s, act))
<1>1. PICK rule : rule = act - ERROR_ACTION
  OBVIOUS
<1>2. /\ Len(s) \in Nat /\ Len(s) \in 1 .. Len(s) /\ rule \in 0 .. NUM_RULES
      /\ rhs(rule) \in Nat /\ <<s[Len(s)], rhs(rule) - 1, lhs(rule)>> \in a.items
  BY <1>1, ShiftReduceHasItem DEF IsViable
<1>3. PICK top \in Int : top = Len(s)
  BY <1>2
<1>4. PICK left \in Int : left = top - (rhs(rule) - 1) /\ Len(s) - left = rhs(rule) - 1
  BY <1>2, <1>3
<1>5. PICK here : here = Stopped(s, top, rule)
  OBVIOUS
<1>6. PICK there : there = Reached(s, top, rule)
  OBVIOUS
<1>7. PICK nt : nt = lhs(rule)
  OBVIOUS
<1>8. <<s[Len(s)], Len(s) - left, nt>> \in a.items
  BY ONLY <1>2, <1>4, <1>7
<1>9. left \in 1 .. Len(s) /\ StopsWell(a, s, left, here, there)
  BY ONLY <1>2, <1>4, <1>5, <1>6, <1>7, <1>8, IsAutomaton(a), IsViable(a, s), StoppedArrives
<1>10. left \in 1 .. Len(s) /\ Arrives(a, s, left, there)
  <2>1. <<s[Len(s)], Len(s) - left, lhs(rule)>> \in a.items
    BY <1>7, <1>8
  <2> QED
    BY ONLY <2>1, <1>2, <1>4, <1>6, IsAutomaton(a), IsViable(a, s), ReachedArrives
<1>11. AfterShiftReduce(s, act) = Append(SubSeq(s, 1, there[1]), there[2])
  <2>1. Reductions(s, top, rule) = Append(SubSeq(s, 1, there[1]), there[2])
    BY ONLY <1>6, <1>10, IsAutomaton(a), ArrivalIsTaken
  <2> QED
    BY <1>1, <1>3, <2>1 DEF AfterShiftReduce
<1>12. IsViable(a, AfterShiftReduce(s, act))
  BY ShiftReduceArrives
<1>13. PICK r : r = Reduced(s, top, rule)
  OBVIOUS
<1>14. r.top = here[1] /\ r.act = here[2]
  BY <1>5, <1>13 DEF Reduced
<1>15. Keeps(a, s, r, AfterShiftReduce(s, act))
  BY ONLY <1>2, <1>9, <1>11, <1>12, <1>14, WellStoppedKeeps
<1> QED
  BY <1>1, <1>3, <1>13, <1>15

-----------------------------------------------------------------------------
(* The text: its characters are known to the table, and it has an end.     *)
TextInv ==
  /\ kinds \in Seq(LRAutomaton.terminals) /\ len = Len(kinds) /\ len \in Nat /\ len > 0
  /\ getKind(len - 1) = EOFT_SYMBOL

LEMMA TextHasKinds ==
  ASSUME TextInv
  PROVE  /\ \A token \in 0 .. len - 1 : getKind(token) \in LRAutomaton.terminals
         /\ \A token \in Int : token >= -1 => getNext(token) \in 0 .. len - 1
  BY DEF TextInv, getKind, getNext

(* What tAction finds is what the table answers in the state on top.       *)
LEMMA tActionOfText ==
  ASSUME TextInv, NEW s, IsViable(LRAutomaton, s), NEW k \in LRAutomaton.terminals,
         NEW cursor \in Int, cursor >= -1
  PROVE  Answers(LRAutomaton, s, tAction(Last(s), k, cursor))
<1>1. Reads(LRAutomaton, 0)
  BY TextHasKinds DEF TextInv, Reads
<1>2. IsAutomaton(LRAutomaton) /\ cursor >= 0 - 1
  BY TableAssumption
<1> QED
  BY <1>1, <1>2, tActionAnswers

-----------------------------------------------------------------------------
(* The cursor and what has been read.  A text without characters is EOF.   *)
CursorInv ==
  /\ index \in Int /\ index >= -1
  /\ save_next_token \in Int /\ save_next_token >= NotSaved
  /\ current_kind \in LRAutomaton.terminals /\ kind \in LRAutomaton.terminals
  /\ len = 1 => current_kind = EOFT_SYMBOL

LogInv == action \in Seq(Int)

Begun == <<START_STATE>>

(* What is pushed next makes a path of the automaton, the one of the log.  *)
TurnInv ==
  pc = "turn" =>
    /\ IsViable(LRAutomaton, Append(stack, currentAction))
    /\ ~Parsing => Append(stack, currentAction) = StackAfter(Begun, action)

(* The simulation has written what it is about to read, and its stack is a *)
(* path of the automaton.                                                  *)
Tried ==
  /\ pos \in Nat /\ tempStackTop \in Nat
  /\ pos + 1 .. tempStackTop + 1 \subseteq DOMAIN tempStack
  /\ IsViable(LRAutomaton, Simulated)

NextAction(s) == tAction(Last(s), kind, index)

NextReduced(s) == Reduced(s, Len(s) - 1, NextAction(s))

(* The next action on stack s is a reduction to stack t that leaves what   *)
(* is up to position low alone.                                            *)
ReducesTo(s, t, low) ==
  /\ IsReduce(NextAction(s)) /\ ~Complete(NextReduced(s))
  /\ NextReduced(s).top \in low .. Len(s)
  /\ t = Append(SubSeq(s, 1, NextReduced(s).top), NextReduced(s).act)

(* Such reductions lead from stack s to stack t.                           *)
Closed(P, low) == \A x \in P : \A y : ReducesTo(x, y, low) => y \in P

Leads(s, t, low) == \A P : s \in P /\ Closed(P, low) => t \in P

(* While a character is tried the stack stays what it was, and the log is  *)
(* that of the simulated stack.  In parseNextCharacter, which has no log,  *)
(* the simulated reductions lead from the stack to the simulated one.      *)
ScanInv ==
  pc = "scan" =>
    /\ IsViable(LRAutomaton, stack)
    /\ action_save \in 0 .. Len(action)
    /\ ~Parsing => stack = StackAfter(Begun, SubSeq(action, 1, action_save))
    /\ currentAction # ERROR_ACTION =>
         /\ Tried
         /\ currentAction = NextAction(Simulated)
         /\ IF Parsing THEN Leads(stack, Simulated, pos)
                       ELSE Simulated = StackAfter(Begun, action)

(* What is left of the simulated reductions leads from the stack to the    *)
(* simulated one, where they ended.                                        *)
ReplayInv ==
  pc = "replay" =>
    /\ Parsing /\ Tried
    /\ IsViable(LRAutomaton, stack)
    /\ action_save \in 0 .. Len(action)
    /\ currentAction = NextAction(stack)
    /\ Leads(stack, Simulated, pos)
    /\ IsReduce(NextAction(Simulated)) => Complete(NextReduced(Simulated))

(* What is taken is what the table answers on the simulated stack.         *)
TakeInv ==
  pc = "take" =>
    /\ IsViable(LRAutomaton, stack) /\ Answers(LRAutomaton, stack, currentAction)
    /\ IF Parsing THEN stack = Simulated
       ELSE /\ action = Append(Front(action), currentAction) /\ Front(action) \in Seq(Int)
            /\ stack = StackAfter(Begun, Front(action))

IInv == TextInv /\ CursorInv /\ LogInv /\ TurnInv /\ ScanInv /\ ReplayInv /\ TakeInv

-----------------------------------------------------------------------------
(* What is read depends on the text and the cursor alone.                  *)
LookaheadIn(ks, l) ==
  CHOOSE f :
    f = [from \in Int \X Nat |->
           LET next == lookAhead(from[1] - LA_STATE_OFFSET, ks[from[2] + 1])
           IN  IF AsksForMore(next)
               THEN f[<<next, IF from[2] + 1 < l THEN from[2] + 1 ELSE l - 1>>]
               ELSE next]

LEMMA LookaheadReads == lookahead = LookaheadIn(kinds, len)
BY DEF lookahead, LookaheadIn, getKind, getNext

LEMMA ReadsAlike ==
  ASSUME kinds' = kinds, len' = len, kind' = kind, index' = index
  PROVE  \A s : NextAction(s)' = NextAction(s) /\ NextReduced(s)' = NextReduced(s)
<1>1. lookahead' = LookaheadIn(kinds, len)
  <2>1. lookahead' = LookaheadIn(kinds', len')
    BY DEF lookahead, LookaheadIn, getKind, getNext
  <2> QED
    BY <2>1
<1>2. lookahead' = lookahead
  BY <1>1, LookaheadReads
<1>3. ASSUME NEW s PROVE NextAction(s)' = NextAction(s)
  BY <1>2 DEF NextAction, tAction, peek, getNext
<1>4. ASSUME NEW s PROVE NextReduced(s)' = NextReduced(s)
  BY <1>3 DEF NextReduced
<1> QED
  BY <1>3, <1>4

LEMMA LeadsAlike ==
  ASSUME kinds' = kinds, len' = len, kind' = kind, index' = index
  PROVE  \A s, t, low : Leads(s, t, low)' <=> Leads(s, t, low)
<1>1. \A s : NextAction(s)' = NextAction(s) /\ NextReduced(s)' = NextReduced(s)
  BY ReadsAlike
<1>2. \A s, t, low : ReducesTo(s, t, low)' <=> ReducesTo(s, t, low)
  BY <1>1 DEF ReducesTo
<1>3. \A P, low : Closed(P, low)' <=> Closed(P, low)
  BY <1>2 DEF Closed
<1> QED
  BY <1>3 DEF Leads

(* No reduction leads from a stack to itself; one more, or one less.       *)
LEMMA LeadsNowhere == \A s, low : Leads(s, s, low)
  BY DEF Leads

LEMMA LeadsOn ==
  ASSUME NEW s, NEW t, NEW u, NEW low, Leads(s, t, low), ReducesTo(t, u, low)
  PROVE  Leads(s, u, low)
  BY DEF Leads, Closed

LEMMA LeadsLower ==
  ASSUME NEW s, NEW t, NEW low \in Nat, NEW lower \in Nat, lower <= low, Leads(s, t, low)
  PROVE  Leads(s, t, lower)
<1>1. \A x, y : ReducesTo(x, y, low) => ReducesTo(x, y, lower)
  <2>1. SUFFICES ASSUME NEW n, NEW l, n \in low .. l PROVE n \in lower .. l
    BY DEF ReducesTo
  <2> QED
    BY <2>1
<1> QED
  BY <1>1 DEF Leads, Closed

LEMMA LeadsBegins ==
  ASSUME NEW s, NEW t, NEW low, Leads(s, t, low), s # t
  PROVE  /\ \E y : ReducesTo(s, y, low)
         /\ \A y : ReducesTo(s, y, low) => Leads(y, t, low)
<1>1. \E y : ReducesTo(s, y, low)
  <2>1. SUFFICES ASSUME \A y : ~ReducesTo(s, y, low) PROVE FALSE
    OBVIOUS
  <2>2. PICK P : P = {s}
    OBVIOUS
  <2>3. s \in P /\ Closed(P, low) /\ t \notin P
    BY <2>1, <2>2 DEF Closed
  <2> QED
    BY <2>3 DEF Leads
<1>2. ASSUME NEW y, ReducesTo(s, y, low), NEW P, y \in P, Closed(P, low) PROVE t \in P
  <2>1. PICK R : R = P \cup {s}
    OBVIOUS
  <2>2. \A z : ReducesTo(s, z, low) => z = y
    BY <1>2 DEF ReducesTo
  <2>3. s \in R /\ Closed(R, low)
    BY <1>2, <2>1, <2>2 DEF Closed
  <2> QED
    BY <2>1, <2>3 DEF Leads
<1> QED
  BY <1>1, <1>2 DEF Leads

-----------------------------------------------------------------------------
(* What begins to be tried is the stack itself.                            *)
LEMMA AttemptTries ==
  ASSUME NEW st, IsViable(LRAutomaton, st), NEW k, NEW c, Attempt(st, k, c),
         stack' = st, kinds' = kinds, len' = len, index' = c
  PROVE  /\ pc' = "scan" /\ kind' = k /\ Tried' /\ Simulated' = st
         /\ currentAction' = NextAction(st)'
<1>1. /\ kind' = k /\ pos' = Len(st) /\ tempStackTop' = Len(st) - 1
      /\ currentAction' = tAction(Last(st), k, c) /\ pc' = "scan"
  BY DEF Attempt
<1>2. st \in Seq(Int) /\ Len(st) \in Nat /\ Len(st) > 0
  BY DEF IsViable
<1>3. Simulated' = [p \in 1 .. Len(st) |-> st[p]]
  BY <1>1, <1>2 DEF Simulated, StateAt
<1>4. Simulated' = st
  BY <1>2, <1>3
<1>5. Tried'
  <2>1. /\ tempStackTop' \in Nat /\ pos' \in Nat
        /\ pos' + 1 .. tempStackTop' + 1 \subseteq DOMAIN tempStack'
    BY <1>1, <1>2
  <2> QED
    BY <1>4, <2>1 DEF Tried
<1>6. currentAction' = NextAction(st)'
  <2>1. lookahead' = lookahead
    <3>1. lookahead' = LookaheadIn(kinds', len')
      BY DEF lookahead, LookaheadIn, getKind, getNext
    <3> QED
      BY <3>1, LookaheadReads
  <2> QED
    BY <1>1, <2>1 DEF NextAction, tAction, peek, getNext
<1> QED
  BY <1>1, <1>4, <1>5, <1>6

LEMMA TextKept ==
  ASSUME TextInv, kinds' = kinds, len' = len
  PROVE  TextInv'
  BY DEF TextInv, getKind

LEMMA CursorKept ==
  ASSUME CursorInv, UNCHANGED <<len, index, save_next_token, current_kind, kind>>
  PROVE  CursorInv'
  BY DEF CursorInv

LEMMA CursorRestored ==
  ASSUME CursorInv, RestoreCursor, UNCHANGED <<len, current_kind, kind>>
  PROVE  CursorInv'
  BY DEF CursorInv, RestoreCursor, NotSaved

LEMMA CursorAdvanced ==
  ASSUME TextInv, CursorInv, AdvanceCursor, UNCHANGED <<len, save_next_token, kind>>
  PROVE  CursorInv'
<1>1. getNext(index) \in 0 .. len - 1 /\ len - 1 \in 0 .. len - 1
  <2>1. len \in Nat /\ len > 0
    BY DEF TextInv
  <2>2. index \in Int /\ index >= -1
    BY DEF CursorInv
  <2> QED
    BY ONLY <2>1, <2>2 DEF getNext
<1>2. NextInText \in 0 .. len - 1
  BY <1>1 DEF NextInText
<1>3. getKind(NextInText) \in LRAutomaton.terminals
  BY <1>2, TextHasKinds
<1>4. len = 1 => getKind(NextInText) = EOFT_SYMBOL
  <2>1. len = 1 => NextInText = len - 1
    BY <1>2
  <2> QED
    BY <2>1 DEF TextInv
<1>5. index' = getNext(index) /\ current_kind' = getKind(NextInText)
  BY DEF AdvanceCursor
<1> QED
  BY <1>1, <1>3, <1>4, <1>5 DEF CursorInv

LEMMA TurnKeepsIt ==
  ASSUME IInv, Turn
  PROVE  IInv'
<1>1. PICK st : st = Append(stack, currentAction)
  OBVIOUS
<1>2. /\ pc = "turn" /\ stack' = st /\ Attempt(st, current_kind, index)
      /\ action_save' = Len(action)
      /\ UNCHANGED <<kinds, len, way, index, current_kind, save_next_token, action>>
  BY <1>1 DEF Turn, text
<1>3. /\ TextInv /\ CursorInv /\ LogInv /\ IsViable(LRAutomaton, st)
      /\ ~Parsing => st = StackAfter(Begun, action)
  BY <1>1, <1>2 DEF IInv, TurnInv
<1>4. /\ pc' = "scan" /\ kind' = current_kind /\ Tried' /\ Simulated' = st
      /\ currentAction' = NextAction(st)'
  BY <1>2, <1>3, AttemptTries
<1>5. TextInv' /\ CursorInv' /\ LogInv'
  BY <1>2, <1>3, <1>4, TextKept DEF CursorInv, LogInv
<1>6. /\ action_save' \in 0 .. Len(action') /\ SubSeq(action', 1, action_save') = action'
      /\ action' = action
  BY <1>2, <1>3 DEF LogInv
<1>7. Parsing' = Parsing
  BY <1>2 DEF Parsing
<1>8. Leads(st, st, pos)'
  BY DEF Leads
<1>9. ScanInv'
  BY <1>2, <1>3, <1>4, <1>6, <1>7, <1>8 DEF ScanInv
<1>10. TurnInv' /\ ReplayInv' /\ TakeInv'
  BY <1>4 DEF TurnInv, ReplayInv, TakeInv
<1> QED
  BY <1>5, <1>9, <1>10 DEF IInv

-----------------------------------------------------------------------------
(* What the simulation writes, and what it leaves alone, is the stack that *)
(* the reductions make of the simulated one.                               *)
LEMMA ScanWrites ==
  ASSUME IInv, ScanReduce
  PROVE  /\ Simulated' = AfterReduce(Simulated, currentAction)
         /\ currentAction' = NextAction(Simulated)'
         /\ pos' \in Nat /\ pos \in Nat /\ pos' <= pos
         /\ Tried'
         /\ ReducesTo(Simulated, AfterReduce(Simulated, currentAction), pos')
<1>1. PICK s : s = Simulated
  OBVIOUS
<1>2. PICK act : act = currentAction
  OBVIOUS
<1>3. PICK r : r = Reduced(s, tempStackTop, act)
  OBVIOUS
<1>4. /\ pc = "scan" /\ IsReduce(act) /\ ~Complete(r)
      /\ tempStackTop' = r.top /\ pos' = Lowered(r.top)
      /\ tempStack' = Written(tempStack, r.top + 1, r.act)
      /\ currentAction' = tAction(r.act, kind, index)
      /\ UNCHANGED <<stack, kinds, len, kind, index>>
  BY <1>1, <1>2, <1>3 DEF ScanReduce, Scanning, NextReduction, text
<1>5. currentAction # ERROR_ACTION
  BY <1>2, <1>4, LayoutAssumption DEF IsReduce
<1>6. /\ TextInv /\ CursorInv /\ IsViable(LRAutomaton, s) /\ act = NextAction(s)
      /\ tempStackTop \in Nat /\ pos \in Nat
      /\ pos + 1 .. tempStackTop + 1 \subseteq DOMAIN tempStack
  BY <1>1, <1>2, <1>4, <1>5 DEF IInv, ScanInv, Tried
<1>7. Answers(LRAutomaton, s, act)
  BY <1>6, tActionOfText DEF NextAction, CursorInv
<1>8. /\ s \in Seq(Int) /\ Len(s) = tempStackTop + 1
      /\ \A p \in 1 .. tempStackTop + 1 : s[p] = StateAt(p)
  BY <1>1, <1>6 DEF Simulated, IsViable
<1>9. PICK t : t = AfterReduce(s, act)
  OBVIOUS
<1>10. r = Reduced(s, Len(s) - 1, act)
  <2>1. Len(s) - 1 = tempStackTop
    BY <1>6, <1>8
  <2> QED
    BY <1>3, <2>1
<1>11. /\ r.top \in 1 .. Len(s)
       /\ t = Append(SubSeq(s, 1, r.top), r.act) /\ IsViable(LRAutomaton, t)
  BY <1>4, <1>6, <1>7, <1>9, <1>10, ReduceStops, TableAssumption DEF Keeps
<1>12. PICK u \in 1 .. tempStackTop + 1 : u = r.top
  BY <1>8, <1>11
<1>13. PICK st : st = r.act
  OBVIOUS
<1>14. /\ t \in Seq(Int) /\ Len(t) = u + 1 /\ t[u + 1] = st
       /\ \A p \in 1 .. u : t[p] = s[p]
  <2>1. t = Append(SubSeq(s, 1, u), st) /\ t \in Seq(Int)
    BY <1>11, <1>12, <1>13 DEF IsViable
  <2>2. PICK cut : cut = SubSeq(s, 1, u)
    OBVIOUS
  <2>3. cut \in Seq(Int) /\ Len(cut) = u /\ \A p \in 1 .. u : cut[p] = s[p]
    BY <1>6, <1>8, <2>2
  <2>4. PICK T : T = Int \cup {st}
    OBVIOUS
  <2>5. cut \in Seq(T) /\ st \in T
    BY <2>3, <2>4
  <2>6. t = Append(cut, st)
    BY <2>1, <2>2
  <2>7. Len(t) = u + 1 /\ t[u + 1] = st /\ \A p \in 1 .. u : t[p] = cut[p]
    BY <2>3, <2>5, <2>6, AppendProperties
  <2> QED
    BY <2>1, <2>3, <2>7
<1>15. PICK new : new = tempStack'
  OBVIOUS
<1>16. /\ DOMAIN new = DOMAIN tempStack \cup {u + 1}
       /\ \A q \in DOMAIN new : new[q] = IF q = u + 1 THEN st ELSE tempStack[q]
  BY <1>4, <1>12, <1>13, <1>15 DEF Written
<1>17. PICK low \in Nat : low = pos' /\ low = IF pos < u THEN pos ELSE u
  BY <1>4, <1>6, <1>12 DEF Lowered
<1>18. low + 1 .. u + 1 \subseteq DOMAIN new
  <2>1. SUFFICES ASSUME NEW q \in low + 1 .. u + 1, q # u + 1 PROVE q \in DOMAIN tempStack
    BY <1>16
  <2>2. q \in pos + 1 .. tempStackTop + 1
    BY <1>6, <1>17, <2>1
  <2> QED
    BY <1>6, <2>2
<1>19. Simulated' = [p \in 1 .. u + 1 |-> IF p > low THEN new[p] ELSE stack[p]]
  BY <1>4, <1>12, <1>15, <1>17 DEF Simulated, StateAt
<1>20. ASSUME NEW p \in 1 .. u + 1
       PROVE  t[p] = IF p > low THEN new[p] ELSE stack[p]
  <2>1. CASE p = u + 1
    <3>1. p > low /\ p \in DOMAIN new
      BY <1>16, <1>17, <2>1
    <3> QED
      BY <1>14, <1>16, <2>1, <3>1
  <2>2. CASE p # u + 1
    <3>1. p \in 1 .. u /\ p \in 1 .. tempStackTop + 1 /\ (p > low <=> p > pos)
      BY <1>6, <1>17, <2>2
    <3>2. t[p] = s[p] /\ s[p] = IF p > pos THEN tempStack[p] ELSE stack[p]
      BY <1>8, <1>14, <3>1 DEF StateAt
    <3>3. CASE p > low
      <4>1. p \in low + 1 .. u + 1
        BY <1>17, <3>3
      <4>2. new[p] = tempStack[p]
        BY <1>16, <1>18, <2>2, <4>1
      <4> QED
        BY <3>1, <3>2, <3>3, <4>2
    <3>4. CASE ~(p > low)
      BY <3>1, <3>2, <3>4
    <3> QED
      BY <3>3, <3>4
  <2> QED
    BY <2>1, <2>2
<1>21. Simulated' = t
  <2>1. t = [p \in 1 .. u + 1 |-> t[p]]
    BY <1>14
  <2> QED
    BY <1>19, <1>20, <2>1
<1>22. currentAction' = NextAction(t)'
  <2>1. Last(t) = st
    BY <1>14 DEF Last
  <2>2. currentAction' = NextAction(t)
    BY <1>4, <1>13, <2>1 DEF NextAction
  <2> QED
    BY <1>4, <2>2, ReadsAlike
<1>23. Tried'
  BY <1>4, <1>11, <1>12, <1>15, <1>17, <1>18, <1>21 DEF Tried
<1>24. ReducesTo(s, t, low)
  <2>1. NextReduced(s) = r
    BY <1>6, <1>10 DEF NextReduced
  <2>2. r.top \in low .. Len(s)
    BY <1>8, <1>12, <1>17
  <2> QED
    BY <1>4, <1>6, <1>11, <2>1, <2>2 DEF ReducesTo
<1> QED
  BY <1>1, <1>2, <1>6, <1>9, <1>17, <1>21, <1>22, <1>23, <1>24

LEMMA ScanReduceKeepsIt ==
  ASSUME IInv, ScanReduce
  PROVE  IInv'
<1>1. PICK s : s = Simulated
  OBVIOUS
<1>2. PICK act : act = currentAction
  OBVIOUS
<1>3. PICK t : t = AfterReduce(s, act)
  OBVIOUS
<1>4. PICK low : low = pos'
  OBVIOUS
<1>5. /\ pc = "scan" /\ pc' = "scan" /\ IsReduce(act)
      /\ action' = IF Parsing THEN action ELSE Append(action, act)
      /\ UNCHANGED <<kinds, len, way, index, current_kind, save_next_token, stack, kind, action_save>>
  BY <1>2 DEF ScanReduce, Scanning, text
<1>6. /\ Simulated' = t /\ currentAction' = NextAction(t)' /\ Tried'
      /\ low \in Nat /\ pos \in Nat /\ low <= pos /\ ReducesTo(s, t, low)
  BY <1>1, <1>2, <1>3, <1>4, ScanWrites
<1>7. act # ERROR_ACTION /\ act \in Int
  BY <1>5, LayoutAssumption DEF IsReduce
<1>8. /\ TextInv /\ CursorInv /\ action \in Seq(Int)
      /\ IsViable(LRAutomaton, stack) /\ action_save \in 0 .. Len(action)
      /\ ~Parsing => stack = StackAfter(Begun, SubSeq(action, 1, action_save))
      /\ IF Parsing THEN Leads(stack, s, pos) ELSE s = StackAfter(Begun, action)
  BY <1>1, <1>2, <1>5, <1>7 DEF IInv, ScanInv, LogInv
<1>9. TextInv' /\ CursorInv'
  BY <1>5, <1>8, TextKept, CursorKept
<1>10. /\ action' \in Seq(Int) /\ action_save \in 0 .. Len(action')
       /\ SubSeq(action', 1, action_save) = SubSeq(action, 1, action_save)
  BY <1>5, <1>7, <1>8, AppendKeepsPrefix
<1>11. Parsing' = Parsing
  BY <1>5 DEF Parsing
<1>12. ASSUME Parsing PROVE ScanInv'
  <2>1. Leads(stack, t, low)
    BY <1>6, <1>8, <1>12, LeadsLower, LeadsOn
  <2>2. PICK st : st = stack
    OBVIOUS
  <2>3. Leads(st, t, low)'
    BY <1>5, <2>1, <2>2, LeadsAlike
  <2>4. Leads(stack, Simulated, pos)'
    BY <1>4, <1>5, <1>6, <2>2, <2>3
  <2> QED
    BY <1>4, <1>5, <1>6, <1>8, <1>10, <1>11, <1>12, <2>4 DEF ScanInv
<1>13. ASSUME ~Parsing PROVE ScanInv'
  <2>1. t = StackAfter(Begun, action')
    BY <1>3, <1>5, <1>7, <1>8, <1>13, StackAfterOneMore, ActionTaken
  <2> QED
    BY <1>5, <1>6, <1>8, <1>10, <1>11, <1>13, <2>1 DEF ScanInv
<1>14. TurnInv' /\ ReplayInv' /\ TakeInv' /\ LogInv'
  BY <1>5, <1>10 DEF TurnInv, ReplayInv, TakeInv, LogInv
<1> QED
  BY <1>9, <1>12, <1>13, <1>14 DEF IInv

-----------------------------------------------------------------------------
(* Where nothing is scanned, only the text, the cursor and the log count.  *)
LEMMA Elsewhere ==
  ASSUME TextInv', CursorInv', LogInv', pc' \notin {"turn", "scan", "replay", "take"}
  PROVE  IInv'
  BY DEF IInv, TurnInv, ScanInv, ReplayInv, TakeInv

LEMMA StutterKeepsIt ==
  ASSUME IInv, UNCHANGED <<kinds, len, way, index, save_next_token, current_kind, kind, stack,
                           tempStack, pos, tempStackTop, currentAction, action, action_save, pc>>
  PROVE  IInv'
<1>1. TextInv' /\ CursorInv' /\ LogInv'
  BY TextKept, CursorKept DEF IInv, LogInv
<1>2. Parsing' = Parsing /\ Simulated' = Simulated
  BY DEF Parsing, Simulated, StateAt
<1>3. TurnInv'
  BY <1>2 DEF IInv, TurnInv
<1>4. PICK s : s = Simulated
  OBVIOUS
<1>5. PICK st : st = stack
  OBVIOUS
<1>6. PICK low : low = pos
  OBVIOUS
<1>7. /\ NextAction(s)' = NextAction(s) /\ NextAction(st)' = NextAction(st)
      /\ NextReduced(s)' = NextReduced(s)
      /\ Leads(st, s, low)' <=> Leads(st, s, low)
  BY ReadsAlike, LeadsAlike
<1>8. /\ NextAction(Simulated)' = NextAction(Simulated) /\ NextAction(stack)' = NextAction(stack)
      /\ NextReduced(Simulated)' = NextReduced(Simulated)
      /\ Leads(stack, Simulated, pos)' <=> Leads(stack, Simulated, pos)
  BY <1>2, <1>4, <1>5, <1>6, <1>7
<1>9. Tried' <=> Tried
  BY <1>2 DEF Tried
<1>10. ScanInv'
  BY <1>2, <1>8, <1>9 DEF IInv, ScanInv
<1>11. ReplayInv'
  BY <1>2, <1>8, <1>9 DEF IInv, ReplayInv
<1>12. TakeInv'
  BY <1>2 DEF IInv, TakeInv
<1> QED
  BY <1>1, <1>3, <1>10, <1>11, <1>12 DEF IInv

LEMMA InitKeepsIt ==
  ASSUME Init
  PROVE  IInv
<1>1. PICK t \in Texts : kinds = t /\ len = Len(t)
  BY DEF Init
<1>2. /\ t \in Seq(LRAutomaton.terminals) /\ t # <<>>
      /\ \A k \in 1 .. Len(t) : t[k] = EOFT_SYMBOL <=> k = Len(t)
  BY <1>1, TableAssumption
<1>3. PICK n \in Nat : n = Len(t) /\ n > 0
  <2>1. Len(t) \in Nat
    BY ONLY <1>2, LenProperties
  <2>2. Len(t) # 0
    BY ONLY <1>2, EmptySeq
  <2> QED
    BY ONLY <2>1, <2>2
<1>4. TextInv
  <2>1. (n - 1) + 1 = n /\ n \in 1 .. n
    BY <1>3
  <2>2. t[n] = EOFT_SYMBOL
    BY <1>2, <1>3, <2>1
  <2> QED
    BY <1>1, <1>2, <1>3, <2>1, <2>2 DEF TextInv, getKind
<1>5. start_offset \in Nat
  BY TableAssumption DEF Init
<1>6. index \in 0 .. len - 1
  <2>1. len \in Nat /\ len > 0
    BY ONLY <1>4 DEF TextInv
  <2>2. PICK from : from = start_offset - 1
    OBVIOUS
  <2>3. from \in Int /\ from >= -1
    BY ONLY <1>5, <2>2
  <2>4. getNext(from) \in 0 .. len - 1
    BY ONLY <2>1, <2>3 DEF getNext
  <2> QED
    BY <2>2, <2>4 DEF Init
<1>7. len = 1 => current_kind = EOFT_SYMBOL
  <2>1. len = 1 => index = len - 1
    BY <1>6
  <2> QED
    BY <1>4, <2>1 DEF Init, TextInv
<1>8. current_kind \in LRAutomaton.terminals /\ kind \in LRAutomaton.terminals
  <2>1. len - 1 \in 0 .. len - 1
    BY <1>4 DEF TextInv
  <2> QED
    BY <1>4, <1>6, <2>1, TextHasKinds DEF Init, TextInv
<1>9. save_next_token \in Int /\ save_next_token >= NotSaved
  BY DEF Init, NotSaved
<1>10. CursorInv
  BY <1>4, <1>6, <1>7, <1>8, <1>9 DEF CursorInv, TextInv
<1>11. LogInv
  BY DEF Init, LogInv
<1> QED
  BY <1>4, <1>10, <1>11 DEF Init, IInv, TurnInv, ScanInv, ReplayInv, TakeInv

(* Between two items, and where an error is reported.                      *)
LEMMA BetweenItemsKeepsIt ==
  ASSUME IInv, Return \/ Stop \/ BadCharacter \/ BadToken \/ NothingMore
  PROVE  IInv'
<1>1. TextInv /\ CursorInv /\ LogInv
  BY DEF IInv
<1>2. kinds' = kinds /\ len' = len /\ action' = action
  BY DEF Return, Stop, BadCharacter, BadToken, NothingMore, text, log
<1>3. TextInv' /\ LogInv'
  BY <1>1, <1>2, TextKept DEF LogInv
<1>4. CursorInv'
  <2>1. CASE Return \/ Stop \/ BadToken \/ NothingMore
    BY <1>1, <2>1, CursorKept DEF Return, Stop, BadToken, NothingMore, text, simulation
  <2>2. CASE BadCharacter
    BY <1>1, <2>2, CursorAdvanced DEF BadCharacter, NextCharacter, text, simulation
  <2> QED
    BY <2>1, <2>2
<1>5. pc' \notin {"turn", "scan", "replay", "take"}
  BY DEF Return, Stop, BadCharacter, BadToken, NothingMore
<1> QED
  BY <1>3, <1>4, <1>5, Elsewhere

LEMMA StartItemKeepsIt ==
  ASSUME IInv, StartItem
  PROVE  IInv'
<1>1. /\ pc' = "turn" /\ stack' = <<>> /\ currentAction' = START_STATE /\ action' = <<>>
      /\ UNCHANGED <<kinds, len, index, save_next_token, current_kind, kind>>
  BY DEF StartItem, text, simulation
<1>2. TextInv' /\ CursorInv' /\ LogInv'
  BY <1>1, TextKept, CursorKept DEF IInv, LogInv
<1>3. Append(stack', currentAction') = Begun
  BY <1>1 DEF Begun
<1>4. IsViable(LRAutomaton, Begun) /\ Begun = StackAfter(Begun, <<>>)
  BY StartIsViable, StackAfterNothing DEF Begun
<1>5. TurnInv'
  BY <1>1, <1>3, <1>4 DEF TurnInv
<1>6. ScanInv' /\ ReplayInv' /\ TakeInv'
  BY <1>1 DEF ScanInv, ReplayInv, TakeInv
<1> QED
  BY <1>2, <1>5, <1>6 DEF IInv

(* The rule actions run on stacks of their own.                            *)
LEMMA ActionsTurnKeepsIt ==
  ASSUME IInv, ActionsTurn
  PROVE  IInv'
<1>1. /\ UNCHANGED <<kinds, len, current_kind, kind, action>>
      /\ pc' \in {"actions", "item"}
      /\ RestoreCursor \/ UNCHANGED <<index, save_next_token>>
  BY DEF ActionsTurn, text, simulation
<1>2. TextInv' /\ LogInv'
  BY <1>1, TextKept DEF IInv, LogInv
<1>3. CursorInv'
  BY <1>1, CursorKept, CursorRestored DEF IInv
<1> QED
  BY <1>1, <1>2, <1>3, Elsewhere

-----------------------------------------------------------------------------
(* The simulation ends: with the stack, with an item, or with an error.    *)
LEMMA FrontOfLonger ==
  ASSUME NEW s \in Seq(Int), NEW x \in Int
  PROVE  Front(Append(s, x)) = s
<1>1. PICK l : l = Append(s, x)
  OBVIOUS
<1>2. PICK n \in Nat : n = Len(s)
  OBVIOUS
<1>3. l \in Seq(Int) /\ Len(l) = n + 1 /\ \A k \in 1 .. n : l[k] = s[k]
  BY <1>1, <1>2, AppendProperties
<1>4. PICK f : f = SubSeq(l, 1, n)
  OBVIOUS
<1>5. f \in Seq(Int) /\ Len(f) = n /\ \A k \in 1 .. n : f[k] = s[k]
  BY <1>2, <1>3, <1>4
<1>6. f = [k \in 1 .. n |-> f[k]] /\ s = [k \in 1 .. n |-> s[k]]
  BY <1>2, <1>5
<1>7. f = s
  BY <1>5, <1>6
<1>8. Len(l) - 1 = n
  BY <1>3
<1> QED
  BY <1>1, <1>4, <1>7, <1>8 DEF Front

LEMMA TakeSimulationKeepsIt ==
  ASSUME IInv, TakeSimulation
  PROVE  IInv'
<1>1. PICK s : s = Simulated
  OBVIOUS
<1>2. PICK act : act = currentAction
  OBVIOUS
<1>3. /\ pc = "scan" /\ pc' = "take" /\ ~Parsing /\ stack' = s /\ RestoreCursor
      /\ IsShift(act) \/ IsShiftReduce(act)
      /\ action' = Append(action, act) /\ currentAction' = act
      /\ UNCHANGED <<kinds, len, way, current_kind, kind>>
  BY <1>1, <1>2 DEF TakeSimulation, text, simulation
<1>4. act # ERROR_ACTION /\ act \in Int
  BY <1>3, LayoutAssumption DEF IsShift, IsShiftReduce
<1>5. /\ TextInv /\ CursorInv /\ action \in Seq(Int)
      /\ IsViable(LRAutomaton, s) /\ act = NextAction(s) /\ s = StackAfter(Begun, action)
  BY <1>1, <1>2, <1>3, <1>4 DEF IInv, ScanInv, LogInv, Tried
<1>6. Answers(LRAutomaton, s, act)
  BY <1>5, tActionOfText DEF NextAction, CursorInv
<1>7. action' \in Seq(Int) /\ Front(action') = action
  BY <1>3, <1>4, <1>5, FrontOfLonger
<1>8. Parsing' = Parsing
  BY <1>3 DEF Parsing
<1>9. TakeInv'
  BY <1>3, <1>5, <1>6, <1>7, <1>8 DEF TakeInv
<1>10. TextInv' /\ CursorInv' /\ LogInv'
  BY <1>3, <1>5, <1>7, TextKept, CursorRestored DEF LogInv
<1>11. TurnInv' /\ ScanInv' /\ ReplayInv'
  BY <1>3 DEF TurnInv, ScanInv, ReplayInv
<1> QED
  BY <1>9, <1>10, <1>11 DEF IInv

LEMMA ScanCompletesKeepsIt ==
  ASSUME IInv, ScanCompletes
  PROVE  IInv'
<1>1. PICK act : act = currentAction
  OBVIOUS
<1>2. /\ pc = "scan" /\ IsReduce(act) /\ ~Parsing
      /\ action' = Append(action, act)
      /\ \/ /\ currentAction' = ERROR_ACTION /\ UNCHANGED <<stack, pc>>
         \/ pc' = "actions"
      /\ UNCHANGED <<kinds, len, way, index, current_kind, kind, save_next_token, action_save>>
  BY <1>1 DEF ScanCompletes, Scanning, StartActions, text, simulation
<1>3. act \in Int
  BY <1>2 DEF IsReduce
<1>4. /\ TextInv /\ CursorInv /\ action \in Seq(Int)
      /\ IsViable(LRAutomaton, stack) /\ action_save \in 0 .. Len(action)
      /\ stack = StackAfter(Begun, SubSeq(action, 1, action_save))
  BY <1>2 DEF IInv, ScanInv, LogInv
<1>5. /\ action' \in Seq(Int) /\ action_save \in 0 .. Len(action')
      /\ SubSeq(action', 1, action_save) = SubSeq(action, 1, action_save)
  BY <1>2, <1>3, <1>4, AppendKeepsPrefix
<1>6. TextInv' /\ CursorInv' /\ LogInv'
  BY <1>2, <1>4, <1>5, TextKept, CursorKept DEF LogInv
<1>7. CASE pc' = "actions"
  BY <1>6, <1>7, Elsewhere
<1>8. CASE currentAction' = ERROR_ACTION /\ UNCHANGED <<stack, pc>>
  <2>1. Parsing' = Parsing
    BY <1>2 DEF Parsing
  <2>2. ScanInv'
    BY <1>2, <1>4, <1>5, <1>8, <2>1 DEF ScanInv
  <2>3. TurnInv' /\ ReplayInv' /\ TakeInv'
    BY <1>2, <1>8 DEF TurnInv, ReplayInv, TakeInv
  <2> QED
    BY <1>6, <2>2, <2>3 DEF IInv
<1> QED
  BY <1>2, <1>7, <1>8

LEMMA ScanFailsKeepsIt ==
  ASSUME IInv, ScanFails
  PROVE  IInv'
<1>1. PICK st : st = stack
  OBVIOUS
<1>2. /\ pc = "scan" /\ action' = SubSeq(action, 1, action_save)
      /\ UNCHANGED <<kinds, len, way, current_kind, stack, action_save>>
  BY DEF ScanFails, text
<1>3. /\ TextInv /\ CursorInv /\ action \in Seq(Int)
      /\ IsViable(LRAutomaton, st) /\ action_save \in 0 .. Len(action)
      /\ ~Parsing => st = StackAfter(Begun, action')
  BY <1>1, <1>2 DEF IInv, ScanInv, LogInv
<1>4. /\ action' \in Seq(Int) /\ action_save' \in 0 .. Len(action')
      /\ SubSeq(action', 1, action_save') = action'
  <2>1. PICK n \in Nat : n = action_save /\ n <= Len(action)
    BY <1>3
  <2>2. PICK cut : cut = SubSeq(action, 1, n)
    OBVIOUS
  <2>3. cut \in Seq(Int) /\ Len(cut) = n
    BY <1>3, <2>1, <2>2
  <2>4. SubSeq(cut, 1, Len(cut)) = cut
    BY <2>3, WholePrefix
  <2> QED
    BY <1>2, <2>1, <2>2, <2>3, <2>4
<1>5. TextInv' /\ LogInv'
  BY <1>2, <1>3, <1>4, TextKept DEF LogInv
<1>6. Parsing' = Parsing
  BY <1>2 DEF Parsing
<1>7. CASE ~TryEof
  <2>1. RestoreCursor /\ pc' = "error" /\ kind' = kind
    BY <1>7 DEF ScanFails, simulation
  <2>2. CursorInv'
    BY <1>2, <1>3, <2>1, CursorRestored
  <2> QED
    BY <1>5, <2>1, <2>2, Elsewhere
<1>8. CASE TryEof
  <2>1. PICK c : c = (len - 1) - 2
    OBVIOUS
  <2>2. /\ save_next_token' = peek(index) /\ index' = c
        /\ Attempt(st, EOFT_SYMBOL, c)
    BY <1>1, <1>8, <2>1 DEF ScanFails
  <2>3. /\ pc' = "scan" /\ kind' = EOFT_SYMBOL /\ Tried' /\ Simulated' = st
        /\ currentAction' = NextAction(st)'
    BY <1>1, <1>2, <1>3, <2>2, AttemptTries
  <2>4. c \in Int /\ c >= -1
    <3>1. current_kind # EOFT_SYMBOL
      BY <1>8 DEF TryEof
    <3>2. len \in Nat /\ len > 0 /\ len # 1
      BY <1>3, <3>1 DEF TextInv, CursorInv
    <3> QED
      BY <2>1, <3>2
  <2>5. peek(index) \in 0 .. len - 1
    BY <1>3, TextHasKinds DEF peek, CursorInv
  <2>6. EOFT_SYMBOL \in LRAutomaton.terminals
    <3>1. len - 1 \in 0 .. len - 1
      BY <1>3 DEF TextInv
    <3> QED
      BY <1>3, <3>1, TextHasKinds DEF TextInv
  <2>7. CursorInv'
    BY <1>2, <1>3, <2>2, <2>3, <2>4, <2>5, <2>6 DEF CursorInv, NotSaved
  <2>8. Leads(st, st, pos)'
    BY DEF Leads
  <2>9. ScanInv'
    BY <1>1, <1>2, <1>3, <1>4, <1>6, <2>3, <2>8 DEF ScanInv
  <2>10. TurnInv' /\ ReplayInv' /\ TakeInv'
    BY <2>3 DEF TurnInv, ReplayInv, TakeInv
  <2> QED
    BY <1>5, <2>7, <2>9, <2>10 DEF IInv
<1> QED
  BY <1>7, <1>8

-----------------------------------------------------------------------------
(* parseNextCharacter repeats the reductions on the stack.                 *)
LEMMA StartReplayKeepsIt ==
  ASSUME IInv, StartReplay
  PROVE  IInv'
<1>1. PICK s : s = Simulated
  OBVIOUS
<1>2. PICK act : act = currentAction
  OBVIOUS
<1>3. PICK st : st = stack
  OBVIOUS
<1>4. PICK low : low = pos
  OBVIOUS
<1>5. /\ pc = "scan" /\ pc' = "replay" /\ Parsing
      /\ \/ IsReduce(act) /\ Complete(Reduced(s, tempStackTop, act))
         \/ IsShift(act) \/ IsShiftReduce(act)
      /\ currentAction' = NextAction(st)
      /\ UNCHANGED <<kinds, len, way, index, current_kind, save_next_token, stack, kind,
                     tempStack, pos, tempStackTop, action, action_save>>
  BY <1>1, <1>2, <1>3
  DEF StartReplay, Scanning, NextReduction, NextAction, text, simulation, log
<1>6. act # ERROR_ACTION
  BY <1>5, LayoutAssumption DEF IsReduce, IsShift, IsShiftReduce
<1>7. /\ TextInv /\ CursorInv /\ LogInv /\ Tried
      /\ IsViable(LRAutomaton, st) /\ action_save \in 0 .. Len(action)
      /\ act = NextAction(s) /\ Leads(st, s, low)
  BY <1>1, <1>2, <1>3, <1>4, <1>5, <1>6 DEF IInv, ScanInv
<1>8. IsReduce(NextAction(s)) => Complete(NextReduced(s))
  <2>1. SUFFICES ASSUME IsReduce(act) PROVE Complete(NextReduced(s))
    BY <1>7
  <2>2. ~IsShift(act) /\ ~IsShiftReduce(act)
    BY <2>1, LayoutAssumption DEF IsReduce, IsShift, IsShiftReduce
  <2>3. Len(s) - 1 = tempStackTop
    BY <1>1, <1>7 DEF Tried, Simulated
  <2> QED
    BY <1>5, <1>7, <2>2, <2>3 DEF NextReduced
<1>9. Parsing' = Parsing /\ Simulated' = s
  BY <1>1, <1>5 DEF Parsing, Simulated, StateAt
<1>10. /\ NextAction(s)' = NextAction(s) /\ NextAction(st)' = NextAction(st)
       /\ NextReduced(s)' = NextReduced(s) /\ Leads(st, s, low)'
  BY <1>5, <1>7, ReadsAlike, LeadsAlike
<1>11. Tried'
  BY <1>1, <1>5, <1>7, <1>9 DEF Tried
<1>12. ReplayInv'
  BY <1>3, <1>4, <1>5, <1>7, <1>8, <1>9, <1>10, <1>11 DEF ReplayInv
<1>13. TextInv' /\ CursorInv' /\ LogInv'
  BY <1>5, <1>7, TextKept, CursorKept DEF LogInv
<1>14. TurnInv' /\ ScanInv' /\ TakeInv'
  BY <1>5 DEF TurnInv, ScanInv, TakeInv
<1> QED
  BY <1>12, <1>13, <1>14 DEF IInv

LEMMA EndReplayKeepsIt ==
  ASSUME IInv, EndReplay
  PROVE  IInv'
<1>1. PICK st : st = stack
  OBVIOUS
<1>2. PICK act : act = currentAction
  OBVIOUS
<1>3. /\ pc = "replay" /\ pc' = "take" /\ ~IsReduce(act) /\ RestoreCursor
      /\ UNCHANGED <<kinds, len, way, current_kind, stack, kind, currentAction,
                     tempStack, pos, tempStackTop, action>>
  BY <1>2 DEF EndReplay, text, simulation, log
<1>4. /\ TextInv /\ CursorInv /\ LogInv /\ Parsing /\ IsViable(LRAutomaton, st)
      /\ act = NextAction(st) /\ Leads(st, Simulated, pos)
  BY <1>1, <1>2, <1>3 DEF IInv, ReplayInv
<1>5. st = Simulated
  <2>1. \A y, low : ~ReducesTo(st, y, low)
    BY <1>3, <1>4 DEF ReducesTo
  <2> QED
    BY <1>4, <2>1, LeadsBegins
<1>6. Answers(LRAutomaton, st, act)
  BY <1>4, tActionOfText DEF NextAction, CursorInv
<1>7. Parsing' = Parsing /\ Simulated' = Simulated
  BY <1>3 DEF Parsing, Simulated, StateAt
<1>8. TakeInv'
  BY <1>1, <1>2, <1>3, <1>4, <1>5, <1>6, <1>7 DEF TakeInv
<1>9. TextInv' /\ CursorInv' /\ LogInv'
  BY <1>3, <1>4, TextKept, CursorRestored DEF LogInv
<1>10. TurnInv' /\ ScanInv' /\ ReplayInv'
  BY <1>3 DEF TurnInv, ScanInv, ReplayInv
<1> QED
  BY <1>8, <1>9, <1>10 DEF IInv

(* A reduction in earnest leaves the simulated stack what it is.           *)
LEMMA ReplayReduceKeepsIt ==
  ASSUME IInv, ReplayReduce
  PROVE  IInv'
<1>1. PICK s : s = Simulated
  OBVIOUS
<1>2. PICK act : act = currentAction
  OBVIOUS
<1>3. PICK st : st = stack
  OBVIOUS
<1>4. PICK low : low = pos
  OBVIOUS
<1>5. PICK r : r = Reduced(st, Len(st) - 1, act)
  OBVIOUS
<1>6. PICK t : t = Append(SubSeq(st, 1, r.top), r.act)
  OBVIOUS
<1>7. /\ pc = "replay" /\ IsReduce(act)
      /\ UNCHANGED <<kinds, len, way, current_kind, kind, tempStack, pos, tempStackTop,
                     action, action_save>>
  BY <1>2 DEF ReplayReduce, Replaying, text, simulation, log
<1>8. /\ TextInv /\ CursorInv /\ LogInv /\ Parsing /\ Tried
      /\ IsViable(LRAutomaton, st) /\ action_save \in 0 .. Len(action)
      /\ act = NextAction(st) /\ Leads(st, s, low)
      /\ IsReduce(NextAction(s)) => Complete(NextReduced(s))
  BY <1>1, <1>2, <1>3, <1>4, <1>7 DEF IInv, ReplayInv
<1>9. Answers(LRAutomaton, st, act)
  BY <1>8, tActionOfText DEF NextAction, CursorInv
<1>10. Keeps(LRAutomaton, st, r, AfterReduce(st, act))
  BY <1>5, <1>7, <1>8, <1>9, ReduceStops, TableAssumption
<1>11. TextInv' /\ LogInv' /\ Parsing' = Parsing
  BY <1>7, <1>8, TextKept DEF LogInv, Parsing
<1>12. CASE Complete(r)
  <2>1. /\ stack' = SubSeq(st, 1, r.top)
        /\ \/ /\ currentAction' = ERROR_ACTION /\ pc' = "scan"
              /\ UNCHANGED <<index, save_next_token>>
           \/ pc' = "item" /\ RestoreCursor
    BY <1>2, <1>3, <1>5, <1>12 DEF ReplayReduce
  <2>2. CursorInv'
    BY <1>7, <1>8, <2>1, CursorKept, CursorRestored
  <2>3. IsViable(LRAutomaton, SubSeq(st, 1, r.top))
    BY <1>8, <1>10, BottomIsViable DEF Keeps
  <2>4. CASE pc' = "item"
    BY <1>11, <2>2, <2>4, Elsewhere
  <2>5. CASE pc' = "scan" /\ currentAction' = ERROR_ACTION
    <3>1. ScanInv'
      BY <1>7, <1>8, <1>11, <2>1, <2>3, <2>5 DEF ScanInv
    <3>2. TurnInv' /\ ReplayInv' /\ TakeInv'
      BY <2>5 DEF TurnInv, ReplayInv, TakeInv
    <3> QED
      BY <1>11, <2>2, <3>1, <3>2 DEF IInv
  <2> QED
    BY <2>1, <2>4, <2>5
<1>13. CASE ~Complete(r)
  <2>1. /\ stack' = t /\ currentAction' = tAction(r.act, kind, index) /\ pc' = "replay"
        /\ UNCHANGED <<index, save_next_token>>
    BY <1>2, <1>3, <1>5, <1>6, <1>7, <1>13 DEF ReplayReduce
  <2>2. /\ r.top \in 1 .. Len(st) /\ IsViable(LRAutomaton, t)
    BY <1>6, <1>10, <1>13 DEF Keeps
  <2>3. NextReduced(st) = r
    BY <1>5, <1>8 DEF NextReduced
  <2>4. st # s
    BY <1>7, <1>8, <1>13, <2>3
  <2>5. ReducesTo(st, t, low) /\ Leads(t, s, low)
    <3>1. PICK y : ReducesTo(st, y, low)
      BY <1>8, <2>4, LeadsBegins
    <3>2. y = t
      BY <1>6, <2>3, <3>1 DEF ReducesTo
    <3> QED
      BY <1>8, <2>4, <3>1, <3>2, LeadsBegins
  <2>6. PICK u \in 1 .. Len(st) : u = r.top
    BY <2>2
  <2>7. low \in Nat /\ low <= u
    BY <1>4, <1>8, <2>3, <2>5, <2>6 DEF ReducesTo, Tried
  <2>8. /\ st \in Seq(Int) /\ t \in Seq(Int) /\ t[u + 1] = r.act /\ Len(t) = u + 1
        /\ \A p \in 1 .. u : t[p] = st[p]
    <3>1. st \in Seq(Int) /\ t \in Seq(Int)
      BY <1>8, <2>2 DEF IsViable
    <3>2. PICK cut : cut = SubSeq(st, 1, u)
      OBVIOUS
    <3>3. cut \in Seq(Int) /\ Len(cut) = u /\ \A p \in 1 .. u : cut[p] = st[p]
      BY <3>1, <3>2
    <3>4. PICK T : T = Int \cup {r.act}
      OBVIOUS
    <3>5. cut \in Seq(T) /\ r.act \in T
      BY <3>3, <3>4
    <3>6. t = Append(cut, r.act)
      BY <1>6, <2>6, <3>2
    <3>7. Len(t) = u + 1 /\ t[u + 1] = r.act /\ \A p \in 1 .. u : t[p] = cut[p]
      BY <3>3, <3>5, <3>6, AppendProperties
    <3> QED
      BY <3>1, <3>3, <3>7
  <2>9. Simulated' = s
    <3>1. s = [p \in 1 .. tempStackTop + 1 |-> IF p > low THEN tempStack[p] ELSE st[p]]
      BY <1>1, <1>3, <1>4 DEF Simulated, StateAt
    <3>2. Simulated' = [p \in 1 .. tempStackTop + 1 |-> IF p > low THEN tempStack[p] ELSE t[p]]
      BY <1>4, <1>7, <2>1 DEF Simulated, StateAt
    <3>3. \A p \in 1 .. tempStackTop + 1 : ~(p > low) => t[p] = st[p]
      <4>1. SUFFICES ASSUME NEW p \in 1 .. tempStackTop + 1, ~(p > low) PROVE p \in 1 .. u
        BY <2>8
      <4> QED
        BY <2>6, <2>7, <4>1
    <3> QED
      BY <3>1, <3>2, <3>3
  <2>10. currentAction' = NextAction(t)
    <3>1. Last(t) = r.act
      BY <2>8 DEF Last
    <3> QED
      BY <2>1, <3>1 DEF NextAction
  <2>11. /\ NextAction(s)' = NextAction(s) /\ NextAction(t)' = NextAction(t)
         /\ NextReduced(s)' = NextReduced(s) /\ Leads(t, s, low)'
    BY <1>7, <2>1, <2>5, ReadsAlike, LeadsAlike
  <2>12. Tried'
    BY <1>1, <1>7, <1>8, <2>9 DEF Tried
  <2>13. ReplayInv'
    BY <1>4, <1>7, <1>8, <1>11, <2>1, <2>2, <2>9, <2>10, <2>11, <2>12 DEF ReplayInv
  <2>14. CursorInv'
    BY <1>7, <1>8, <2>1, CursorKept
  <2>15. TurnInv' /\ ScanInv' /\ TakeInv'
    BY <2>1 DEF TurnInv, ScanInv, TakeInv
  <2> QED
    BY <1>11, <2>13, <2>14, <2>15 DEF IInv
<1> QED
  BY <1>12, <1>13

-----------------------------------------------------------------------------
(* A character is taken.                                                   *)
LEMMA ParseShiftKeepsIt ==
  ASSUME IInv, ParseShift
  PROVE  IInv'
<1>1. /\ pc = "take" /\ pc' = "turn" /\ Parsing /\ IsShift(currentAction) /\ AdvanceCursor
      /\ UNCHANGED <<kinds, len, way, save_next_token, stack, kind, currentAction, action>>
  BY DEF ParseShift, NextCharacter, text, simulation, log
<1>2. /\ TextInv /\ CursorInv /\ LogInv
      /\ IsViable(LRAutomaton, stack) /\ Answers(LRAutomaton, stack, currentAction)
  BY <1>1 DEF IInv, TakeInv
<1>3. IsViable(LRAutomaton, Append(stack, currentAction))
  BY <1>1, <1>2, ShiftArrives, TableAssumption DEF AfterShift
<1>4. Parsing' = Parsing
  BY <1>1 DEF Parsing
<1>5. TurnInv'
  BY <1>1, <1>3, <1>4 DEF TurnInv
<1>6. TextInv' /\ CursorInv' /\ LogInv'
  BY <1>1, <1>2, TextKept, CursorAdvanced DEF LogInv
<1>7. ScanInv' /\ ReplayInv' /\ TakeInv'
  BY <1>1 DEF ScanInv, ReplayInv, TakeInv
<1> QED
  BY <1>5, <1>6, <1>7 DEF IInv

LEMMA ParseShiftReduceKeepsIt ==
  ASSUME IInv, ParseShiftReduce
  PROVE  IInv'
<1>1. PICK r : r = Reduced(stack, Len(stack), currentAction - ERROR_ACTION)
  OBVIOUS
<1>2. /\ pc = "take" /\ Parsing /\ IsShiftReduce(currentAction) /\ AdvanceCursor
      /\ stack' = SubSeq(stack, 1, r.top) /\ currentAction' = r.act
      /\ pc' = IF Complete(r) THEN "item" ELSE "turn"
      /\ UNCHANGED <<kinds, len, way, save_next_token, kind, action>>
  BY <1>1 DEF ParseShiftReduce, NextCharacter, text, simulation, log
<1>3. /\ TextInv /\ CursorInv /\ LogInv
      /\ IsViable(LRAutomaton, stack) /\ Answers(LRAutomaton, stack, currentAction)
  BY <1>2 DEF IInv, TakeInv
<1>4. Keeps(LRAutomaton, stack, r, AfterShiftReduce(stack, currentAction))
  BY <1>1, <1>2, <1>3, ShiftReduceStops, TableAssumption
<1>5. TextInv' /\ CursorInv' /\ LogInv'
  BY <1>2, <1>3, TextKept, CursorAdvanced DEF LogInv
<1>6. CASE Complete(r)
  BY <1>2, <1>5, <1>6, Elsewhere
<1>7. CASE ~Complete(r)
  <2>1. Parsing' = Parsing /\ IsViable(LRAutomaton, Append(stack', currentAction'))
    BY <1>2, <1>4, <1>7 DEF Parsing, Keeps
  <2>2. TurnInv'
    BY <1>2, <2>1 DEF TurnInv
  <2>3. ScanInv' /\ ReplayInv' /\ TakeInv'
    BY <1>2, <1>7 DEF ScanInv, ReplayInv, TakeInv
  <2> QED
    BY <1>5, <2>2, <2>3 DEF IInv
<1> QED
  BY <1>6, <1>7

(* What lexNextToken has taken is at the end of the log.                   *)
LEMMA LogHasTaken ==
  ASSUME IInv, pc = "take", ~Parsing, IsShift(currentAction) \/ IsShiftReduce(currentAction)
  PROVE  /\ IsViable(LRAutomaton, stack) /\ Answers(LRAutomaton, stack, currentAction)
         /\ AfterAction(stack, currentAction) = StackAfter(Begun, action)
<1>1. /\ IsViable(LRAutomaton, stack) /\ Answers(LRAutomaton, stack, currentAction)
      /\ action = Append(Front(action), currentAction) /\ Front(action) \in Seq(Int)
      /\ stack = StackAfter(Begun, Front(action))
  BY DEF IInv, TakeInv
<1>2. currentAction \in Int
  BY LayoutAssumption DEF IsShift, IsShiftReduce
<1>3. PICK before : before = Front(action)
  OBVIOUS
<1>4. StackAfter(Begun, Append(before, currentAction))
        = AfterAction(StackAfter(Begun, before), currentAction)
  BY <1>1, <1>2, <1>3, StackAfterOneMore
<1> QED
  BY <1>1, <1>3, <1>4

LEMMA LexShiftKeepsIt ==
  ASSUME IInv, LexShift
  PROVE  IInv'
<1>1. /\ pc = "take" /\ pc' = "turn" /\ ~Parsing /\ IsShift(currentAction) /\ AdvanceCursor
      /\ UNCHANGED <<kinds, len, way, save_next_token, stack, kind, currentAction, action>>
  BY DEF LexShift, NextCharacter, text, simulation, log
<1>2. /\ TextInv /\ CursorInv /\ LogInv
      /\ IsViable(LRAutomaton, stack) /\ Answers(LRAutomaton, stack, currentAction)
      /\ AfterAction(stack, currentAction) = StackAfter(Begun, action)
  BY <1>1, LogHasTaken DEF IInv
<1>3. IsViable(LRAutomaton, Append(stack, currentAction))
  BY <1>1, <1>2, ShiftArrives, TableAssumption DEF AfterShift
<1>4. Append(stack, currentAction) = StackAfter(Begun, action)
  <2>1. ~IsReduce(currentAction) /\ ~IsShiftReduce(currentAction)
    BY <1>1, LayoutAssumption DEF IsReduce, IsShift, IsShiftReduce
  <2> QED
    BY <1>2, <2>1, ActionTaken DEF AfterShift
<1>5. TurnInv'
  BY <1>1, <1>3, <1>4 DEF TurnInv
<1>6. TextInv' /\ CursorInv' /\ LogInv'
  BY <1>1, <1>2, TextKept, CursorAdvanced DEF LogInv
<1>7. ScanInv' /\ ReplayInv' /\ TakeInv'
  BY <1>1 DEF ScanInv, ReplayInv, TakeInv
<1> QED
  BY <1>5, <1>6, <1>7 DEF IInv

LEMMA LexShiftReduceKeepsIt ==
  ASSUME IInv, LexShiftReduce
  PROVE  IInv'
<1>1. PICK r : r = Reduced(stack, Len(stack), currentAction - ERROR_ACTION)
  OBVIOUS
<1>2. /\ pc = "take" /\ ~Parsing /\ IsShiftReduce(currentAction) /\ AdvanceCursor
      /\ action' = action
      /\ IF Complete(r) THEN pc' = "actions"
         ELSE /\ stack' = SubSeq(stack, 1, r.top) /\ currentAction' = r.act /\ pc' = "turn"
      /\ UNCHANGED <<kinds, len, way, save_next_token, kind>>
  BY <1>1 DEF LexShiftReduce, StartActions, text, simulation
<1>3. /\ TextInv /\ CursorInv /\ LogInv
      /\ IsViable(LRAutomaton, stack) /\ Answers(LRAutomaton, stack, currentAction)
      /\ AfterAction(stack, currentAction) = StackAfter(Begun, action)
  BY <1>2, LogHasTaken DEF IInv
<1>4. Keeps(LRAutomaton, stack, r, AfterShiftReduce(stack, currentAction))
  BY <1>1, <1>2, <1>3, ShiftReduceStops, TableAssumption
<1>5. AfterShiftReduce(stack, currentAction) = StackAfter(Begun, action)
  <2>1. ~IsReduce(currentAction)
    BY <1>2, LayoutAssumption DEF IsReduce, IsShiftReduce
  <2> QED
    BY <1>2, <1>3, <2>1, ActionTaken
<1>6. TextInv' /\ CursorInv' /\ LogInv'
  BY <1>2, <1>3, TextKept, CursorAdvanced DEF LogInv
<1>7. CASE Complete(r)
  BY <1>2, <1>6, <1>7, Elsewhere
<1>8. CASE ~Complete(r)
  <2>1. /\ IsViable(LRAutomaton, Append(stack', currentAction'))
        /\ Append(stack', currentAction') = StackAfter(Begun, action')
    BY <1>2, <1>4, <1>5, <1>8 DEF Keeps
  <2>2. TurnInv'
    BY <2>1 DEF TurnInv
  <2>3. ScanInv' /\ ReplayInv' /\ TakeInv'
    BY <1>2, <1>8 DEF ScanInv, ReplayInv, TakeInv
  <2> QED
    BY <1>6, <2>2, <2>3 DEF IInv
<1> QED
  BY <1>7, <1>8

-----------------------------------------------------------------------------
LEMMA NextKeepsIt ==
  ASSUME IInv, [Next]_vars
  PROVE  IInv'
<1>1. CASE Work
  BY <1>1, StartItemKeepsIt, BetweenItemsKeepsIt, TurnKeepsIt, ScanReduceKeepsIt,
     ScanCompletesKeepsIt, ScanFailsKeepsIt, TakeSimulationKeepsIt, StartReplayKeepsIt,
     ReplayReduceKeepsIt, EndReplayKeepsIt, ParseShiftKeepsIt, ParseShiftReduceKeepsIt,
     LexShiftKeepsIt, LexShiftReduceKeepsIt, ActionsTurnKeepsIt DEF Work
<1>2. CASE Stop
  BY <1>2, BetweenItemsKeepsIt
<1>3. CASE UNCHANGED vars
  BY <1>3, StutterKeepsIt DEF vars, text, simulation, log
<1> QED
  BY <1>1, <1>2, <1>3 DEF Next

(* The invariant holds of every scan.                                      *)
THEOREM Invariance == Spec => []IInv
  BY InitKeepsIt, NextKeepsIt, PTL DEF Spec

(* The reductions that a scanner simulates are those it carries out, for   *)
(* every table of an automaton, every text and every call.                 *)
THEOREM SimulationIsAlwaysTheStack == Spec => []SimulationIsTheStack
<1>1. IInv => SimulationIsTheStack
  BY DEF IInv, ScanInv, TakeInv, SimulationIsTheStack, Begun
<1> QED
  BY <1>1, Invariance, PTL

(* A character is taken only on a path of the automaton, and what is done  *)
(* about it is what the table answers there (parseCharacters,              *)
(* lexNextToken).                                                          *)
ScannerInTheTable ==
  pc = "take" => IsViable(LRAutomaton, stack) /\ Answers(LRAutomaton, stack, currentAction)

THEOREM ScannerStaysInTheTable == Spec => []ScannerInTheTable
<1>1. IInv => ScannerInTheTable
  BY DEF IInv, TakeInv, ScannerInTheTable
<1> QED
  BY <1>1, Invariance, PTL

-----------------------------------------------------------------------------
(* The characters of an item that begins at from, by number; before the    *)
(* first one is whatever getPrevious gives there.                          *)
CharactersFrom(from) == [n \in Int |-> IF n < 0 THEN getPrevious(from) ELSE from + n]

LEMMA CharactersFollow ==
  ASSUME NEW from \in Nat, NEW n \in Nat
  PROVE  /\ CharactersFrom(from)[n] = from + n
         /\ CharactersFrom(from)[n - 1] = getPrevious(from + n)
<1>1. n \in Int /\ n - 1 \in Int /\ ~(n < 0)
  OBVIOUS
<1>2. CharactersFrom(from)[n] = from + n
  BY <1>1 DEF CharactersFrom
<1>3. CharactersFrom(from)[n - 1] = IF n - 1 < 0 THEN getPrevious(from) ELSE from + (n - 1)
  BY ONLY <1>1 DEF CharactersFrom
<1>4. CASE n = 0
  BY <1>2, <1>3, <1>4 DEF getPrevious
<1>5. CASE n > 0
  BY <1>2, <1>3, <1>5 DEF getPrevious
<1> QED
  BY <1>4, <1>5

(* The first n places are those where the symbols d, and what follows      *)
(* them, begin.                                                            *)
Lies(n, d, places, from) ==
  /\ d \in Symbols /\ 1 .. n \subseteq DOMAIN places
  /\ \A p \in 1 .. n : places[p] = from + Until(d, p - 1)

(* The symbols d cover what is from from up to here; last is before it.    *)
Reach(d, from, here, last) ==
  here = from + Covered(d) /\ last = CharactersFrom(from)[Covered(d) - 1]

LEMMA CoveredIsNat ==
  ASSUME NEW d \in Symbols
  PROVE  Covered(d) \in Nat /\ Len(d) \in Nat /\ Until(d, Len(d)) = Covered(d)
<1>1. PICK k : k = Len(d)
  OBVIOUS
<1>2. k \in 0 .. Len(d) /\ Until(d, k) = Covered(d) /\ k \in Nat
  BY <1>1, UntilAll
<1> QED
  BY <1>1, <1>2, UntilIsNat

LEMMA OneMoreLies ==
  ASSUME NEW d, NEW places, NEW from, NEW n \in Nat, n = Len(d), Lies(n, d, places, from),
         NEW here, here = from + Covered(d),
         NEW more, more = Written(places, n + 1, here)
  PROVE  Lies(n + 1, d, more, from)
<1>1. /\ d \in Symbols /\ 1 .. n \subseteq DOMAIN places
      /\ \A p \in 1 .. n : places[p] = from + Until(d, p - 1)
  BY DEF Lies
<1>2. PICK D : D = DOMAIN places
  OBVIOUS
<1>3. more = [q \in D \cup {n + 1} |-> IF q = n + 1 THEN here ELSE places[q]]
  BY <1>2 DEF Written
<1>4. 1 .. n + 1 \subseteq DOMAIN more
  BY <1>1, <1>2, <1>3
<1>5. ASSUME NEW p \in 1 .. n + 1 PROVE more[p] = from + Until(d, p - 1)
  <2>1. CASE p = n + 1
    <3>1. p - 1 = Len(d)
      BY <2>1
    <3>2. Until(d, p - 1) = Covered(d)
      BY <1>1, <3>1, CoveredIsNat
    <3> QED
      BY <1>3, <2>1, <3>2
  <2>2. CASE p # n + 1
    <3>1. p \in 1 .. n /\ p \in D
      BY <1>1, <1>2, <2>2
    <3> QED
      BY <1>1, <1>3, <2>2, <3>1
  <2> QED
    BY <2>1, <2>2
<1> QED
  BY <1>1, <1>4, <1>5 DEF Lies

(* The names that stand for the nodes.                                     *)
LEMMA NamesAreLinked ==
  ASSUME NEW d \in Symbols
  PROVE  Linked(Names(d), d) /\ Len(Names(d)) = Len(d) + 1
<1>1. PICK n \in Nat : n = Len(d)
  BY CoveredIsNat
<1>2. \A p \in 1 .. n : d[p].node \in Nat
  <2>1. SUFFICES ASSUME NEW p \in 1 .. n PROVE d[p].node \in Nat
    OBVIOUS
  <2>2. PICK S : S = [node : Nat, count : Nat]
    OBVIOUS
  <2>3. d \in Seq(S) /\ p \in 1 .. Len(d)
    BY <1>1, <2>2 DEF Symbols
  <2>4. d[p] \in S
    BY ONLY <2>3
  <2> QED
    BY <2>2, <2>4
<1>3. PICK names : names = [p \in 1 .. n + 1 |-> IF p <= n THEN d[p].node ELSE UNSET]
  OBVIOUS
<1>4. names = Names(d)
  BY <1>1, <1>3 DEF Names
<1>5. \A p \in 1 .. n + 1 : names[p] \in Int
  BY <1>2, <1>3 DEF UNSET
<1>6. names \in Seq(Int) /\ Len(names) = n + 1
  <2>1. names \in [1 .. n + 1 -> Int] /\ n + 1 \in Nat
    BY <1>3, <1>5
  <2> QED
    BY ONLY <2>1
<1>7. \A p \in 1 .. n : names[p] = d[p].node
  BY <1>3
<1> QED
  BY <1>1, <1>4, <1>6, <1>7 DEF Linked

-----------------------------------------------------------------------------
(* On stack s, the symbols on it and the one that may have been taken.     *)
SymbolsThen(symbols) == symbols = derived \/ symbols = Append(derived, Terminal)

LEMMA OneMoreTaken ==
  ASSUME NEW d \in Symbols, NEW more, more = Append(d, Terminal)
  PROVE  /\ more \in Symbols /\ Len(more) = Len(d) + 1 /\ Covered(more) = Covered(d) + 1
         /\ \A p \in 0 .. Len(d) : Until(more, p) = Until(d, p)
<1>1. PICK s : s = [p \in 1 .. Len(d) + 1 |-> 0]
  OBVIOUS
<1>2. Len(d) \in Nat
  BY CoveredIsNat
<1>3. Len(s) = Len(d) + 1
  BY <1>1, <1>2
<1>4. PICK parse : parse = Names(d)
  OBVIOUS
<1>5. Linked(parse, d)
  BY <1>4, NamesAreLinked
<1>6. PICK room : room = WithRoom(parse, s)
  OBVIOUS
<1> QED
  BY <1>3, <1>5, <1>6, RoomIsMade

(* What a rule action asks for is what is there.                           *)
ShowsRight(shown, n, answers, symbols, top, T) ==
  /\ Showing(shown, n, answers, T) /\ shown.top = top
  /\ top \in Nat /\ top <= n /\ n - 1 <= top
  /\ symbols \in Symbols /\ Covered(symbols) \in Nat
  /\ top < n => answers.first[n] = T[answers.taken] /\ answers.prior[n] = T[answers.taken - 1]

LEMMA AnswersAreRight ==
  ASSUME NEW from \in Nat, NEW T, T = CharactersFrom(from), AllSaw(nodes, T),
         NEW n \in Nat, n = Len(derived) + 1, NEW places, Lies(n, derived, places, from),
         NEW symbols, SymbolsThen(symbols), NEW last, last = T[Covered(symbols) - 1],
         NEW top, top = Len(symbols),
         NEW prior, prior = [p \in DOMAIN places |-> getPrevious(places[p])],
         NEW answers, answers = Answering(places, prior, last, Covered(symbols)),
         NEW shown, shown = Shown(top, Names(symbols), nodes, symbols)
  PROVE  ShowsRight(shown, n, answers, symbols, top, T)
<1>1. /\ derived \in Symbols /\ 1 .. n \subseteq DOMAIN places
      /\ \A p \in 1 .. n : places[p] = from + Until(derived, p - 1)
  BY DEF Lies
<1>2. PICK m \in Nat : m = Len(derived) /\ n = m + 1
  BY <1>1, CoveredIsNat
<1>3. /\ symbols \in Symbols /\ top \in Nat /\ top \in m .. n
      /\ \A p \in 0 .. m : Until(symbols, p) = Until(derived, p)
  <2>1. CASE symbols = derived
    BY <1>1, <1>2, <2>1
  <2>2. CASE symbols = Append(derived, Terminal)
    <3>1. /\ symbols \in Symbols /\ Len(symbols) = m + 1
          /\ \A p \in 0 .. m : Until(symbols, p) = Until(derived, p)
      BY ONLY <1>1, <1>2, <2>2, OneMoreTaken
    <3> QED
      BY <1>2, <3>1
  <2> QED
    BY <2>1, <2>2 DEF SymbolsThen
<1>4. PICK taken \in Nat : taken = Covered(symbols)
  BY <1>3, CoveredIsNat
<1>5. ASSUME NEW p \in 1 .. n
      PROVE  /\ places[p] = T[Until(derived, p - 1)]
             /\ prior[p] = T[Until(derived, p - 1) - 1]
  <2>1. PICK u \in Nat : u = Until(derived, p - 1)
    <3>1. PICK q : q = p - 1
      OBVIOUS
    <3>2. q \in 0 .. Len(derived)
      BY <1>2, <3>1
    <3> QED
      BY <1>1, <3>1, <3>2, UntilIsNat
  <2>2. places[p] = from + u /\ p \in DOMAIN places
    BY <1>1, <2>1
  <2>3. T[u] = from + u /\ T[u - 1] = getPrevious(from + u)
    BY CharactersFollow
  <2> QED
    BY <2>1, <2>2, <2>3
<1>6. /\ answers.first = places /\ answers.prior = prior
      /\ answers.last = last /\ answers.taken = taken
  BY <1>4 DEF Answering
<1>7. PICK names : names = Names(symbols)
  OBVIOUS
<1>8. /\ shown.top = top /\ shown.parseStack = names /\ shown.nodes = nodes
      /\ shown.derived = symbols
  BY <1>7 DEF Shown
<1>9. Linked(names, symbols) /\ n <= Len(names)
  <2>1. Linked(names, symbols) /\ Len(names) = top + 1
    BY <1>3, <1>7, NamesAreLinked
  <2> QED
    BY <1>2, <1>3, <2>1
<1>10. ASSUME NEW p \in 1 .. top
       PROVE  places[p] = T[Until(symbols, p - 1)] /\ prior[p] = T[Until(symbols, p - 1) - 1]
  <2>1. p \in 1 .. n /\ p - 1 \in 0 .. m
    BY <1>2, <1>3
  <2> QED
    BY <1>3, <1>5, <2>1
<1>11. Showing(shown, n, answers, T)
  <2>1. Placed(answers.first, symbols, top, T) /\ PlacedBefore(answers.prior, symbols, top, T)
    BY ONLY <1>6, <1>10 DEF Placed, PlacedBefore
  <2>2. answers.last = T[answers.taken - 1]
    BY <1>4, <1>6
  <2> QED
    BY <1>3, <1>4, <1>6, <1>8, <1>9, <2>1, <2>2 DEF Showing
<1>12. ASSUME top < n
       PROVE  places[n] = T[taken] /\ prior[n] = T[taken - 1]
  <2>1. symbols = derived
    BY <1>1, <1>2, <1>12, OneMoreTaken DEF SymbolsThen
  <2>2. n \in 1 .. n /\ n - 1 = Len(derived)
    BY <1>2
  <2>3. Until(derived, n - 1) = taken
    BY <1>1, <1>4, <2>1, <2>2, CoveredIsNat
  <2> QED
    BY <1>5, <2>2, <2>3
<1> QED
  BY <1>2, <1>3, <1>4, <1>6, <1>8, <1>11, <1>12 DEF ShowsRight

(* What a rule action for START_SYMBOL makes of c characters.              *)
ItemOf(from, c) ==
  Item(from, CharactersFrom(from)[c - 1], IF c = 0 THEN "empty" ELSE "word")

(* A rule whose right-hand side is on top, and those it sets off: their    *)
(* actions see their characters.  An item begins at the bottom, and is     *)
(* listed when it is complete.                                             *)
RulesRan(s, places, symbols, r, from) ==
  /\ r.top \in 1 .. Len(s)
  /\ AllSaw(nodes', CharactersFrom(from))
  /\ IF Complete(r) THEN r.top = 1 /\ derived' = <<>>
     ELSE /\ Len(derived') = r.top /\ Covered(derived') = Covered(symbols)
          /\ Lies(r.top, derived', places, from)
  /\ items' = IF Complete(r) THEN Append(items, ItemOf(from, Covered(symbols))) ELSE items

(* The driver's stack with the state pushed, and what is told of it.       *)
OnStack(s, places, from) ==
  /\ from \in Nat /\ IsViable(LRAutomaton, s)
  /\ Len(s) = Len(derived) + 1 /\ Lies(Len(s), derived, places, from)
  /\ AllSaw(nodes, CharactersFrom(from))

LEMMA BottomIsStart ==
  ASSUME NEW s, IsViable(LRAutomaton, s), NEW p \in 1 .. Len(s),
         <<s[p], 0, START_SYMBOL>> \in LRAutomaton.items
  PROVE  p = 1
<1>1. PICK x : x = <<s[p], 0, START_SYMBOL>>
  OBVIOUS
<1>2. x \in LRAutomaton.items /\ x[1] = s[p] /\ x[2] = 0 /\ x[3] = START_SYMBOL
  BY <1>1
<1>3. s[p] = START_STATE
  BY <1>2, TableAssumption
<1>4. SUFFICES ASSUME p # 1 PROVE FALSE
  OBVIOUS
<1>5. PICK e : e = <<s[p - 1], s[p]>>
  OBVIOUS
<1>6. e \in LRAutomaton.edges /\ e[2] = s[p]
  <2>1. p \in 2 .. Len(s)
    BY <1>4
  <2> QED
    BY <1>5, <2>1 DEF IsViable
<1> QED
  BY <1>3, <1>6, TableAssumption DEF IsAutomaton

LEMMA RulesSee ==
  ASSUME NEW s, NEW places, NEW from, OnStack(s, places, from),
         NEW symbols, SymbolsThen(symbols),
         NEW last, last = CharactersFrom(from)[Covered(symbols) - 1],
         NEW top, top = Len(symbols), NEW rule, NEW left,
         OnTop(LRAutomaton, s, Len(s), top, rule, left),
         NEW r, r = Reduced(s, top, rule), NEW after, Keeps(LRAutomaton, s, r, after),
         RunActions(s, top, rule, symbols, places, last)
  PROVE  RulesRan(s, places, symbols, r, from)
<1>1. PICK n \in Nat : n = Len(s) /\ n > 0 /\ n \in 1 .. n
  BY DEF OnStack, IsViable
<1>2. PICK T : T = CharactersFrom(from)
  OBVIOUS
<1>3. PICK prior : prior = [p \in DOMAIN places |-> getPrevious(places[p])]
  OBVIOUS
<1>4. PICK answers : answers = Answering(places, prior, last, Covered(symbols))
  OBVIOUS
<1>5. PICK shown : shown = Shown(top, Names(symbols), nodes, symbols)
  OBVIOUS
<1>6. PICK ends : ends = {START_SYMBOL}
  OBVIOUS
<1>7. PICK run : run = process_reductions(s, shown, rule, answers, ends)
  OBVIOUS
<1>8. nodes' = run.shown.nodes /\ derived' = IF Complete(r) THEN <<>> ELSE run.shown.derived
  BY <1>3, <1>4, <1>5, <1>6, <1>7 DEF RunActions, Run
<1>9. /\ from \in Nat /\ IsViable(LRAutomaton, s) /\ n = Len(derived) + 1
      /\ Lies(n, derived, places, from) /\ AllSaw(nodes, T)
  BY <1>1, <1>2 DEF OnStack
<1>10. ShowsRight(shown, n, answers, symbols, top, T)
  BY <1>2, <1>3, <1>4, <1>5, <1>9, AnswersAreRight
<1>11. /\ Showing(shown, n, answers, T) /\ shown.top = top
       /\ top \in Nat /\ top <= n /\ n - 1 <= top
       /\ symbols \in Symbols /\ Covered(symbols) \in Nat
       /\ top < n => answers.first[n] = T[answers.taken] /\ answers.prior[n] = T[answers.taken - 1]
  BY ONLY <1>10 DEF ShowsRight
<1>12. PICK a : a = LRAutomaton
  OBVIOUS
<1>13. IsAutomaton(a) /\ IsViable(a, s) /\ OnTop(a, s, n, top, rule, left)
  BY <1>1, <1>9, <1>12, TableAssumption
<1>14. left \in 1 .. n
  <2>1. /\ left \in Int /\ <<s[n], n - left, lhs(rule)>> \in a.items
    BY ONLY <1>13 DEF OnTop
  <2>2. PICK k : k = n - left
    OBVIOUS
  <2>3. k \in Nat /\ n - k \in 1 .. n
    BY <1>1, <1>13, <2>1, <2>2, ItemsBegin
  <2> QED
    BY ONLY <1>1, <2>1, <2>2, <2>3
<1>15. Told(answers, left, top, T)
  <2>1. CASE left <= top
    BY <2>1 DEF Told
  <2>2. CASE ~(left <= top)
    <3>1. left = n /\ top < n
      BY <1>11, <1>14, <2>2
    <3> QED
      BY <1>11, <3>1 DEF Told
  <2> QED
    BY <2>1, <2>2
<1>16. /\ Showing(run.shown, n, answers, T)
       /\ run.shown.top = RulesOf(s, top, rule, ends).top
  <2>1. Showing(shown, Len(s), answers, T) /\ top = shown.top
    BY <1>1, <1>11
  <2>2. left \in 1 .. n /\ RunShows(run, s, top, rule, left, ends, answers, T)
    BY ONLY <1>7, <1>13, <1>15, <2>1, ProcessReductionsShow
  <2> QED
    BY ONLY <1>1, <2>2 DEF RunShows
<1>17. run.shown.top = r.top
  <2>1. RulesOf(s, top, rule, ends).top = Stopped(s, top, rule)[1]
    BY ONLY <1>6, <1>13, RulesStopThere
  <2> QED
    BY <1>16, <2>1 DEF Reduced
<1>18. /\ run.shown.derived \in Symbols /\ Len(run.shown.derived) = r.top
       /\ Covered(run.shown.derived) = Covered(symbols) /\ AllSaw(run.shown.nodes, T)
       /\ Placed(places, run.shown.derived, r.top, T)
  <2>1. answers.first = places /\ answers.taken = Covered(symbols)
    BY <1>4 DEF Answering
  <2> QED
    BY ONLY <1>16, <1>17, <2>1 DEF Showing
<1>19. /\ r.top \in 1 .. n
       /\ Complete(r) => <<s[r.top], 0, START_SYMBOL>> \in LRAutomaton.items
  BY <1>1 DEF Keeps
<1>20. Complete(r) => r.top = 1
  BY <1>1, <1>9, <1>19, BottomIsStart
<1>21. Lies(r.top, run.shown.derived, places, from)
  <2>1. PICK d : d = run.shown.derived
    OBVIOUS
  <2>2. PICK m \in 1 .. n : m = r.top
    BY <1>19
  <2>3. d \in Symbols /\ Len(d) = m /\ Placed(places, d, m, T)
    BY ONLY <1>18, <2>1, <2>2
  <2>4. 1 .. m \subseteq DOMAIN places
    <3>1. 1 .. n \subseteq DOMAIN places
      BY <1>9 DEF Lies
    <3> QED
      BY <1>1, <2>2, <3>1
  <2>5. ASSUME NEW p \in 1 .. m PROVE places[p] = from + Until(d, p - 1)
    <3>1. p - 1 \in 0 .. Len(d)
      BY <2>2, <2>3
    <3>2. PICK u \in Nat : u = Until(d, p - 1)
      BY <2>3, <3>1, UntilIsNat
    <3>3. places[p] = T[u]
      BY <2>3, <3>2 DEF Placed
    <3> QED
      BY <1>2, <1>9, <3>2, <3>3, CharactersFollow
  <2> QED
    BY <2>1, <2>2, <2>3, <2>4, <2>5 DEF Lies
<1>22. items' = IF Complete(r) THEN Append(items, ItemOf(from, Covered(symbols))) ELSE items
  <2>1. items' = IF ~Complete(r) THEN items
                 ELSE Append(items, Item(places[run.shown.top], last,
                                         IF Covered(symbols) = 0 THEN "empty" ELSE "word"))
    BY <1>3, <1>4, <1>5, <1>6, <1>7 DEF RunActions, Run
  <2>2. Complete(r) => places[run.shown.top] = from
    <3>1. SUFFICES ASSUME Complete(r) PROVE places[1] = from
      BY <1>17, <1>20
    <3>2. PICK z : z = 0
      OBVIOUS
    <3>3. PICK d : d = derived
      OBVIOUS
    <3>4. /\ d \in Symbols
          /\ \A p \in 1 .. n : places[p] = from + Until(d, p - 1)
      BY <1>9, <3>3 DEF Lies
    <3>5. 1 \in 1 .. n /\ 1 - 1 = z
      BY <1>1, <3>2
    <3>6. Until(d, z) = 0
      <4>1. SubSeq(d, 1, 0) = <<>> /\ Covered(<<>>) = 0
        BY <3>4, CoveredNothing DEF Symbols
      <4> QED
        BY <3>2, <4>1 DEF Until
    <3>7. places[1] = from + 0
      BY <3>4, <3>5, <3>6
    <3> QED
      BY <1>9, <3>7
  <2> QED
    BY <2>1, <2>2 DEF ItemOf
<1> QED
  BY <1>1, <1>2, <1>8, <1>18, <1>19, <1>20, <1>21, <1>22 DEF RulesRan

LEMMA ReduceSees ==
  ASSUME NEW s, NEW places, NEW from, OnStack(s, places, from),
         NEW act, Answers(LRAutomaton, s, act), IsReduce(act),
         NEW last, last = CharactersFrom(from)[Covered(derived) - 1],
         NEW top, top = Len(s) - 1, RunActions(s, top, act, derived, places, last),
         NEW r, r = Reduced(s, top, act)
  PROVE  RulesRan(s, places, derived, r, from) /\ Keeps(LRAutomaton, s, r, AfterReduce(s, act))
<1>1. /\ IsViable(LRAutomaton, s) /\ IsAutomaton(LRAutomaton) /\ derived \in Symbols
      /\ Len(s) = Len(derived) + 1
  BY TableAssumption DEF OnStack, Lies
<1>2. PICK n \in Nat : n = Len(s) /\ n \in 1 .. n
  BY <1>1 DEF IsViable
<1>3. /\ act \in 0 .. NUM_RULES /\ rhs(act) \in Nat
      /\ <<s[Len(s)], rhs(act), lhs(act)>> \in LRAutomaton.items
  BY <1>1, ReduceHasItem
<1>4. PICK left \in Int : left = top - (rhs(act) - 1) /\ n - left = rhs(act)
  BY <1>2, <1>3
<1>5. OnTop(LRAutomaton, s, Len(s), top, act, left)
  <2>1. top \in Int
    BY <1>2
  <2> QED
    BY <1>2, <1>3, <1>4, <2>1 DEF OnTop
<1>6. Keeps(LRAutomaton, s, r, AfterReduce(s, act))
  BY <1>1, ReduceStops
<1>7. top = Len(derived) /\ SymbolsThen(derived)
  <2>1. Len(derived) \in Nat
    BY <1>1, CoveredIsNat
  <2> QED
    BY <1>1, <2>1 DEF SymbolsThen
<1> QED
  BY <1>5, <1>6, <1>7, RulesSee

LEMMA ShiftReduceSees ==
  ASSUME NEW s, NEW places, NEW from, OnStack(s, places, from),
         NEW act, Answers(LRAutomaton, s, act), IsShiftReduce(act),
         NEW symbols, symbols = Append(derived, Terminal),
         NEW last, last = CharactersFrom(from)[Covered(symbols) - 1],
         NEW top, top = Len(s), NEW rule, rule = act - ERROR_ACTION,
         RunActions(s, top, rule, symbols, places, last),
         NEW r, r = Reduced(s, top, rule)
  PROVE  /\ RulesRan(s, places, symbols, r, from)
         /\ Keeps(LRAutomaton, s, r, AfterShiftReduce(s, act))
<1>1. /\ IsViable(LRAutomaton, s) /\ IsAutomaton(LRAutomaton) /\ derived \in Symbols
      /\ Len(s) = Len(derived) + 1
  BY TableAssumption DEF OnStack, Lies
<1>2. PICK n \in Nat : n = Len(s) /\ n \in 1 .. n
  BY <1>1 DEF IsViable
<1>3. /\ rule \in 0 .. NUM_RULES /\ rhs(rule) \in Nat /\ rhs(rule) > 0
      /\ <<s[Len(s)], rhs(rule) - 1, lhs(rule)>> \in LRAutomaton.items
  BY <1>1, ShiftReduceHasItem
<1>4. PICK left \in Int : left = top - (rhs(rule) - 1) /\ n - left = rhs(rule) - 1
  BY <1>2, <1>3
<1>5. OnTop(LRAutomaton, s, Len(s), top, rule, left)
  <2>1. top \in Int
    BY <1>2
  <2> QED
    BY <1>2, <1>3, <1>4, <2>1 DEF OnTop
<1>6. Keeps(LRAutomaton, s, r, AfterShiftReduce(s, act))
  BY <1>1, ShiftReduceStops
<1>7. top = Len(symbols) /\ SymbolsThen(symbols)
  <2>1. Len(symbols) = Len(derived) + 1
    BY <1>1, OneMoreTaken
  <2> QED
    BY <1>1, <2>1 DEF SymbolsThen
<1> QED
  BY <1>5, <1>6, <1>7, RulesSee

-----------------------------------------------------------------------------
(* What an action of the log does, and whether it completes an item.       *)
MadeBy(s, act) ==
  Reduced(s, IF IsReduce(act) THEN Len(s) - 1 ELSE Len(s),
             IF IsReduce(act) THEN act ELSE act - ERROR_ACTION)

Completes(s, act) == ~IsShift(act) /\ Complete(MadeBy(s, act))

(* The table answers act on stack s, and goes on with it.                  *)
Goes(s, act) ==
  /\ IsReduce(act) \/ IsShift(act) \/ IsShiftReduce(act)
  /\ Answers(LRAutomaton, s, act)

Logs(s, act, ending) == Goes(s, act) /\ (Completes(s, act) <=> ending)

(* A log holds what the table has answered on the stacks that it builds;   *)
(* action ends of it, counted from 0, completes the item.                  *)
Logged(l, ends) ==
  \A n \in 0 .. Len(l) - 1 : Logs(StackAfter(Begun, SubSeq(l, 1, n)), l[n + 1], n = ends)

NoEnd == -1

(* The cursor as it will be when an attempt at the end has been undone.    *)
Position == IF save_next_token = NotSaved THEN index ELSE save_next_token - 1

(* The characters that a log takes are those before the cursor.            *)
Records(l, ends) == Logged(l, ends) /\ Position = starttok + TokensTaken(l)

(* The next character is at the cursor; behind a range there is none.      *)
AtPosition ==
  \/ curtok = Position
  \/ way = "range" /\ curtok = len - 1 /\ current_kind = EOFT_SYMBOL

PlaceInv ==
  /\ starttok \in 0 .. len - 1 /\ curtok \in 0 .. len - 1 /\ Position \in 0 .. len - 1
  /\ way = "range" => end_offset \in Nat /\ end_offset < len - 1
  /\ current_kind # EOFT_SYMBOL => Position < len - 1
  /\ pc # "actions" => AtPosition
  /\ pc \in {"item", "turn", "take", "error"} => save_next_token = NotSaved
  /\ pc \in {"scan", "replay", "take"} => kind \in {current_kind, EOFT_SYMBOL}
  /\ pc = "take" /\ (IsShift(currentAction) \/ IsShiftReduce(currentAction)) =>
       current_kind # EOFT_SYMBOL

(* The stack a turn pushes the state on, and the characters it covers.     *)
Pushed == Append(stack, currentAction)

Standing ==
  /\ IsViable(LRAutomaton, Pushed) /\ stack \in Seq(Int)
  /\ Len(derived) = Len(stack) /\ Lies(Len(stack), derived, locationStack, starttok)
  /\ Reach(derived, starttok, curtok, lastToken)

Stands ==
  /\ OnStack(stack, locationStack, starttok)
  /\ Reach(derived, starttok, curtok, lastToken)

(* lexNextToken's log is one of the table, and ends with the first rule    *)
(* that completes an item: that is what parseActions replays.              *)
LexInv ==
  ~Parsing =>
    /\ pc \in {"turn", "scan", "take"} => derived = <<>>
    /\ pc = "turn" => Records(action, NoEnd)
    /\ pc = "scan" => /\ Records(SubSeq(action, 1, action_save), NoEnd)
                      /\ currentAction # ERROR_ACTION => Records(action, NoEnd)
    /\ pc = "take" => /\ IsShift(currentAction) \/ IsShiftReduce(currentAction)
                      /\ Records(Front(action), NoEnd)

ActionsInv ==
  pc = "actions" =>
    /\ ~Parsing /\ Records(action, Len(action) - 1) /\ i \in 0 .. Len(action) - 1
    /\ Standing /\ Pushed = StackAfter(Begun, SubSeq(action, 1, i))
    /\ Covered(derived) = TokensTaken(SubSeq(action, 1, i))

(* parseCharacters knows where every symbol on its stack begins.           *)
ParseInv ==
  Parsing =>
    /\ pc = "turn" => Standing
    /\ pc \in {"scan", "replay", "take", "error"} => Stands
    /\ pc = "item" => lastToken = getPrevious(curtok)

SeenInv == AllSaw(nodes, CharactersFrom(starttok))

CharactersInv == PlaceInv /\ LexInv /\ ActionsInv /\ ParseInv /\ SeenInv

-----------------------------------------------------------------------------
(* A log with one more answer of the table.                                *)
LEMMA OneMoreLogged ==
  ASSUME NEW l \in Seq(Int), Logged(l, NoEnd), NEW act \in Int,
         NEW ends, Logs(StackAfter(Begun, l), act, Len(l) = ends),
         ends = NoEnd \/ ends = Len(l)
  PROVE  Logged(Append(l, act), ends)
<1>1. PICK k \in Nat : k = Len(l)
  OBVIOUS
<1>2. PICK more : more = Append(l, act)
  OBVIOUS
<1>3. /\ more \in Seq(Int) /\ Len(more) = k + 1 /\ more[k + 1] = act
      /\ \A n \in 1 .. k : more[n] = l[n]
  BY <1>1, <1>2, AppendProperties
<1>4. SUFFICES ASSUME NEW n \in 0 .. k
               PROVE  Logs(StackAfter(Begun, SubSeq(more, 1, n)), more[n + 1], n = ends)
  BY <1>2, <1>3 DEF Logged
<1>5. SubSeq(more, 1, n) = SubSeq(l, 1, n)
  <2>1. n \in Nat /\ n <= Len(l)
    BY <1>1
  <2> QED
    BY <1>2, <2>1, AppendKeepsPrefix
<1>6. CASE n = k
  <2>1. SubSeq(l, 1, n) = l
    BY <1>1, <1>6, WholePrefix
  <2> QED
    BY <1>1, <1>3, <1>5, <1>6, <2>1
<1>7. CASE n # k
  <2>1. n \in 0 .. Len(l) - 1 /\ n + 1 \in 1 .. k /\ n # ends /\ n # NoEnd
    BY <1>1, <1>7 DEF NoEnd
  <2>2. Logs(StackAfter(Begun, SubSeq(l, 1, n)), l[n + 1], n = NoEnd)
    BY <2>1 DEF Logged
  <2>3. more[n + 1] = l[n + 1]
    BY <1>3, <2>1
  <2> QED
    BY <1>5, <2>1, <2>2, <2>3 DEF Logs
<1> QED
  BY <1>6, <1>7

(* Nothing is logged before the first action.                              *)
LEMMA NothingLogged == Logged(<<>>, NoEnd) /\ TokensTaken(<<>>) = 0
<1>1. \A n \in 0 .. Len(<<>>) - 1 : FALSE
  OBVIOUS
<1> QED
  BY <1>1, TokensTakenByNothing DEF Logged

(* At the end of the text the table answers at once, and takes nothing.    *)
LEMMA EofIsNotTaken ==
  ASSUME NEW s, IsViable(LRAutomaton, s), NEW cursor
  PROVE  LET act == tAction(Last(s), EOFT_SYMBOL, cursor) IN ~IsShift(act) /\ ~IsShiftReduce(act)
<1>1. PICK state : state = Last(s)
  OBVIOUS
<1>2. state \in StatesOf(LRAutomaton)
  BY <1>1, TopIsAState
<1>3. PICK act : act = tableAction(state, EOFT_SYMBOL)
  OBVIOUS
<1>4. ~IsShift(act) /\ ~IsShiftReduce(act) /\ ~(act > LA_STATE_OFFSET)
  BY <1>2, <1>3, TableAssumption
<1>5. tAction(state, EOFT_SYMBOL, cursor) = act
  BY <1>3, <1>4 DEF tAction, AsksForMore
<1> QED
  BY <1>1, <1>4, <1>5

(* What the rule actions saw stays what they saw.                          *)
LEMMA SeenStays ==
  ASSUME SeenInv, UNCHANGED <<nodes, starttok>>
  PROVE  SeenInv'
BY DEF SeenInv, CharactersFrom, getPrevious

LEMMA NothingSeen ==
  ASSUME NEW T
  PROVE  AllSaw(<<>>, T)
<1>1. PICK S : S = {}
  OBVIOUS
<1>2. <<>> \in Seq(S) /\ \A x \in S : Saw(x, T)
  BY <1>1
<1> QED
  BY <1>2 DEF AllSaw

(* A log, the stack and the places, where the code leaves them alone.      *)
LEMMA RecordsStay ==
  ASSUME NEW l, NEW ends, Records(l, ends), starttok' = starttok, Position' = Position
  PROVE  Records(l, ends)'
BY DEF Records

LEMMA StandsStay ==
  ASSUME Stands, UNCHANGED <<stack, locationStack, starttok, derived, curtok, lastToken, nodes>>
  PROVE  Stands'
BY DEF Stands, OnStack, Reach, CharactersFrom, getPrevious

-----------------------------------------------------------------------------
(* The cursor: where it stays, is restored, and is advanced.               *)
LEMMA PlaceStays ==
  ASSUME PlaceInv, UNCHANGED <<len, way, end_offset, starttok, curtok, current_kind>>,
         Position' = Position, pc # "actions",
         pc' \in {"item", "turn", "take", "error"} => save_next_token' = NotSaved,
         pc' \in {"scan", "replay", "take"} => kind' \in {current_kind, EOFT_SYMBOL},
         pc' = "take" /\ (IsShift(currentAction') \/ IsShiftReduce(currentAction')) =>
           current_kind # EOFT_SYMBOL
  PROVE  PlaceInv'
<1>1. AtPosition'
  BY DEF PlaceInv, AtPosition
<1> QED
  BY <1>1 DEF PlaceInv, NotSaved, IsShift, IsShiftReduce

LEMMA PlaceRestored ==
  ASSUME RestoreCursor
  PROVE  Position' = Position /\ save_next_token' = NotSaved
BY DEF RestoreCursor, Position, NotSaved

LEMMA PlaceAdvanced ==
  ASSUME TextInv, PlaceInv, save_next_token = NotSaved, current_kind # EOFT_SYMBOL,
         pc # "actions", AdvanceCursor, UNCHANGED <<kinds, len, way, end_offset, save_next_token>>
  PROVE  /\ curtok = Position /\ Position' = Position + 1 /\ Position' \in 0 .. len - 1
         /\ NextInText \in 0 .. len - 1
         /\ \/ NextInText = Position'
            \/ way = "range" /\ NextInText = len - 1 /\ current_kind' = EOFT_SYMBOL
         /\ current_kind' # EOFT_SYMBOL => Position' < len - 1
<1>1. /\ len \in Nat /\ Position = index /\ Position \in 0 .. len - 1 /\ Position < len - 1
      /\ curtok = Position
  BY DEF TextInv, PlaceInv, AtPosition, Position
<1>2. PICK p \in Nat : p = index /\ p + 1 < len
  BY <1>1
<1>3. getNext(index) = p + 1
  BY <1>1, <1>2 DEF getNext
<1>4. index' = p + 1 /\ Position' = p + 1 /\ current_kind' = getKind(NextInText)
  BY <1>3 DEF AdvanceCursor, Position
<1>5. NextInText = p + 1 \/ (way = "range" /\ NextInText = len - 1)
  BY <1>3 DEF NextInText
<1>6. NextInText = len - 1 => current_kind' = EOFT_SYMBOL
  BY <1>4 DEF TextInv
<1> QED
  BY <1>1, <1>2, <1>4, <1>5, <1>6

(* A character after it has been taken.                                    *)
LEMMA PlaceTaken ==
  ASSUME TextInv, PlaceInv, save_next_token = NotSaved, current_kind # EOFT_SYMBOL,
         pc # "actions", NextCharacter, pc' \in {"turn", "item"},
         UNCHANGED <<kinds, len, way, end_offset, save_next_token, starttok>>
  PROVE  PlaceInv'
<1>1. AdvanceCursor /\ curtok' = NextInText
  BY DEF NextCharacter
<1>2. /\ Position' \in 0 .. len - 1 /\ NextInText \in 0 .. len - 1
      /\ \/ NextInText = Position'
         \/ way = "range" /\ NextInText = len - 1 /\ current_kind' = EOFT_SYMBOL
      /\ current_kind' # EOFT_SYMBOL => Position' < len - 1
  BY <1>1, PlaceAdvanced
<1>3. AtPosition'
  BY <1>1, <1>2 DEF AtPosition
<1> QED
  BY <1>1, <1>2, <1>3 DEF PlaceInv, NotSaved

(* lastToken is always before the current one.                             *)
LEMMA LastIsBefore ==
  ASSUME starttok \in Nat, NEW d \in Symbols, NEW here, NEW last, Reach(d, starttok, here, last)
  PROVE  last = getPrevious(here) /\ here \in Nat
<1>1. PICK c \in Nat : c = Covered(d)
  BY CoveredIsNat
<1>2. PICK from \in Nat : from = starttok
  OBVIOUS
<1>3. last = CharactersFrom(from)[c - 1] /\ here = from + c
  BY <1>1, <1>2 DEF Reach
<1>4. CharactersFrom(from)[c - 1] = getPrevious(from + c)
  BY CharactersFollow
<1> QED
  BY <1>3, <1>4

(* The state is pushed and its place written.                              *)
LEMMA PushStands ==
  ASSUME Standing, starttok \in Nat, SeenInv, NEW s, s = Pushed,
         NEW places, places = Written(locationStack, Len(s), curtok)
  PROVE  OnStack(s, places, starttok) /\ Len(s) = Len(stack) + 1 /\ Len(stack) \in Nat
<1>1. PICK n \in Nat : n = Len(stack)
  BY DEF Standing
<1>2. Len(s) = n + 1
  <2>1. currentAction \in Int
    <3>1. PICK t : t = Pushed
      OBVIOUS
    <3>2. t \in Seq(Int) /\ Len(t) = n + 1 /\ t[n + 1] = currentAction
      <4>1. t \in Seq(Int) /\ stack \in Seq(Int) /\ t = Append(stack, currentAction)
        BY <3>1 DEF Standing, IsViable, Pushed
      <4>2. PICK S : S = Int \cup {currentAction}
        OBVIOUS
      <4>3. stack \in Seq(S) /\ currentAction \in S
        BY <4>1, <4>2
      <4> QED
        BY <1>1, <4>1, <4>3, AppendProperties
    <3> QED
      BY <3>2
  <2>2. stack \in Seq(Int)
    BY DEF Standing
  <2> QED
    BY <1>1, <2>1, <2>2, AppendProperties DEF Pushed
<1>3. Lies(n, derived, locationStack, starttok) /\ n = Len(derived) /\ curtok = starttok + Covered(derived)
  BY <1>1 DEF Standing, Reach
<1>4. Lies(n + 1, derived, places, starttok)
  BY <1>2, <1>3, OneMoreLies
<1> QED
  BY <1>1, <1>2, <1>3, <1>4 DEF OnStack, Standing, SeenInv

(* A log begins with nothing on the stack but the start state.             *)
LEMMA BeginsStanding ==
  ASSUME stack' = <<>>, currentAction' = START_STATE, derived' = <<>>,
         starttok' \in Nat, curtok' = starttok', lastToken' = getPrevious(starttok')
  PROVE  Standing' /\ Pushed' = Begun
<1>1. Pushed' = Begun /\ IsViable(LRAutomaton, Begun)
  BY StartIsViable, TableAssumption DEF Pushed, Begun
<1>2. <<>> \in Symbols /\ <<>> \in Seq(Int) /\ Len(<<>>) = 0 /\ Covered(<<>>) = 0
  BY CoveredNothing DEF Symbols
<1>3. Lies(0, derived', locationStack', starttok')
  BY <1>2 DEF Lies
<1>4. Reach(derived', starttok', curtok', lastToken')
  <2>1. PICK from \in Nat : from = starttok'
    OBVIOUS
  <2>2. PICK n \in Nat : n = 0
    OBVIOUS
  <2>3. CharactersFrom(from)[n - 1] = getPrevious(from + n)
    BY CharactersFollow
  <2>4. from + n = from
    BY <2>2
  <2> QED
    BY <1>2, <2>1, <2>2, <2>3, <2>4 DEF Reach
<1> QED
  BY <1>1, <1>2, <1>3, <1>4 DEF Standing

-----------------------------------------------------------------------------
(* Between two items.                                                      *)
LEMMA InitMakesCharacters ==
  ASSUME Init, TextInv
  PROVE  CharactersInv
<1>1. PICK call \in Calls :
        /\ way = call.way /\ start_offset = call.first /\ end_offset = call.last
        /\ call.way = "range" => call.first <= call.last /\ call.last < len - 1
  BY DEF Init
<1>2. call.first \in Nat /\ call.last \in Nat
  BY TableAssumption
<1>3. /\ index = getNext(start_offset - 1) /\ curtok = index /\ current_kind = getKind(curtok)
      /\ starttok = 0 /\ lastToken = getPrevious(curtok) /\ save_next_token = NotSaved
      /\ pc = "item" /\ nodes = <<>>
  BY DEF Init
<1>4. len \in Nat /\ len > 0 /\ getKind(len - 1) = EOFT_SYMBOL
  BY DEF TextInv
<1>5. index \in 0 .. len - 1
  <2>1. PICK o \in Nat : o = start_offset
    BY <1>1, <1>2
  <2> QED
    BY <1>3, <1>4, <2>1 DEF getNext
<1>6. Position = index /\ AtPosition
  BY <1>3 DEF Position, AtPosition
<1>7. current_kind # EOFT_SYMBOL => Position < len - 1
  BY <1>3, <1>4, <1>5, <1>6
<1>8. PlaceInv
  BY <1>1, <1>2, <1>3, <1>4, <1>5, <1>6, <1>7 DEF PlaceInv
<1>9. SeenInv
  BY <1>3, NothingSeen DEF SeenInv
<1> QED
  BY <1>3, <1>8, <1>9 DEF CharactersInv, LexInv, ActionsInv, ParseInv

LEMMA StartItemKeepsCharacters ==
  ASSUME CharactersInv, IInv, StartItem
  PROVE  CharactersInv'
<1>1. /\ pc = "item" /\ pc' = "turn" /\ More
      /\ starttok' = curtok /\ stack' = <<>> /\ currentAction' = START_STATE
      /\ action' = <<>> /\ nodes' = <<>> /\ derived' = <<>>
      /\ UNCHANGED <<kinds, len, way, end_offset, index, curtok, current_kind, lastToken,
                     save_next_token>>
  BY DEF StartItem, text
<1>2. /\ PlaceInv /\ ParseInv /\ TextInv
  BY DEF CharactersInv, IInv
<1>3. /\ curtok \in 0 .. len - 1 /\ Position \in 0 .. len - 1 /\ AtPosition /\ len \in Nat
      /\ way = "range" => end_offset \in Nat /\ end_offset < len - 1
      /\ current_kind # EOFT_SYMBOL => Position < len - 1
      /\ save_next_token = NotSaved
  BY <1>1, <1>2 DEF PlaceInv, TextInv
<1>4. Position' = Position
  BY <1>1 DEF Position
<1>5. curtok = Position
  <2>1. SUFFICES ASSUME way = "range", curtok = len - 1 PROVE FALSE
    BY <1>3 DEF AtPosition
  <2>2. curtok <= end_offset
    BY <1>1, <2>1 DEF More
  <2> QED
    BY <1>3, <2>1, <2>2
<1>6. PlaceInv'
  BY <1>1, <1>3, <1>4, <1>5 DEF PlaceInv, AtPosition
<1>7. Parsing' = Parsing
  BY <1>1 DEF Parsing
<1>8. Parsing => Standing'
  <2>1. SUFFICES ASSUME Parsing PROVE Standing'
    OBVIOUS
  <2>2. lastToken = getPrevious(curtok)
    BY <1>1, <1>2, <2>1 DEF ParseInv
  <2>3. starttok' \in Nat /\ lastToken' = getPrevious(starttok')
    BY <1>1, <1>3, <2>2 DEF getPrevious
  <2> QED
    BY <1>1, <2>3, BeginsStanding
<1>9. Records(action, NoEnd)'
  <2>1. Position = curtok + 0
    BY <1>3, <1>5
  <2> QED
    BY <1>1, <1>4, <2>1, NothingLogged DEF Records
<1>10. SeenInv'
  BY <1>1, NothingSeen DEF SeenInv
<1> QED
  BY <1>1, <1>6, <1>7, <1>8, <1>9, <1>10 DEF CharactersInv, LexInv, ActionsInv, ParseInv

LEMMA PassesKeepCharacters ==
  ASSUME CharactersInv, Return \/ Stop \/ NothingMore
  PROVE  CharactersInv'
<1>1. /\ pc # "actions" /\ pc' \in {"done", "cancelled"}
      /\ UNCHANGED <<len, way, end_offset, starttok, curtok, current_kind, index,
                     save_next_token, nodes>>
  BY DEF Return, Stop, NothingMore, text, seen
<1>2. Position' = Position
  BY <1>1 DEF Position
<1>3. PlaceInv'
  BY <1>1, <1>2, PlaceStays DEF CharactersInv
<1>4. SeenInv'
  BY <1>1, SeenStays DEF CharactersInv
<1> QED
  BY <1>1, <1>3, <1>4 DEF CharactersInv, LexInv, ActionsInv, ParseInv

LEMMA BadCharacterKeepsCharacters ==
  ASSUME CharactersInv, IInv, BadCharacter
  PROVE  CharactersInv'
<1>1. /\ pc = "error" /\ pc' = "item" /\ current_kind # EOFT_SYMBOL
      /\ lastToken' = curtok /\ NextCharacter
      /\ UNCHANGED <<kinds, len, way, end_offset, starttok, save_next_token, nodes>>
  BY DEF BadCharacter, text, seen
<1>2. PlaceInv /\ SeenInv /\ TextInv /\ save_next_token = NotSaved
  BY <1>1 DEF CharactersInv, IInv, PlaceInv
<1>3. PlaceInv'
  BY <1>1, <1>2, PlaceTaken
<1>4. Parsing => lastToken' = getPrevious(curtok')
  <2>1. /\ curtok = Position /\ Position' = Position + 1 /\ Position' \in 0 .. len - 1
        /\ NextInText = Position' \/ way = "range"
    BY <1>1, <1>2, PlaceAdvanced DEF NextCharacter
  <2>2. SUFFICES ASSUME Parsing PROVE curtok' = curtok + 1 /\ curtok \in Nat
    BY <1>1 DEF getPrevious
  <2>3. curtok' = NextInText /\ NextInText = Position'
    BY <1>1, <2>1, <2>2 DEF NextCharacter, Parsing
  <2> QED
    BY <1>2, <2>1, <2>3 DEF PlaceInv
<1>5. SeenInv'
  BY <1>1, <1>2, SeenStays
<1>6. Parsing' = Parsing /\ getPrevious(curtok)' = getPrevious(curtok')
  BY <1>1 DEF Parsing, getPrevious
<1> QED
  BY <1>1, <1>3, <1>4, <1>5, <1>6 DEF CharactersInv, LexInv, ActionsInv, ParseInv

LEMMA BadTokenKeepsCharacters ==
  ASSUME CharactersInv, BadToken
  PROVE  CharactersInv'
<1>1. /\ pc = "error" /\ pc' = "item" /\ lastToken' = IF Parsing THEN lastToken ELSE getPrevious(curtok)
      /\ UNCHANGED <<len, way, end_offset, starttok, curtok, current_kind, index,
                     save_next_token, nodes>>
  BY DEF BadToken, text, seen
<1>2. Position' = Position /\ Parsing' = Parsing
  BY <1>1 DEF Position, Parsing
<1>3. PlaceInv'
  <2>1. save_next_token = NotSaved
    BY <1>1 DEF CharactersInv, PlaceInv
  <2> QED
    BY <1>1, <1>2, <2>1, PlaceStays DEF CharactersInv, NotSaved
<1>4. Parsing => lastToken' = getPrevious(curtok)
  <2>1. SUFFICES ASSUME Parsing PROVE lastToken = getPrevious(curtok)
    BY <1>1
  <2>2. /\ derived \in Symbols /\ starttok \in Nat /\ Reach(derived, starttok, curtok, lastToken)
    BY <1>1, <2>1 DEF CharactersInv, ParseInv, Stands, OnStack, Lies
  <2> QED
    BY <2>2, LastIsBefore
<1>5. SeenInv'
  BY <1>1, SeenStays DEF CharactersInv
<1>6. getPrevious(curtok)' = getPrevious(curtok)
  BY <1>1 DEF getPrevious
<1> QED
  BY <1>1, <1>2, <1>3, <1>4, <1>5, <1>6 DEF CharactersInv, LexInv, ActionsInv, ParseInv

LEMMA StutterKeepsCharacters ==
  ASSUME CharactersInv, UNCHANGED vars
  PROVE  CharactersInv'
<1>1. /\ UNCHANGED <<kinds, len, way, start_offset, end_offset>>
      /\ UNCHANGED <<index, curtok, current_kind, starttok, lastToken, stack, locationStack>>
      /\ UNCHANGED <<kind, save_next_token, currentAction, action, action_save, i, items, pc>>
      /\ UNCHANGED <<nodes, derived>>
  BY DEF vars, text, simulation, log, seen
<1>2. Position' = Position /\ Parsing' = Parsing /\ AtPosition' = AtPosition
  BY <1>1 DEF Position, Parsing, AtPosition
<1>3. PlaceInv'
  BY <1>1, <1>2 DEF CharactersInv, PlaceInv, NotSaved, IsShift, IsShiftReduce
<1>4. SeenInv'
  BY <1>1, SeenStays DEF CharactersInv
<1>5. \A l, ends : Records(l, ends)' <=> Records(l, ends)
  BY <1>1, <1>2 DEF Records
<1>6. Standing' <=> Standing
  BY <1>1 DEF Standing, Pushed, Lies, Reach, CharactersFrom, getPrevious
<1>7. Stands' <=> Stands
  BY <1>1 DEF Stands, OnStack, Lies, Reach, CharactersFrom, getPrevious
<1>8. LexInv'
  BY <1>1, <1>2, <1>5 DEF CharactersInv, LexInv, IsShift, IsShiftReduce
<1>9. ActionsInv'
  BY <1>1, <1>2, <1>5, <1>6 DEF CharactersInv, ActionsInv, Pushed
<1>10. ParseInv'
  BY <1>1, <1>2, <1>6, <1>7 DEF CharactersInv, ParseInv, getPrevious
<1> QED
  BY <1>3, <1>4, <1>8, <1>9, <1>10 DEF CharactersInv

-----------------------------------------------------------------------------
(* What is tried on the simulated stack is what the table answers there.   *)
LEMMA ScanAnswers ==
  ASSUME IInv, pc = "scan", currentAction # ERROR_ACTION
  PROVE  /\ IsViable(LRAutomaton, Simulated) /\ Answers(LRAutomaton, Simulated, currentAction)
         /\ Len(Simulated) = tempStackTop + 1 /\ tempStackTop \in Nat
         /\ ~Parsing => Simulated = StackAfter(Begun, action)
         /\ kind = EOFT_SYMBOL => ~IsShift(currentAction) /\ ~IsShiftReduce(currentAction)
<1>1. PICK s : s = Simulated
  OBVIOUS
<1>2. /\ TextInv /\ index \in Int /\ index >= -1 /\ kind \in LRAutomaton.terminals
      /\ Tried /\ currentAction = tAction(Last(s), kind, index)
      /\ ~Parsing => s = StackAfter(Begun, action)
  BY <1>1 DEF IInv, CursorInv, ScanInv, NextAction
<1>3. IsViable(LRAutomaton, s) /\ tempStackTop \in Nat
  BY <1>1, <1>2 DEF Tried
<1>4. Answers(LRAutomaton, s, currentAction)
  <2>1. PICK k \in LRAutomaton.terminals : k = kind
    BY <1>2
  <2>2. PICK cursor \in Int : cursor = index /\ cursor >= -1
    BY <1>2
  <2>3. Answers(LRAutomaton, s, tAction(Last(s), k, cursor))
    BY <1>2, <1>3, <2>2, tActionOfText
  <2> QED
    BY <1>2, <2>1, <2>2, <2>3
<1>5. Len(s) = tempStackTop + 1
  <2>1. PICK m \in Nat : m = tempStackTop + 1
    BY <1>3
  <2>2. s = [p \in 1 .. m |-> StateAt(p)]
    BY <1>1, <2>1 DEF Simulated
  <2>3. DOMAIN s = 1 .. m
    BY <2>2
  <2>4. DOMAIN s = 1 .. Len(s) /\ Len(s) \in Nat
    BY <1>3 DEF IsViable
  <2> QED
    BY <2>1, <2>3, <2>4
<1>6. kind = EOFT_SYMBOL => ~IsShift(currentAction) /\ ~IsShiftReduce(currentAction)
  BY <1>2, <1>3, EofIsNotTaken
<1> QED
  BY <1>1, <1>2, <1>3, <1>4, <1>5, <1>6

(* The log with the reduction that is simulated.                           *)
LEMMA ReductionIsLogged ==
  ASSUME IInv, Scanning, ~Parsing, Records(action, NoEnd), starttok \in Nat,
         NEW act, act = currentAction, NEW more, more = Append(action, act)
  PROVE  /\ Records(more, IF Complete(NextReduction) THEN Len(more) - 1 ELSE NoEnd)
         /\ Len(more) = Len(action) + 1 /\ Len(action) \in Nat
         /\ action_save \in 0 .. Len(action)
         /\ SubSeq(more, 1, action_save) = SubSeq(action, 1, action_save)
<1>1. /\ pc = "scan" /\ IsReduce(act) /\ act \in Int /\ act # ERROR_ACTION
      /\ ~IsShift(act) /\ ~IsShiftReduce(act)
  BY LayoutAssumption DEF Scanning, IsReduce, IsShift, IsShiftReduce
<1>2. PICK s : s = Simulated
  OBVIOUS
<1>3. /\ Answers(LRAutomaton, s, act) /\ Len(s) = tempStackTop + 1 /\ tempStackTop \in Nat
      /\ s = StackAfter(Begun, action)
  BY <1>1, <1>2, ScanAnswers
<1>4. PICK l : l = action
  OBVIOUS
<1>5. /\ l \in Seq(Int) /\ action_save \in 0 .. Len(l)
      /\ Logged(l, NoEnd) /\ Position = starttok + TokensTaken(l)
  BY <1>1, <1>4 DEF IInv, LogInv, ScanInv, Records
<1>6. more = Append(l, act) /\ Len(more) = Len(l) + 1 /\ Len(l) \in Nat
  BY <1>1, <1>4, <1>5, AppendProperties
<1>7. PICK ends : ends = IF Complete(NextReduction) THEN Len(l) ELSE NoEnd
  OBVIOUS
<1>8. Completes(s, act) <=> Complete(NextReduction)
  <2>1. MadeBy(s, act) = NextReduction
    <3>1. Len(s) - 1 = tempStackTop
      BY <1>3
    <3> QED
      BY <1>1, <1>2, <3>1 DEF MadeBy, NextReduction
  <2> QED
    BY <1>1, <2>1 DEF Completes
<1>9. Logs(StackAfter(Begun, l), act, Len(l) = ends)
  <2>1. Len(l) # NoEnd
    BY <1>6 DEF NoEnd
  <2> QED
    BY <1>1, <1>3, <1>4, <1>7, <1>8, <2>1 DEF Logs, Goes
<1>10. Logged(more, ends)
  BY <1>1, <1>5, <1>6, <1>7, <1>9, OneMoreLogged
<1>11. TokensTaken(more) = TokensTaken(l)
  BY <1>1, <1>5, <1>6, TokensTakenByOneMore
<1>12. SubSeq(more, 1, action_save) = SubSeq(l, 1, action_save)
  <2>1. PICK n \in Nat : n = action_save /\ n <= Len(l)
    BY <1>5, <1>6
  <2> QED
    BY <1>1, <1>5, <1>6, <2>1, AppendKeepsPrefix
<1>13. ends = IF Complete(NextReduction) THEN Len(more) - 1 ELSE NoEnd
  BY <1>6, <1>7
<1> QED
  BY <1>4, <1>5, <1>6, <1>10, <1>11, <1>12, <1>13 DEF Records

LEMMA TurnKeepsCharacters ==
  ASSUME CharactersInv, IInv, Turn
  PROVE  CharactersInv'
<1>1. PICK s : s = Pushed
  OBVIOUS
<1>2. /\ pc = "turn" /\ pc' = "scan" /\ stack' = s /\ kind' = current_kind
      /\ action_save' = Len(action) /\ Parsing' = Parsing
      /\ Parsing => locationStack' = Written(locationStack, Len(s), curtok)
      /\ UNCHANGED <<kinds, len, way, end_offset, index, curtok, current_kind, starttok, lastToken,
                     save_next_token, action, nodes, derived>>
  BY <1>1 DEF Turn, Attempt, text, seen, Pushed, Parsing
<1>3. PlaceInv /\ SeenInv /\ ParseInv /\ LexInv /\ TextInv /\ action \in Seq(Int)
  BY DEF CharactersInv, IInv, LogInv
<1>4. Position' = Position
  BY <1>2 DEF Position
<1>5. PlaceInv'
  BY <1>2, <1>3, <1>4, PlaceStays
<1>6. SeenInv'
  BY <1>2, <1>3, SeenStays
<1>7. Parsing => Stands'
  <2>1. SUFFICES ASSUME Parsing PROVE Stands'
    OBVIOUS
  <2>2. Standing /\ starttok \in Nat
    BY <1>2, <1>3, <2>1 DEF ParseInv, PlaceInv, TextInv
  <2>3. PICK places : places = Written(locationStack, Len(s), curtok)
    OBVIOUS
  <2>4. OnStack(s, places, starttok)
    BY <1>1, <1>3, <2>2, <2>3, PushStands
  <2>5. stack' = s /\ locationStack' = places
    BY <1>2, <2>1, <2>3
  <2>6. OnStack(stack, locationStack, starttok)'
    <3>1. CharactersFrom(starttok)' = CharactersFrom(starttok)
      BY <1>2 DEF CharactersFrom, getPrevious
    <3> QED
      BY <1>2, <2>4, <2>5, <3>1 DEF OnStack
  <2>7. Reach(derived, starttok, curtok, lastToken)'
    BY <1>2, <2>2 DEF Standing, Reach, CharactersFrom, getPrevious
  <2> QED
    BY <2>6, <2>7 DEF Stands
<1>8. ~Parsing => derived' = <<>> /\ Records(action, NoEnd)' /\ SubSeq(action', 1, action_save') = action'
  <2>1. SubSeq(action, 1, Len(action)) = action
    BY <1>3, WholePrefix
  <2> QED
    BY <1>2, <1>3, <1>4, <2>1 DEF LexInv, Records
<1>9. LexInv'
  BY <1>2, <1>8 DEF LexInv, Records
<1> QED
  BY <1>2, <1>5, <1>6, <1>7, <1>9 DEF CharactersInv, ActionsInv, ParseInv

LEMMA ScanReduceKeepsCharacters ==
  ASSUME CharactersInv, IInv, ScanReduce
  PROVE  CharactersInv'
<1>1. PICK act : act = currentAction
  OBVIOUS
<1>2. /\ pc = "scan" /\ pc' = "scan" /\ Scanning /\ ~Complete(NextReduction)
      /\ action' = IF Parsing THEN action ELSE Append(action, act)
      /\ Parsing' = Parsing
      /\ UNCHANGED <<kinds, len, way, end_offset, index, curtok, current_kind, starttok, lastToken,
                     stack, locationStack, kind, save_next_token, action_save, nodes, derived>>
  BY <1>1 DEF ScanReduce, Scanning, text, seen, Parsing
<1>3. /\ PlaceInv /\ SeenInv /\ ParseInv /\ LexInv /\ starttok \in Nat
      /\ kind \in {current_kind, EOFT_SYMBOL}
  BY <1>2 DEF CharactersInv, PlaceInv, IInv, TextInv
<1>4. Position' = Position
  BY <1>2 DEF Position
<1>5. PlaceInv'
  BY <1>2, <1>3, <1>4, PlaceStays
<1>6. SeenInv'
  BY <1>2, <1>3, SeenStays
<1>7. Parsing => Stands'
  BY <1>2, <1>3, StandsStay DEF ParseInv
<1>8. ~Parsing => /\ derived' = <<>> /\ Records(action, NoEnd)'
                  /\ Records(SubSeq(action, 1, action_save), NoEnd)'
  <2>1. SUFFICES ASSUME ~Parsing
                 PROVE  /\ derived' = <<>> /\ Records(action, NoEnd)'
                        /\ Records(SubSeq(action, 1, action_save), NoEnd)'
    OBVIOUS
  <2>2. /\ derived = <<>> /\ Records(action, NoEnd)
        /\ Records(SubSeq(action, 1, action_save), NoEnd)
    BY <1>2, <1>3, <2>1, LayoutAssumption DEF LexInv, Scanning, IsReduce
  <2>3. PICK more : more = Append(action, act)
    OBVIOUS
  <2>4. /\ Records(more, NoEnd)
        /\ SubSeq(more, 1, action_save) = SubSeq(action, 1, action_save)
    BY <1>1, <1>2, <1>3, <2>1, <2>2, <2>3, ReductionIsLogged
  <2> QED
    BY <1>2, <1>4, <2>1, <2>2, <2>3, <2>4 DEF Records
<1>9. LexInv'
  BY <1>2, <1>8 DEF LexInv
<1> QED
  BY <1>2, <1>5, <1>6, <1>7, <1>9 DEF CharactersInv, ActionsInv, ParseInv

LEMMA StartReplayKeepsCharacters ==
  ASSUME CharactersInv, StartReplay
  PROVE  CharactersInv'
<1>1. /\ pc = "scan" /\ pc' = "replay" /\ Parsing /\ Parsing' = Parsing
      /\ UNCHANGED <<len, way, end_offset, index, curtok, current_kind, starttok, lastToken,
                     stack, locationStack, kind, save_next_token, nodes, derived>>
  BY DEF StartReplay, text, seen, simulation, Parsing
<1>2. /\ PlaceInv /\ SeenInv /\ Stands /\ kind \in {current_kind, EOFT_SYMBOL}
  BY <1>1 DEF CharactersInv, PlaceInv, ParseInv
<1>3. Position' = Position
  BY <1>1 DEF Position
<1>4. PlaceInv'
  BY <1>1, <1>2, <1>3, PlaceStays
<1>5. SeenInv' /\ Stands'
  BY <1>1, <1>2, SeenStays, StandsStay
<1> QED
  BY <1>1, <1>4, <1>5 DEF CharactersInv, LexInv, ActionsInv, ParseInv

LEMMA EndReplayKeepsCharacters ==
  ASSUME CharactersInv, IInv, EndReplay
  PROVE  CharactersInv'
<1>1. /\ pc = "replay" /\ pc' = "take" /\ RestoreCursor
      /\ UNCHANGED <<len, way, end_offset, curtok, current_kind, starttok, lastToken,
                     stack, locationStack, kind, currentAction, nodes, derived>>
  BY DEF EndReplay, text, seen, simulation
<1>2. /\ PlaceInv /\ SeenInv /\ ParseInv /\ kind \in {current_kind, EOFT_SYMBOL}
      /\ Parsing /\ IsViable(LRAutomaton, stack)
      /\ currentAction = tAction(Last(stack), kind, index)
  BY <1>1 DEF CharactersInv, PlaceInv, IInv, ReplayInv, NextAction
<1>3. Position' = Position /\ save_next_token' = NotSaved /\ Parsing' = Parsing
  BY <1>1, PlaceRestored DEF Parsing
<1>4. kind = EOFT_SYMBOL => ~IsShift(currentAction) /\ ~IsShiftReduce(currentAction)
  <2>1. PICK st : st = stack
    OBVIOUS
  <2>2. PICK cursor : cursor = index
    OBVIOUS
  <2> QED
    BY <1>2, <2>1, <2>2, EofIsNotTaken
<1>5. PlaceInv'
  BY <1>1, <1>2, <1>3, <1>4, PlaceStays
<1>6. SeenInv' /\ Stands'
  BY <1>1, <1>2, SeenStays, StandsStay DEF ParseInv
<1> QED
  BY <1>1, <1>2, <1>3, <1>5, <1>6 DEF CharactersInv, LexInv, ActionsInv, ParseInv

LEMMA TakeSimulationKeepsCharacters ==
  ASSUME CharactersInv, IInv, TakeSimulation
  PROVE  CharactersInv'
<1>1. PICK act : act = currentAction
  OBVIOUS
<1>2. /\ pc = "scan" /\ pc' = "take" /\ ~Parsing /\ RestoreCursor
      /\ IsShift(act) \/ IsShiftReduce(act)
      /\ action' = Append(action, act)
      /\ UNCHANGED <<len, way, end_offset, curtok, current_kind, starttok, kind, currentAction,
                     nodes, derived>>
  BY <1>1 DEF TakeSimulation, text, seen, simulation
<1>3. act \in Int /\ act # ERROR_ACTION /\ action \in Seq(Int)
  BY <1>2, LayoutAssumption DEF IsShift, IsShiftReduce, IInv, LogInv
<1>4. /\ PlaceInv /\ SeenInv /\ LexInv /\ kind \in {current_kind, EOFT_SYMBOL}
      /\ derived = <<>> /\ Records(action, NoEnd)
  BY <1>1, <1>2, <1>3 DEF CharactersInv, PlaceInv, LexInv
<1>5. Position' = Position /\ save_next_token' = NotSaved /\ Parsing' = Parsing
  BY <1>2, PlaceRestored DEF Parsing
<1>6. kind # EOFT_SYMBOL
  BY <1>1, <1>2, <1>3, ScanAnswers
<1>7. PlaceInv'
  BY <1>1, <1>2, <1>4, <1>5, <1>6, PlaceStays
<1>8. Front(action') = action
  BY <1>2, <1>3, FrontOfLonger
<1>9. Records(Front(action), NoEnd)'
  <2>1. Front(action)' = Front(action')
    BY DEF Front
  <2> QED
    BY <1>2, <1>4, <1>5, <1>8, <2>1 DEF Records
<1>10. LexInv'
  BY <1>1, <1>2, <1>4, <1>9 DEF LexInv, IsShift, IsShiftReduce
<1>11. SeenInv'
  BY <1>2, <1>4, SeenStays
<1> QED
  BY <1>2, <1>5, <1>7, <1>10, <1>11 DEF CharactersInv, ActionsInv, ParseInv

(* parseActions begins.                                                    *)
LEMMA ActionsBegin ==
  ASSUME StartActions(action'), ~Parsing, PlaceInv, derived = <<>>, TextInv,
         UNCHANGED <<len, way, end_offset, starttok, nodes, derived>>, SeenInv,
         Position' \in 0 .. len - 1, current_kind' # EOFT_SYMBOL => Position' < len - 1,
         NEW n \in Nat, Len(action') = n + 1, Logged(action', n),
         Position' = starttok + TokensTaken(action')
  PROVE  CharactersInv'
<1>1. /\ curtok' = starttok' /\ lastToken' = getPrevious(starttok') /\ stack' = <<>>
      /\ currentAction' = START_STATE /\ i' = 0 /\ pc' = "actions" /\ Parsing' = Parsing
      /\ derived' = <<>> /\ starttok' \in Nat
  BY DEF StartActions, getPrevious, Parsing, PlaceInv, TextInv
<1>2. PlaceInv'
  BY <1>1 DEF PlaceInv
<1>3. SeenInv'
  BY SeenStays
<1>4. Standing' /\ Pushed' = Begun
  BY <1>1, BeginsStanding
<1>5. i' \in 0 .. Len(action') - 1 /\ Len(action') - 1 = n
  BY <1>1
<1>6. /\ StackAfter(Begun, SubSeq(action', 1, i')) = Begun
      /\ TokensTaken(SubSeq(action', 1, i')) = 0
  <2>1. SubSeq(action', 1, 0) = <<>>
    OBVIOUS
  <2> QED
    BY <1>1, <2>1, StackAfterNothing, TokensTakenByNothing
<1>7. Covered(derived') = 0
  BY <1>1, CoveredNothing
<1>8. Records(action, Len(action) - 1)'
  BY <1>5 DEF Records
<1>9. ActionsInv'
  BY <1>1, <1>4, <1>5, <1>6, <1>7, <1>8 DEF ActionsInv
<1> QED
  BY <1>1, <1>2, <1>3, <1>9 DEF CharactersInv, LexInv, ParseInv

LEMMA ScanCompletesKeepsCharacters ==
  ASSUME CharactersInv, IInv, ScanCompletes
  PROVE  CharactersInv'
<1>1. PICK act : act = currentAction
  OBVIOUS
<1>2. PICK more : more = Append(action, act)
  OBVIOUS
<1>3. /\ pc = "scan" /\ Scanning /\ ~Parsing /\ Complete(NextReduction)
      /\ \/ /\ action' = more /\ currentAction' = ERROR_ACTION
            /\ UNCHANGED <<curtok, lastToken, stack, i, pc>>
         \/ StartActions(more)
      /\ UNCHANGED <<kinds, len, way, end_offset, index, current_kind, kind, save_next_token,
                     action_save, starttok, nodes, derived>>
  BY <1>1, <1>2 DEF ScanCompletes, Scanning, text, simulation, seen
<1>4. currentAction # ERROR_ACTION
  BY <1>3, LayoutAssumption DEF Scanning, IsReduce
<1>5. /\ PlaceInv /\ SeenInv /\ starttok \in Nat /\ TextInv
      /\ kind \in {current_kind, EOFT_SYMBOL} /\ Position \in 0 .. len - 1
      /\ current_kind # EOFT_SYMBOL => Position < len - 1
      /\ derived = <<>> /\ Records(action, NoEnd)
      /\ Records(SubSeq(action, 1, action_save), NoEnd)
  BY <1>3, <1>4 DEF CharactersInv, PlaceInv, LexInv, IInv, TextInv
<1>6. Position' = Position /\ Parsing' = Parsing
  BY <1>3 DEF Position, Parsing
<1>7. /\ Records(more, Len(more) - 1) /\ Len(more) = Len(action) + 1 /\ Len(action) \in Nat
      /\ SubSeq(more, 1, action_save) = SubSeq(action, 1, action_save)
  BY <1>1, <1>2, <1>3, <1>5, ReductionIsLogged
<1>8. CASE StartActions(more)
  <2>1. action' = more
    BY <1>8 DEF StartActions
  <2>2. PICK n \in Nat : n = Len(action) /\ Len(more) = n + 1 /\ Len(more) - 1 = n
    BY <1>7
  <2>3. Logged(action', n) /\ Position' = starttok + TokensTaken(action')
    BY <1>6, <1>7, <2>1, <2>2 DEF Records
  <2> QED
    BY <1>3, <1>5, <1>6, <1>8, <2>1, <2>2, <2>3, ActionsBegin
<1>9. CASE /\ action' = more /\ currentAction' = ERROR_ACTION
           /\ UNCHANGED <<curtok, lastToken, stack, i, pc>>
  <2>1. PlaceInv'
    BY <1>3, <1>5, <1>6, <1>9, PlaceStays
  <2>2. SeenInv'
    BY <1>3, <1>5, SeenStays
  <2>3. Records(SubSeq(action, 1, action_save), NoEnd)'
    BY <1>3, <1>5, <1>6, <1>7, <1>9 DEF Records
  <2>4. LexInv'
    BY <1>3, <1>5, <1>9, <2>3 DEF LexInv
  <2> QED
    BY <1>3, <1>6, <1>9, <2>1, <2>2, <2>4 DEF CharactersInv, ActionsInv, ParseInv
<1> QED
  BY <1>3, <1>8, <1>9

(* An attempt at the end of the text, or the last one, has failed.         *)
LEMMA ScanFailsKeepsCharacters ==
  ASSUME CharactersInv, IInv, ScanFails
  PROVE  CharactersInv' /\ Position' = Position
<1>1. PICK cut : cut = SubSeq(action, 1, action_save)
  OBVIOUS
<1>2. /\ pc = "scan" /\ action' = cut
      /\ UNCHANGED <<kinds, len, way, end_offset, curtok, current_kind, starttok, lastToken, stack,
                     locationStack, action_save, nodes, derived>>
  BY <1>1 DEF ScanFails, text, seen
<1>3. /\ PlaceInv /\ SeenInv /\ ParseInv /\ LexInv /\ TextInv
      /\ action \in Seq(Int) /\ action_save \in 0 .. Len(action)
  BY <1>2 DEF CharactersInv, IInv, LogInv, ScanInv
<1>4. ~Parsing => derived = <<>> /\ Records(cut, NoEnd)
  BY <1>1, <1>2, <1>3 DEF LexInv
<1>5. SubSeq(cut, 1, action_save) = cut
  <2>1. PICK n \in Nat : n = action_save /\ n <= Len(action)
    BY <1>3
  <2>2. cut \in Seq(Int) /\ Len(cut) = n
    BY <1>1, <1>3, <2>1
  <2> QED
    BY <2>1, <2>2, WholePrefix
<1>6. SeenInv' /\ (Parsing => Stands') /\ Parsing' = Parsing
  BY <1>2, <1>3, SeenStays, StandsStay DEF ParseInv, Parsing
<1>7. CASE ~TryEof
  <2>1. RestoreCursor /\ pc' = "error"
    BY <1>7 DEF ScanFails
  <2>2. Position' = Position /\ save_next_token' = NotSaved
    BY <2>1, PlaceRestored
  <2>3. PlaceInv'
    BY <1>2, <1>3, <2>1, <2>2, PlaceStays
  <2> QED
    BY <1>6, <2>1, <2>2, <2>3 DEF CharactersInv, LexInv, ActionsInv, ParseInv
<1>8. CASE TryEof
  <2>1. /\ save_next_token = NotSaved /\ current_kind # EOFT_SYMBOL
        /\ save_next_token' = getNext(index) /\ pc' = "scan" /\ kind' = EOFT_SYMBOL
    BY <1>8 DEF ScanFails, TryEof, Attempt, peek
  <2>2. Position = index /\ Position \in 0 .. len - 1 /\ Position < len - 1 /\ len \in Nat
    BY <1>3, <2>1 DEF Position, PlaceInv, TextInv
  <2>3. PICK p \in Nat : p = index /\ p + 1 < len
    BY <2>2
  <2>4. save_next_token' = p + 1
    BY <2>1, <2>3 DEF getNext
  <2>5. Position' = Position
    BY <2>2, <2>3, <2>4 DEF Position, NotSaved
  <2>6. PlaceInv'
    BY <1>2, <1>3, <2>1, <2>5, PlaceStays
  <2>7. ~Parsing => /\ derived' = <<>> /\ Records(action, NoEnd)'
                    /\ Records(SubSeq(action, 1, action_save), NoEnd)'
    BY <1>2, <1>4, <1>5, <2>5 DEF Records
  <2>8. LexInv'
    BY <1>6, <2>1, <2>7 DEF LexInv
  <2> QED
    BY <1>6, <2>1, <2>5, <2>6, <2>8 DEF CharactersInv, ActionsInv, ParseInv
<1> QED
  BY <1>7, <1>8

-----------------------------------------------------------------------------
(* The stack after a rule, with the state it goes on in and without.       *)
LEMMA CutAndOneMore ==
  ASSUME NEW st \in Seq(Int), NEW m \in 1 .. Len(st), NEW x
  PROVE  /\ SubSeq(st, 1, m) \in Seq(Int) /\ Len(SubSeq(st, 1, m)) = m
         /\ Len(Append(SubSeq(st, 1, m), x)) = m + 1
<1>1. PICK cut : cut = SubSeq(st, 1, m)
  OBVIOUS
<1>2. cut \in Seq(Int) /\ Len(cut) = m
  BY <1>1
<1>3. PICK S : S = Int \cup {x}
  OBVIOUS
<1>4. cut \in Seq(S) /\ x \in S
  BY <1>2, <1>3
<1> QED
  BY <1>1, <1>2, <1>4, AppendProperties

(* Where no rule ends an item the driver stands for its next turn.         *)
LEMMA RulesLeaveItStanding ==
  ASSUME NEW s, NEW places, NEW from \in Nat, NEW symbols, NEW r, NEW after,
         RulesRan(s, places, symbols, r, from), Keeps(LRAutomaton, s, r, after),
         IsViable(LRAutomaton, s), ~Complete(r),
         stack' = SubSeq(s, 1, r.top), currentAction' = r.act, locationStack' = places,
         starttok' = from, Reach(symbols, from, curtok', lastToken')
  PROVE  Standing' /\ Pushed' = after /\ Covered(derived') = Covered(symbols)
<1>1. PICK m \in 1 .. Len(s) : m = r.top
  BY DEF Keeps
<1>2. /\ after = Append(SubSeq(s, 1, m), r.act) /\ IsViable(LRAutomaton, after)
      /\ Len(derived') = m /\ Covered(derived') = Covered(symbols)
      /\ Lies(m, derived', places, from)
  BY <1>1 DEF Keeps, RulesRan
<1>3. stack' \in Seq(Int) /\ Len(stack') = m
  <2>1. s \in Seq(Int)
    BY DEF IsViable
  <2> QED
    BY <1>1, <2>1, CutAndOneMore
<1>4. Pushed' = after
  BY <1>1, <1>2 DEF Pushed
<1>5. CharactersFrom(starttok)' = CharactersFrom(from)
  BY DEF CharactersFrom, getPrevious
<1>6. Reach(derived, starttok, curtok, lastToken)'
  BY <1>2, <1>5 DEF Reach
<1> QED
  BY <1>2, <1>3, <1>4, <1>6 DEF Standing

(* The item so far, of c characters, is listed unless more is to come.     *)
Lists(c, more) ==
  c \in Nat /\ items' = IF more THEN items ELSE Append(items, ItemOf(starttok, c))

(* parseNextCharacter's reductions.                                        *)
LEMMA ReplayReduceKeepsCharacters ==
  ASSUME CharactersInv, IInv, ReplayReduce
  PROVE  CharactersInv' /\ \E c : curtok = starttok + c /\ Lists(c, pc' = "replay")
<1>1. PICK s : s = stack
  OBVIOUS
<1>2. PICK act : act = currentAction
  OBVIOUS
<1>3. PICK places : places = locationStack
  OBVIOUS
<1>4. PICK top : top = Len(s) - 1
  OBVIOUS
<1>5. PICK r : r = Reduced(s, top, act)
  OBVIOUS
<1>6. PICK last : last = lastToken
  OBVIOUS
<1>7. /\ pc = "replay" /\ IsReduce(act)
      /\ RunActions(s, top, act, derived, places, last)
      /\ UNCHANGED <<len, way, end_offset, curtok, current_kind, starttok, lastToken, kind>>
      /\ ~Complete(r) => /\ stack' = Append(SubSeq(s, 1, r.top), r.act)
                         /\ locationStack' = Written(places, Len(stack'), curtok)
                         /\ UNCHANGED <<index, save_next_token, pc>>
      /\ Complete(r) => /\ stack' = SubSeq(s, 1, r.top) /\ locationStack' = places
                        /\ \/ /\ starttok = curtok /\ currentAction' = ERROR_ACTION /\ pc' = "scan"
                              /\ UNCHANGED <<index, save_next_token>>
                           \/ pc' = "item" /\ RestoreCursor
  BY <1>1, <1>2, <1>3, <1>4, <1>5, <1>6 DEF ReplayReduce, Replaying, text, simulation
<1>8. PICK from : from = starttok
  OBVIOUS
<1>9. /\ PlaceInv /\ SeenInv /\ Parsing /\ from \in Nat /\ kind \in {current_kind, EOFT_SYMBOL}
      /\ OnStack(s, places, from) /\ Reach(derived, from, curtok, last)
      /\ currentAction = tAction(Last(s), kind, index) /\ IsViable(LRAutomaton, s)
      /\ TextInv /\ CursorInv /\ starttok \in 0 .. len - 1 /\ len \in Nat
  BY <1>1, <1>3, <1>6, <1>7, <1>8
     DEF CharactersInv, PlaceInv, ParseInv, Stands, IInv, ReplayInv, NextAction, TextInv
<1>10. Answers(LRAutomaton, s, act)
  <2>1. PICK k \in LRAutomaton.terminals : k = kind
    BY <1>9 DEF CursorInv
  <2>2. PICK cursor \in Int : cursor = index /\ cursor >= -1
    BY <1>9 DEF CursorInv
  <2>3. Answers(LRAutomaton, s, tAction(Last(s), k, cursor))
    BY <1>9, <2>2, tActionOfText
  <2> QED
    BY <1>2, <1>9, <2>1, <2>2, <2>3
<1>11. RulesRan(s, places, derived, r, from) /\ Keeps(LRAutomaton, s, r, AfterReduce(s, act))
  <2>1. last = CharactersFrom(from)[Covered(derived) - 1]
    BY <1>9 DEF Reach
  <2> QED
    BY <1>4, <1>5, <1>7, <1>9, <1>10, <2>1, ReduceSees
<1>12. SeenInv'
  <2>1. CharactersFrom(starttok)' = CharactersFrom(from)
    BY <1>7, <1>8 DEF CharactersFrom, getPrevious
  <2> QED
    BY <1>11, <2>1 DEF RulesRan, SeenInv
<1>13. PICK m \in 1 .. Len(s) : m = r.top
  BY <1>11 DEF Keeps
<1>14. derived \in Symbols /\ s \in Seq(Int)
  BY <1>9 DEF OnStack, Lies, IsViable
<1>15. PICK c \in Nat : c = Covered(derived)
  BY <1>14, CoveredIsNat
<1>16. curtok = from + c /\ last = CharactersFrom(from)[c - 1] /\ last = getPrevious(curtok)
  BY <1>8, <1>9, <1>14, <1>15, LastIsBefore DEF Reach
<1>17. Parsing' = Parsing /\ CharactersFrom(starttok)' = CharactersFrom(from)
  BY <1>7, <1>8 DEF Parsing, CharactersFrom, getPrevious
<1>18. curtok = starttok + c /\ Lists(c, pc' = "replay")
  <2>1. pc' = "replay" <=> ~Complete(r)
    BY <1>7
  <2> QED
    BY <1>8, <1>11, <1>15, <1>16, <2>1 DEF Lists, RulesRan
<1>19. SUFFICES CharactersInv'
  BY <1>18
<1>20. CASE ~Complete(r)
  <2>1. /\ AfterReduce(s, act) = Append(SubSeq(s, 1, m), r.act) /\ Len(derived') = m
        /\ stack' = AfterReduce(s, act) /\ IsViable(LRAutomaton, stack')
        /\ Covered(derived') = c /\ Lies(m, derived', places, from) /\ Len(stack') = m + 1
    <3>1. /\ AfterReduce(s, act) = Append(SubSeq(s, 1, m), r.act)
          /\ IsViable(LRAutomaton, AfterReduce(s, act))
      BY <1>11, <1>13, <1>20 DEF Keeps
    <3>2. Len(derived') = m /\ Covered(derived') = c /\ Lies(m, derived', places, from)
      BY <1>11, <1>13, <1>15, <1>20 DEF RulesRan
    <3>3. stack' = AfterReduce(s, act)
      BY <1>7, <1>13, <1>20, <3>1
    <3>4. Len(Append(SubSeq(s, 1, m), r.act)) = m + 1
      BY <1>14, CutAndOneMore
    <3> QED
      BY <3>1, <3>2, <3>3, <3>4
  <2>2. locationStack' = Written(places, m + 1, curtok)
    BY <1>7, <1>20, <2>1
  <2>3. PICK d : d = derived'
    OBVIOUS
  <2>4. PICK here : here = curtok
    OBVIOUS
  <2>5. m \in Nat /\ m = Len(d) /\ here = from + Covered(d) /\ Lies(m, d, places, from)
    BY <1>13, <1>14, <1>15, <1>16, <2>1, <2>3, <2>4
  <2>6. Lies(m + 1, d, locationStack', from)
    BY <2>2, <2>4, <2>5, OneMoreLies
  <2>7. OnStack(stack, locationStack, starttok)'
    BY <1>7, <1>8, <1>9, <1>11, <1>17, <2>1, <2>3, <2>6 DEF OnStack, RulesRan
  <2>8. Reach(derived, starttok, curtok, lastToken)'
    BY <1>6, <1>7, <1>8, <1>16, <1>17, <2>1 DEF Reach
  <2>9. Stands'
    BY <2>7, <2>8 DEF Stands
  <2>10. Position' = Position /\ pc' = "replay"
    BY <1>7, <1>20 DEF Position
  <2>11. PlaceInv'
    BY <1>7, <1>9, <2>10, PlaceStays
  <2> QED
    BY <1>9, <1>12, <1>17, <2>9, <2>10, <2>11 DEF CharactersInv, LexInv, ActionsInv, ParseInv
<1>21. CASE Complete(r) /\ pc' = "item" /\ RestoreCursor
  <2>1. Position' = Position /\ save_next_token' = NotSaved
    BY <1>21, PlaceRestored
  <2>2. PlaceInv'
    BY <1>7, <1>9, <1>21, <2>1, PlaceStays
  <2>3. (lastToken = getPrevious(curtok))'
    BY <1>6, <1>7, <1>16 DEF getPrevious
  <2> QED
    BY <1>9, <1>12, <1>17, <1>21, <2>2, <2>3 DEF CharactersInv, LexInv, ActionsInv, ParseInv
<1>22. CASE /\ Complete(r) /\ starttok = curtok /\ pc' = "scan"
            /\ UNCHANGED <<index, save_next_token>>
  <2>1. m = 1 /\ derived' = <<>> /\ stack' = SubSeq(s, 1, 1) /\ locationStack' = places
    BY <1>7, <1>11, <1>13, <1>22 DEF RulesRan
  <2>2. <<>> \in Symbols /\ Len(<<>>) = 0 /\ Covered(<<>>) = 0
    BY CoveredNothing DEF Symbols
  <2>3. c = 0 /\ curtok = from + 0
    <3>1. from \in Nat /\ from + c = from
      BY <1>8, <1>9, <1>16, <1>22
    <3>2. c = 0
      BY <3>1
    <3> QED
      BY <1>16, <3>2
  <2>4. Len(stack') = 1 /\ IsViable(LRAutomaton, stack')
    <3>1. SubSeq(s, 1, 1) \in Seq(Int) /\ Len(SubSeq(s, 1, 1)) = 1 /\ SubSeq(s, 1, 1)[1] = s[1]
      BY <1>13, <1>14, <2>1
    <3>2. \A p \in 2 .. 1 : FALSE
      OBVIOUS
    <3> QED
      BY <1>9, <2>1, <3>1, <3>2 DEF IsViable
  <2>5. Lies(1, <<>>, places, from)
    <3>1. /\ 1 .. Len(s) \subseteq DOMAIN places
          /\ \A p \in 1 .. Len(s) : places[p] = from + Until(derived, p - 1)
      BY <1>9 DEF OnStack, Lies
    <3>2. PICK d : d = derived
      OBVIOUS
    <3>3. PICK z : z = 0
      OBVIOUS
    <3>4. Until(d, z) = 0 /\ Until(<<>>, z) = 0
      <4>1. SubSeq(d, 1, 0) = <<>> /\ SubSeq(<<>>, 1, 0) = <<>>
        BY <1>14, <3>2 DEF Symbols
      <4> QED
        BY <2>2, <3>3, <4>1 DEF Until
    <3>5. 1 \in 1 .. Len(s) /\ 1 - 1 = z
      BY <1>13, <2>1, <3>3
    <3>6. places[1] = from + 0
      BY <3>1, <3>2, <3>4, <3>5
    <3> QED
      BY <2>2, <3>1, <3>4, <3>5, <3>6 DEF Lies
  <2>6. OnStack(stack, locationStack, starttok)'
    BY <1>7, <1>8, <1>9, <1>11, <1>17, <2>1, <2>2, <2>4, <2>5 DEF OnStack, RulesRan
  <2>7. Reach(derived, starttok, curtok, lastToken)'
    BY <1>6, <1>7, <1>8, <1>16, <1>17, <2>1, <2>2, <2>3 DEF Reach
  <2>8. Stands'
    BY <2>6, <2>7 DEF Stands
  <2>9. Position' = Position
    BY <1>22 DEF Position
  <2>10. PlaceInv'
    BY <1>7, <1>9, <1>22, <2>9, PlaceStays
  <2> QED
    BY <1>9, <1>12, <1>17, <1>22, <2>8, <2>10 DEF CharactersInv, LexInv, ActionsInv, ParseInv
<1> QED
  BY <1>7, <1>20, <1>21, <1>22

-----------------------------------------------------------------------------
(* A character is taken.                                                   *)
LEMMA CharacterIsTaken ==
  ASSUME NEW s, NEW places, NEW from, OnStack(s, places, from),
         NEW here, NEW last, Reach(derived, from, here, last),
         NEW more, more = Append(derived, Terminal)
  PROVE  /\ Lies(Len(s), more, places, from) /\ Reach(more, from, here + 1, here)
         /\ here = CharactersFrom(from)[Covered(more) - 1]
         /\ Len(more) = Len(s) /\ s \in Seq(Int) /\ Covered(more) = Covered(derived) + 1
<1>1. PICK d : d = derived
  OBVIOUS
<1>2. /\ from \in Nat /\ d \in Symbols /\ Len(s) = Len(d) + 1 /\ s \in Seq(Int)
      /\ 1 .. Len(s) \subseteq DOMAIN places
      /\ \A p \in 1 .. Len(s) : places[p] = from + Until(d, p - 1)
  BY <1>1 DEF OnStack, Lies, IsViable
<1>3. PICK n \in Nat : n = Len(d)
  BY <1>2, CoveredIsNat
<1>4. PICK c \in Nat : c = Covered(d)
  BY <1>2, CoveredIsNat
<1>5. /\ more \in Symbols /\ Len(more) = n + 1 /\ Covered(more) = c + 1
      /\ \A p \in 0 .. n : Until(more, p) = Until(d, p)
  BY <1>1, <1>2, <1>3, <1>4, OneMoreTaken
<1>6. here = from + c
  BY <1>1, <1>4 DEF Reach
<1>7. CharactersFrom(from)[c] = from + c
  BY <1>2, CharactersFollow
<1>8. Lies(Len(s), more, places, from)
  <2>1. ASSUME NEW p \in 1 .. Len(s) PROVE places[p] = from + Until(more, p - 1)
    <3>1. p - 1 \in 0 .. n
      BY <1>2, <1>3
    <3> QED
      BY <1>2, <1>5, <3>1
  <2> QED
    BY <1>2, <1>5, <2>1 DEF Lies
<1>9. Covered(more) - 1 = c /\ here + 1 = from + Covered(more)
  BY <1>2, <1>5, <1>6
<1> QED
  BY <1>1, <1>2, <1>3, <1>4, <1>5, <1>6, <1>7, <1>8, <1>9 DEF Reach

(* What both ways of parseCharacters to take one have in common.           *)
LEMMA ParseTakes ==
  ASSUME CharactersInv, IInv, pc = "take", Parsing, NextCharacter,
         IsShift(currentAction) \/ IsShiftReduce(currentAction),
         pc' \in {"turn", "item"},
         UNCHANGED <<kinds, len, way, end_offset, save_next_token, starttok>>
  PROVE  /\ PlaceInv' /\ curtok' = curtok + 1 /\ curtok \in Nat /\ Stands /\ SeenInv
         /\ Answers(LRAutomaton, stack, currentAction) /\ starttok \in Nat /\ Parsing'
<1>1. /\ PlaceInv /\ TextInv /\ save_next_token = NotSaved /\ current_kind # EOFT_SYMBOL
      /\ Stands /\ SeenInv /\ Answers(LRAutomaton, stack, currentAction)
      /\ starttok \in Nat /\ curtok \in Nat
  BY DEF CharactersInv, PlaceInv, ParseInv, IInv, TakeInv, TextInv
<1>2. PlaceInv'
  BY <1>1, PlaceTaken
<1>3. /\ curtok = Position /\ Position' = Position + 1 /\ curtok' = NextInText
      /\ NextInText = Position' \/ way = "range"
  BY <1>1, PlaceAdvanced DEF NextCharacter
<1>4. Parsing' /\ way # "range"
  BY DEF Parsing
<1> QED
  BY <1>1, <1>2, <1>3, <1>4

LEMMA ParseShiftKeepsCharacters ==
  ASSUME CharactersInv, IInv, ParseShift
  PROVE  CharactersInv'
<1>1. /\ pc = "take" /\ pc' = "turn" /\ Parsing /\ IsShift(currentAction) /\ NextCharacter
      /\ lastToken' = curtok /\ derived' = Append(derived, Terminal)
      /\ UNCHANGED <<kinds, len, way, end_offset, save_next_token, starttok, stack, locationStack,
                     currentAction, nodes>>
  BY DEF ParseShift, text
<1>2. /\ PlaceInv' /\ curtok' = curtok + 1 /\ Stands /\ SeenInv /\ Parsing'
      /\ Answers(LRAutomaton, stack, currentAction)
  BY <1>1, ParseTakes
<1>3. PICK s : s = stack
  OBVIOUS
<1>4. PICK places : places = locationStack
  OBVIOUS
<1>5. PICK from : from = starttok
  OBVIOUS
<1>6. PICK here : here = curtok
  OBVIOUS
<1>7. PICK last : last = lastToken
  OBVIOUS
<1>8. PICK more : more = Append(derived, Terminal)
  OBVIOUS
<1>9. OnStack(s, places, from) /\ Reach(derived, from, here, last) /\ IsViable(LRAutomaton, s)
  BY <1>2, <1>3, <1>4, <1>5, <1>6, <1>7 DEF Stands, OnStack
<1>10. /\ Lies(Len(s), more, places, from) /\ Reach(more, from, here + 1, here)
       /\ Len(more) = Len(s) /\ s \in Seq(Int)
  BY <1>8, <1>9, CharacterIsTaken
<1>11. IsViable(LRAutomaton, Append(s, currentAction))
  BY <1>1, <1>2, <1>3, <1>9, ShiftArrives, TableAssumption DEF AfterShift
<1>12. CharactersFrom(starttok)' = CharactersFrom(from)
  BY <1>1, <1>5 DEF CharactersFrom, getPrevious
<1>13. Reach(derived, starttok, curtok, lastToken)'
  BY <1>1, <1>2, <1>5, <1>6, <1>8, <1>10, <1>12 DEF Reach
<1>14. Standing'
  BY <1>1, <1>3, <1>4, <1>5, <1>8, <1>10, <1>11, <1>13 DEF Standing, Pushed
<1>15. SeenInv'
  BY <1>1, <1>2, SeenStays
<1> QED
  BY <1>1, <1>2, <1>14, <1>15 DEF CharactersInv, LexInv, ActionsInv, ParseInv

LEMMA ParseShiftReduceKeepsCharacters ==
  ASSUME CharactersInv, IInv, ParseShiftReduce
  PROVE  CharactersInv' /\ \E c : curtok + 1 = starttok + c /\ Lists(c, pc' = "turn")
<1>1. PICK s : s = stack
  OBVIOUS
<1>2. PICK act : act = currentAction
  OBVIOUS
<1>3. PICK places : places = locationStack
  OBVIOUS
<1>4. PICK top : top = Len(s)
  OBVIOUS
<1>5. PICK rule : rule = act - ERROR_ACTION
  OBVIOUS
<1>6. PICK r : r = Reduced(s, top, rule)
  OBVIOUS
<1>7. PICK here : here = curtok
  OBVIOUS
<1>8. PICK more : more = Append(derived, Terminal)
  OBVIOUS
<1>9. /\ pc = "take" /\ Parsing /\ IsShiftReduce(act) /\ NextCharacter /\ lastToken' = here
      /\ RunActions(s, top, rule, more, places, here)
      /\ stack' = SubSeq(s, 1, r.top) /\ currentAction' = r.act
      /\ pc' = IF Complete(r) THEN "item" ELSE "turn"
      /\ UNCHANGED <<kinds, len, way, end_offset, save_next_token, starttok, locationStack>>
  BY <1>1, <1>2, <1>3, <1>4, <1>5, <1>6, <1>7, <1>8 DEF ParseShiftReduce, text
<1>10. /\ PlaceInv' /\ curtok' = here + 1 /\ here \in Nat /\ Stands /\ Parsing'
       /\ Answers(LRAutomaton, s, act)
  BY <1>1, <1>2, <1>7, <1>9, ParseTakes
<1>11. PICK from \in Nat : from = starttok
  BY <1>10 DEF Stands, OnStack
<1>12. PICK last : last = lastToken
  OBVIOUS
<1>13. OnStack(s, places, from) /\ Reach(derived, from, here, last) /\ IsViable(LRAutomaton, s)
  BY <1>1, <1>3, <1>7, <1>10, <1>11, <1>12 DEF Stands, OnStack
<1>14. /\ Reach(more, from, here + 1, here) /\ here = CharactersFrom(from)[Covered(more) - 1]
  BY <1>8, <1>13, CharacterIsTaken
<1>15. RulesRan(s, places, more, r, from) /\ Keeps(LRAutomaton, s, r, AfterShiftReduce(s, act))
  BY <1>4, <1>5, <1>6, <1>8, <1>9, <1>10, <1>13, <1>14, ShiftReduceSees
<1>16. SeenInv'
  <2>1. CharactersFrom(starttok)' = CharactersFrom(from)
    BY <1>9, <1>11 DEF CharactersFrom, getPrevious
  <2> QED
    BY <1>15, <2>1 DEF RulesRan, SeenInv
<1>17. PICK c \in Nat : c = Covered(more)
  <2>1. derived \in Symbols
    BY <1>13 DEF OnStack, Lies
  <2>2. more \in Symbols
    BY <1>8, <2>1, OneMoreTaken
  <2> QED
    BY <2>2, CoveredIsNat
<1>18. curtok + 1 = starttok + c /\ Lists(c, pc' = "turn")
  <2>1. pc' = "turn" <=> ~Complete(r)
    BY <1>9
  <2> QED
    BY <1>7, <1>11, <1>14, <1>15, <1>17, <2>1 DEF Lists, RulesRan, Reach
<1>19. SUFFICES CharactersInv'
  BY <1>18
<1>20. CASE Complete(r)
  <2>1. lastToken' = getPrevious(curtok')
    BY <1>9, <1>10 DEF getPrevious
  <2>2. (lastToken = getPrevious(curtok))'
    BY <2>1 DEF getPrevious
  <2> QED
    BY <1>9, <1>10, <1>16, <1>20, <2>2 DEF CharactersInv, LexInv, ActionsInv, ParseInv
<1>21. CASE ~Complete(r)
  <2>1. Reach(more, from, curtok', lastToken')
    BY <1>9, <1>10, <1>14
  <2>2. locationStack' = places /\ starttok' = from
    BY <1>3, <1>9, <1>11
  <2>3. Standing'
    BY <1>9, <1>13, <1>15, <1>21, <2>1, <2>2, RulesLeaveItStanding
  <2> QED
    BY <1>9, <1>10, <1>16, <1>21, <2>3 DEF CharactersInv, LexInv, ActionsInv, ParseInv
<1> QED
  BY <1>20, <1>21

-----------------------------------------------------------------------------
(* A character that lexNextToken takes is at the end of the log.           *)
LEMMA LexTakes ==
  ASSUME CharactersInv, IInv, pc = "take", ~Parsing, AdvanceCursor,
         UNCHANGED <<kinds, len, way, end_offset, save_next_token, starttok>>
  PROVE  /\ IsShift(currentAction) \/ IsShiftReduce(currentAction)
         /\ derived = <<>> /\ save_next_token = NotSaved /\ current_kind # EOFT_SYMBOL
         /\ Position' \in 0 .. len - 1
         /\ current_kind' # EOFT_SYMBOL => Position' < len - 1
         /\ Position' = starttok + TokensTaken(action)
         /\ Len(action) - 1 \in Nat
         /\ Logged(action, IF Completes(stack, currentAction) THEN Len(action) - 1 ELSE NoEnd)
<1>1. PICK act : act = currentAction
  OBVIOUS
<1>2. /\ PlaceInv /\ TextInv /\ save_next_token = NotSaved /\ current_kind # EOFT_SYMBOL
      /\ IsShift(act) \/ IsShiftReduce(act)
      /\ derived = <<>> /\ Records(Front(action), NoEnd)
      /\ Position \in 0 .. len - 1 /\ starttok \in 0 .. len - 1 /\ len \in Nat
  BY <1>1 DEF CharactersInv, PlaceInv, LexInv, IInv, TextInv
<1>3. PICK before : before = Front(action)
  OBVIOUS
<1>4. PICK st : st = stack
  OBVIOUS
<1>5. /\ before \in Seq(Int) /\ action = Append(before, act) /\ st = StackAfter(Begun, before)
      /\ Answers(LRAutomaton, st, act) /\ Logged(before, NoEnd)
      /\ Position = starttok + TokensTaken(before)
  BY <1>1, <1>2, <1>3, <1>4 DEF IInv, TakeInv, Records
<1>6. act \in Int /\ ~IsReduce(act)
  BY <1>2, LayoutAssumption DEF IsReduce, IsShift, IsShiftReduce
<1>7. PICK n \in Nat : n = Len(before)
  BY <1>5
<1>8. Len(action) = n + 1 /\ Len(action) - 1 = n /\ n # NoEnd
  <2>1. Len(action) = n + 1
    BY <1>5, <1>6, <1>7, AppendProperties
  <2> QED
    BY <2>1 DEF NoEnd
<1>9. PICK ends : ends = IF Completes(st, act) THEN n ELSE NoEnd
  OBVIOUS
<1>10. Logs(StackAfter(Begun, before), act, Len(before) = ends)
  BY <1>2, <1>5, <1>7, <1>8, <1>9 DEF Logs, Goes
<1>11. Logged(action, ends)
  BY <1>5, <1>6, <1>7, <1>9, <1>10, OneMoreLogged
<1>12. TokensTaken(action) = TokensTaken(before) + 1 /\ TokensTaken(before) \in Nat
  BY <1>5, <1>6, TokensTakenByOneMore
<1>13. /\ Position' = Position + 1 /\ Position' \in 0 .. len - 1
       /\ current_kind' # EOFT_SYMBOL => Position' < len - 1
  BY <1>2, PlaceAdvanced
<1>14. Position' = starttok + TokensTaken(action)
  BY <1>2, <1>5, <1>12, <1>13
<1> QED
  BY <1>1, <1>2, <1>4, <1>8, <1>9, <1>11, <1>13, <1>14

LEMMA LexShiftKeepsCharacters ==
  ASSUME CharactersInv, IInv, LexShift
  PROVE  CharactersInv'
<1>1. /\ pc = "take" /\ pc' = "turn" /\ ~Parsing /\ IsShift(currentAction)
      /\ NextCharacter /\ AdvanceCursor
      /\ UNCHANGED <<kinds, len, way, end_offset, starttok, save_next_token, action, nodes, derived>>
  BY DEF LexShift, NextCharacter, text, log, seen
<1>2. /\ derived = <<>> /\ save_next_token = NotSaved /\ current_kind # EOFT_SYMBOL
      /\ Position' = starttok + TokensTaken(action)
      /\ Logged(action, IF Completes(stack, currentAction) THEN Len(action) - 1 ELSE NoEnd)
      /\ PlaceInv /\ TextInv /\ SeenInv
  BY <1>1, LexTakes DEF CharactersInv, IInv
<1>3. ~Completes(stack, currentAction)
  BY <1>1 DEF Completes
<1>4. Records(action, NoEnd)'
  BY <1>1, <1>2, <1>3 DEF Records
<1>5. PlaceInv'
  BY <1>1, <1>2, PlaceTaken
<1>6. SeenInv' /\ Parsing' = Parsing
  BY <1>1, <1>2, SeenStays DEF Parsing
<1> QED
  BY <1>1, <1>2, <1>4, <1>5, <1>6 DEF CharactersInv, LexInv, ActionsInv, ParseInv

LEMMA LexShiftReduceKeepsCharacters ==
  ASSUME CharactersInv, IInv, LexShiftReduce
  PROVE  CharactersInv'
<1>1. PICK r : r = Reduced(stack, Len(stack), currentAction - ERROR_ACTION)
  OBVIOUS
<1>2. /\ pc = "take" /\ ~Parsing /\ IsShiftReduce(currentAction) /\ AdvanceCursor
      /\ IF Complete(r) THEN StartActions(action)
         ELSE curtok' = NextInText /\ pc' = "turn" /\ action' = action
      /\ UNCHANGED <<kinds, len, way, end_offset, starttok, save_next_token, nodes, derived>>
  BY <1>1 DEF LexShiftReduce, text, seen
<1>3. /\ derived = <<>> /\ save_next_token = NotSaved /\ current_kind # EOFT_SYMBOL
      /\ Position' \in 0 .. len - 1
      /\ current_kind' # EOFT_SYMBOL => Position' < len - 1
      /\ Position' = starttok + TokensTaken(action) /\ Len(action) - 1 \in Nat
      /\ Logged(action, IF Completes(stack, currentAction) THEN Len(action) - 1 ELSE NoEnd)
      /\ PlaceInv /\ TextInv /\ SeenInv
  BY <1>2, LexTakes DEF CharactersInv, IInv
<1>4. Completes(stack, currentAction) <=> Complete(r)
  <2>1. ~IsShift(currentAction) /\ ~IsReduce(currentAction)
    BY <1>2, LayoutAssumption DEF IsReduce, IsShift, IsShiftReduce
  <2> QED
    BY <1>1, <2>1 DEF Completes, MadeBy
<1>5. CASE Complete(r)
  <2>1. StartActions(action') /\ action' = action
    BY <1>2, <1>5 DEF StartActions
  <2>2. PICK n \in Nat : n = Len(action) - 1
    BY <1>3
  <2>3. Len(action') = n + 1
    <3>1. Len(action) \in Nat
      BY DEF IInv, LogInv
    <3> QED
      BY <2>1, <2>2, <3>1
  <2>4. Logged(action', n) /\ Position' = starttok + TokensTaken(action')
    BY <1>3, <1>4, <1>5, <2>1, <2>2
  <2> QED
    BY <1>2, <1>3, <2>1, <2>3, <2>4, ActionsBegin
<1>6. CASE ~Complete(r)
  <2>1. Records(action, NoEnd)'
    BY <1>2, <1>3, <1>4, <1>6 DEF Records
  <2>2. PlaceInv'
    BY <1>2, <1>3, <1>6, PlaceTaken DEF NextCharacter
  <2>3. SeenInv' /\ Parsing' = Parsing
    BY <1>2, <1>3, SeenStays DEF Parsing
  <2> QED
    BY <1>2, <1>3, <1>6, <2>1, <2>2, <2>3 DEF CharactersInv, LexInv, ActionsInv, ParseInv
<1> QED
  BY <1>5, <1>6

-----------------------------------------------------------------------------
(* parseActions.                                                           *)
LEMMA ActionsTurnKeepsCharacters ==
  ASSUME CharactersInv, IInv, ActionsTurn
  PROVE  /\ CharactersInv' /\ pc' \in {"actions", "item"} /\ Position' = Position
         /\ \E c : /\ pc' = "item" => starttok + c = Position
                  /\ Lists(c, pc' = "actions")
<1>1. PICK s : s = Pushed
  OBVIOUS
<1>2. PICK act : act = action[i + 1]
  OBVIOUS
<1>3. PICK here : here = curtok
  OBVIOUS
<1>4. PICK last : last = lastToken
  OBVIOUS
<1>5. PICK places : places = Written(locationStack, Len(s), here)
  OBVIOUS
<1>6. PICK from : from = starttok
  OBVIOUS
<1>7. PICK k : k = i
  OBVIOUS
<1>8. PICK l : l = action
  OBVIOUS
<1>9. /\ pc = "actions" /\ ~Parsing /\ PlaceInv /\ SeenInv /\ Standing /\ TextInv
      /\ Logged(l, Len(l) - 1) /\ Position = from + TokensTaken(l) /\ k \in 0 .. Len(l) - 1
      /\ s = StackAfter(Begun, SubSeq(l, 1, k))
      /\ Covered(derived) = TokensTaken(SubSeq(l, 1, k))
      /\ l \in Seq(Int)
  <2>1. pc = "actions"
    BY DEF ActionsTurn
  <2> QED
    BY <1>1, <1>6, <1>7, <1>8, <2>1
       DEF CharactersInv, ActionsInv, IInv, LogInv, Records
<1>10. /\ from \in Nat /\ len \in Nat /\ Position \in 0 .. len - 1
       /\ Reach(derived, from, here, last) /\ derived \in Symbols
       /\ starttok \in 0 .. len - 1
       /\ current_kind # EOFT_SYMBOL => Position < len - 1
       /\ way = "range" => end_offset \in Nat /\ end_offset < len - 1
  BY <1>3, <1>4, <1>6, <1>9 DEF PlaceInv, TextInv, Standing, Lies
<1>11. OnStack(s, places, from) /\ IsViable(LRAutomaton, s)
  <2>1. starttok \in Nat
    BY <1>6, <1>10
  <2> QED
    BY <1>1, <1>3, <1>5, <1>6, <1>9, <2>1, PushStands DEF OnStack
<1>12. /\ i' = k + 1 /\ locationStack' = places
       /\ UNCHANGED <<kinds, len, way, end_offset, current_kind, starttok, action>>
  BY <1>1, <1>3, <1>5, <1>7 DEF ActionsTurn, Pushed, text
<1>13. PICK more : more = Append(derived, Terminal)
  OBVIOUS
<1>14. /\ Goes(s, act) /\ (Completes(s, act) <=> k = Len(l) - 1)
  BY <1>2, <1>7, <1>8, <1>9 DEF Logged, Logs
<1>15. PICK part : part = SubSeq(l, 1, k)
  OBVIOUS
<1>16. PICK longer : longer = SubSeq(l, 1, k + 1)
  OBVIOUS
<1>17. /\ k \in Nat /\ k < Len(l) /\ Len(l) \in Nat /\ k + 1 \in 0 .. Len(l)
  BY <1>9
<1>18. part \in Seq(Int) /\ act \in Int /\ longer = Append(part, act)
  <2>1. PICK m : m = 0
    OBVIOUS
  <2>2. m \in Nat /\ m <= k
    BY <1>17, <2>1
  <2>3. /\ SubSeq(l, m + 1, k) \in Seq(Int) /\ l[k + 1] \in Int
        /\ SubSeq(l, m + 1, k + 1) = Append(SubSeq(l, m + 1, k), l[k + 1])
    BY <1>9, <1>17, <2>2, SubSeqOneMore
  <2>4. m + 1 = 1
    BY <2>1
  <2> QED
    BY <1>2, <1>7, <1>8, <1>15, <1>16, <2>3, <2>4
<1>19. StackAfter(Begun, longer) = AfterAction(s, act)
  BY <1>9, <1>15, <1>18, StackAfterOneMore
<1>20. PICK c \in Nat : c = Covered(derived)
  BY <1>10, CoveredIsNat
<1>21. PICK t : t = TokensTaken(longer)
  OBVIOUS
<1>22. t = IF IsReduce(act) THEN c ELSE c + 1
  BY <1>9, <1>15, <1>18, <1>20, <1>21, TokensTakenByOneMore
<1>23. t \in Nat /\ from + t <= Position /\ (k = Len(l) - 1 => from + t = Position)
  <2>1. PICK n : n = k + 1
    OBVIOUS
  <2>2. n \in 0 .. Len(l) /\ longer = SubSeq(l, 1, n)
    BY <1>16, <1>17, <2>1
  <2>3. PICK z : z = TokensTaken(l)
    OBVIOUS
  <2>4. t \in Nat /\ z \in Nat /\ t <= z
    BY <1>9, <1>21, <2>2, <2>3, TokensTakenByPart
  <2>5. k = Len(l) - 1 => t = z
    <3>1. SUFFICES ASSUME k = Len(l) - 1 PROVE longer = l
      BY <1>21, <2>3
    <3>2. n = Len(l)
      BY <1>17, <2>1, <3>1
    <3> QED
      BY <1>9, <2>2, <3>2, WholePrefix
  <2>6. from \in Nat /\ Position = from + z
    BY <1>9, <1>10, <2>3
  <2>7. PICK p : p = Position
    OBVIOUS
  <2>8. from + t <= p /\ (k = Len(l) - 1 => from + t = p)
    BY ONLY <2>4, <2>5, <2>6, <2>7
  <2> QED
    BY <2>4, <2>7, <2>8
<1>24. here = from + c
  BY <1>10, <1>20 DEF Reach
<1>25. curtok' = from + t /\ lastToken' = IF IsReduce(act) THEN last ELSE here
  <2>1. IF IsReduce(act) THEN curtok' = here /\ lastToken' = last
        ELSE lastToken' = here /\ curtok' = getNext(here)
    BY <1>2, <1>3, <1>4 DEF ActionsTurn
  <2>2. CASE IsReduce(act)
    BY <1>22, <1>24, <2>1, <2>2
  <2>3. CASE ~IsReduce(act)
    <3>1. here + 1 = from + t /\ here \in Nat /\ here + 1 < len
      BY <1>10, <1>22, <1>23, <1>24, <2>3
    <3> QED
      BY <2>1, <2>3, <3>1 DEF getNext
  <2> QED
    BY <2>2, <2>3
<1>26. curtok' \in 0 .. len - 1
  BY <1>10, <1>23, <1>25
<1>27. PICK taken : taken = IF IsReduce(act) THEN derived ELSE more
  OBVIOUS
<1>28. PICK rule : rule = IF IsReduce(act) THEN act ELSE act - ERROR_ACTION
  OBVIOUS
<1>29. PICK top : top = IF IsReduce(act) THEN Len(s) - 1 ELSE Len(s)
  OBVIOUS
<1>30. PICK r : r = Reduced(s, top, rule)
  OBVIOUS
<1>31. IF IsShift(act)
       THEN stack' = s /\ currentAction' = act /\ derived' = taken
            /\ UNCHANGED <<items, nodes, pc, index, save_next_token>>
       ELSE /\ RunActions(s, top, rule, taken, places, lastToken')
            /\ stack' = SubSeq(s, 1, r.top) /\ currentAction' = r.act
            /\ IF Complete(r) THEN RestoreCursor /\ pc' = "item"
                              ELSE UNCHANGED <<index, save_next_token, pc>>
  BY <1>1, <1>2, <1>3, <1>5, <1>13, <1>27, <1>28, <1>29, <1>30 DEF ActionsTurn, Pushed
<1>32. /\ Lies(Len(s), more, places, from) /\ Reach(more, from, here + 1, here)
       /\ here = CharactersFrom(from)[Covered(more) - 1]
       /\ Len(more) = Len(s) /\ s \in Seq(Int) /\ Covered(more) = c + 1
  BY <1>10, <1>11, <1>13, <1>20, CharacterIsTaken
<1>33. Reach(taken, from, curtok', lastToken') /\ Covered(taken) = t
  <2>1. CASE IsReduce(act)
    BY <1>10, <1>20, <1>22, <1>24, <1>25, <1>27, <2>1
  <2>2. CASE ~IsReduce(act)
    <3>1. here + 1 = from + t
      BY <1>10, <1>22, <1>24, <2>2
    <3> QED
      BY <1>22, <1>25, <1>27, <1>32, <2>2, <3>1
  <2> QED
    BY <2>1, <2>2
<1>34. CharactersFrom(starttok)' = CharactersFrom(from) /\ Parsing' = Parsing
  BY <1>6, <1>12 DEF CharactersFrom, getPrevious, Parsing
<1>35. ASSUME pc' = "actions", Position' = Position, k # Len(l) - 1, Standing',
              Pushed' = AfterAction(s, act), Covered(derived') = t, SeenInv'
       PROVE  CharactersInv'
  <2>1. PlaceInv'
    BY <1>6, <1>10, <1>12, <1>26, <1>35 DEF PlaceInv
  <2>2. Records(action, Len(action) - 1)'
    BY <1>6, <1>8, <1>9, <1>12, <1>35 DEF Records
  <2>3. i' \in 0 .. Len(action') - 1 /\ SubSeq(action', 1, i') = longer
    BY <1>8, <1>12, <1>16, <1>17, <1>35
  <2>4. ActionsInv'
    BY <1>9, <1>19, <1>21, <1>34, <1>35, <2>2, <2>3 DEF ActionsInv
  <2> QED
    BY <1>9, <1>34, <1>35, <2>1, <2>4 DEF CharactersInv, LexInv, ParseInv
<1>36. CASE IsShift(act)
  <2>1. /\ stack' = s /\ currentAction' = act /\ derived' = taken
        /\ UNCHANGED <<items, nodes, pc, index, save_next_token>>
    BY <1>31, <1>36
  <2>2. ~IsReduce(act) /\ ~IsShiftReduce(act) /\ ~Completes(s, act)
    BY <1>36, LayoutAssumption DEF IsReduce, IsShift, IsShiftReduce, Completes
  <2>3. AfterAction(s, act) = Append(s, act) /\ IsViable(LRAutomaton, Append(s, act))
    BY <1>11, <1>14, <1>36, <2>2, ActionTaken, ShiftArrives, TableAssumption DEF AfterShift, Goes
  <2>4. Reach(derived, starttok, curtok, lastToken)'
    BY <1>6, <1>12, <1>33, <1>34, <2>1 DEF Reach
  <2>5. Standing' /\ Pushed' = AfterAction(s, act)
    BY <1>6, <1>12, <1>27, <1>32, <2>1, <2>2, <2>3, <2>4 DEF Standing, Pushed
  <2>6. SeenInv' /\ Position' = Position /\ pc' = "actions"
    BY <1>9, <1>12, <2>1, SeenStays DEF Position
  <2>7. Lists(c, pc' = "actions")
    BY <2>1, <2>6 DEF Lists
  <2>8. CharactersInv'
    BY <1>14, <1>33, <1>35, <2>1, <2>2, <2>5, <2>6
  <2> QED
    BY <2>6, <2>7, <2>8
<1>37. CASE ~IsShift(act)
  <2>1. /\ RunActions(s, top, rule, taken, places, lastToken')
        /\ stack' = SubSeq(s, 1, r.top) /\ currentAction' = r.act
        /\ IF Complete(r) THEN RestoreCursor /\ pc' = "item"
                          ELSE UNCHANGED <<index, save_next_token, pc>>
    BY <1>31, <1>37
  <2>2. PICK final : final = lastToken'
    OBVIOUS
  <2>3. /\ RunActions(s, top, rule, taken, places, final)
        /\ final = CharactersFrom(from)[Covered(taken) - 1] /\ Answers(LRAutomaton, s, act)
    BY <1>14, <1>33, <2>1, <2>2 DEF Reach, Goes
  <2>4. RulesRan(s, places, taken, r, from) /\ Keeps(LRAutomaton, s, r, AfterAction(s, act))
    <3>1. CASE IsReduce(act)
      <4>1. taken = derived /\ rule = act /\ top = Len(s) - 1
        BY <1>27, <1>28, <1>29, <3>1
      <4>2. AfterAction(s, act) = AfterReduce(s, act)
        BY <3>1, ActionTaken
      <4> QED
        BY <1>11, <1>30, <2>3, <3>1, <4>1, <4>2, ReduceSees
    <3>2. CASE ~IsReduce(act)
      <4>1. taken = more /\ rule = act - ERROR_ACTION /\ top = Len(s) /\ IsShiftReduce(act)
        BY <1>14, <1>27, <1>28, <1>29, <1>37, <3>2 DEF Goes
      <4>2. AfterAction(s, act) = AfterShiftReduce(s, act)
        BY <3>2, <4>1, ActionTaken
      <4> QED
        BY <1>11, <1>13, <1>30, <2>3, <4>1, <4>2, ShiftReduceSees
    <3> QED
      BY <3>1, <3>2
  <2>5. SeenInv'
    BY <1>34, <2>4 DEF RulesRan, SeenInv
  <2>6. Completes(s, act) <=> Complete(r)
    <3>1. MadeBy(s, act) = r
      BY <1>28, <1>29, <1>30 DEF MadeBy
    <3> QED
      BY <1>37, <3>1 DEF Completes
  <2>7. CASE Complete(r)
    <3>1. Position' = Position /\ save_next_token' = NotSaved /\ pc' = "item"
      BY <2>1, <2>7, PlaceRestored
    <3>2. curtok' = Position'
      BY <1>14, <1>23, <1>25, <2>6, <2>7, <3>1
    <3>3. PlaceInv'
      BY <1>10, <1>12, <1>26, <3>1, <3>2 DEF PlaceInv, AtPosition, NotSaved
    <3>4. CharactersInv'
      BY <1>9, <1>34, <2>5, <3>1, <3>3 DEF CharactersInv, LexInv, ActionsInv, ParseInv
    <3>5. starttok + t = Position
      BY <1>6, <1>14, <1>23, <2>6, <2>7
    <3>6. Lists(t, pc' = "actions")
      BY <1>6, <1>23, <1>33, <2>4, <2>7, <3>1 DEF Lists, RulesRan
    <3> QED
      BY <3>1, <3>4, <3>5, <3>6
  <2>8. CASE ~Complete(r)
    <3>1. starttok' = from /\ locationStack' = places
      BY <1>6, <1>12
    <3>2. Standing' /\ Pushed' = AfterAction(s, act) /\ Covered(derived') = Covered(taken)
      BY <1>10, <1>11, <1>33, <2>1, <2>4, <2>8, <3>1, RulesLeaveItStanding
    <3>3. Position' = Position /\ pc' = "actions"
      BY <1>9, <2>1, <2>8 DEF Position
    <3>4. CharactersInv'
      BY <1>14, <1>33, <1>35, <2>5, <2>6, <2>8, <3>2, <3>3
    <3>5. Lists(c, pc' = "actions")
      BY <2>4, <2>8, <3>3 DEF Lists, RulesRan
    <3> QED
      BY <3>3, <3>4, <3>5
  <2> QED
    BY <2>7, <2>8
<1> QED
  BY <1>36, <1>37

-----------------------------------------------------------------------------
LEMMA NextKeepsCharacters ==
  ASSUME CharactersInv, IInv, [Next]_vars
  PROVE  CharactersInv'
<1>1. CASE Work
  BY <1>1, StartItemKeepsCharacters, PassesKeepCharacters, TurnKeepsCharacters,
     ScanReduceKeepsCharacters, ScanCompletesKeepsCharacters, ScanFailsKeepsCharacters,
     TakeSimulationKeepsCharacters, StartReplayKeepsCharacters, ReplayReduceKeepsCharacters,
     EndReplayKeepsCharacters, ParseShiftKeepsCharacters, ParseShiftReduceKeepsCharacters,
     LexShiftKeepsCharacters, LexShiftReduceKeepsCharacters, ActionsTurnKeepsCharacters,
     BadCharacterKeepsCharacters, BadTokenKeepsCharacters DEF Work
<1>2. CASE Stop
  BY <1>2, PassesKeepCharacters
<1>3. CASE UNCHANGED vars
  BY <1>3, StutterKeepsCharacters
<1> QED
  BY <1>1, <1>2, <1>3 DEF Next

THEOREM CharactersInvariance == Spec => []CharactersInv
<1>1. IInv /\ Init => CharactersInv
  BY InitMakesCharacters DEF IInv
<1> QED
  BY <1>1, NextKeepsCharacters, Invariance, PTL DEF Spec

(* A node that was shown the n-th character saw that one.                  *)
LEMMA NodeSaw ==
  ASSUME NEW from \in Nat, NEW T, T = CharactersFrom(from), NEW x, Saw(x, T)
  PROVE  SawItsTokens(x, LAMBDA k : IF k < 0 THEN getPrevious(from) ELSE from + k)
<1> DEFINE At(k) == IF k < 0 THEN getPrevious(from) ELSE from + k
<1>1. /\ x.taken \in Nat /\ x.derived \in Symbols /\ DOMAIN x.parts = 1 .. Len(x.derived)
  BY DEF Saw
<1>2. PICK c \in Nat : c = Covered(x.derived)
  BY <1>1, CoveredIsNat
<1>3. PICK start \in Int : start = x.taken - c
  BY <1>1, <1>2
<1>4. \A n \in Int : T[n] = At(n)
  BY DEF CharactersFrom
<1> HIDE DEF At
<1>5. x.first = At(start) /\ x.last = At(x.taken - 1)
  <2>1. x.first = T[start] /\ x.last = T[x.taken - 1]
    BY <1>2, <1>3 DEF Saw
  <2>2. x.taken - 1 \in Int
    BY <1>1
  <2> QED
    BY <1>3, <1>4, <2>1, <2>2
<1>6. ASSUME NEW p \in 1 .. Len(x.derived)
      PROVE  /\ x.parts[p].first = At(start + Before(x.derived, p))
             /\ x.parts[p].last = At(start + Before(x.derived, p + 1) - 1)
             /\ x.derived[p].node # 0 => x.parts[p].node = x.derived[p].node
  <2>1. PICK l \in Nat : l = Len(x.derived)
    BY <1>1 DEF Symbols
  <2>2. p - 1 \in 0 .. l /\ p \in 0 .. l /\ p + 1 - 1 = p
    BY <2>1
  <2>3. PICK u \in Nat : u = Until(x.derived, p - 1)
    <3>1. PICK q : q = p - 1
      OBVIOUS
    <3> QED
      BY <1>1, <2>1, <2>2, <3>1, UntilIsNat
  <2>4. PICK v \in Nat : v = Until(x.derived, p)
    BY <1>1, <2>1, <2>2, UntilIsNat
  <2>5. u = Before(x.derived, p) /\ v = Before(x.derived, p + 1)
    BY <2>2, <2>3, <2>4 DEF Before, Until
  <2>6. /\ x.parts[p].first = T[start + u] /\ x.parts[p].last = T[start + v - 1]
        /\ x.derived[p].node # 0 => x.parts[p].node = x.derived[p].node
    BY <1>2, <1>3, <2>3, <2>4 DEF Saw
  <2>7. start + u \in Int /\ start + v - 1 \in Int
    BY <1>3, <2>3, <2>4
  <2> QED
    BY <1>4, <2>5, <2>6, <2>7
<1>7. SawItsTokens(x, At)
  BY <1>1, <1>2, <1>3, <1>5, <1>6 DEF SawItsTokens
<1> QED
  BY <1>7 DEF At

(* Every rule action of a scanner sees the characters that its symbols     *)
(* cover: those that parseCharacters runs while it parses, and those that  *)
(* parseActions runs from the log of lexNextToken, where an attempt as if  *)
(* at the end of the text may have moved the cursor in between.            *)
THEOREM RuleActionsAlwaysSeeTheirCharacters == Spec => []RuleActionsSeeTheirCharacters
<1>1. CharactersInv /\ IInv => RuleActionsSeeTheirCharacters
  <2>1. SUFFICES ASSUME CharactersInv, IInv, NEW n \in DOMAIN nodes
                 PROVE  SawItsTokens(nodes[n],
                          LAMBDA k : IF k < 0 THEN getPrevious(starttok) ELSE starttok + k)
    BY DEF RuleActionsSeeTheirCharacters
  <2>2. PICK from \in Nat : from = starttok
    BY <2>1 DEF CharactersInv, PlaceInv, IInv, TextInv
  <2>3. PICK T : T = CharactersFrom(from)
    OBVIOUS
  <2>4. PICK S : nodes \in Seq(S) /\ \A x \in S : Saw(x, T)
    BY <2>1, <2>2, <2>3 DEF CharactersInv, SeenInv, AllSaw
  <2>5. PICK x : x = nodes[n]
    OBVIOUS
  <2>6. Saw(x, T)
    BY <2>1, <2>4, <2>5
  <2>7. SawItsTokens(x, LAMBDA k : IF k < 0 THEN getPrevious(from) ELSE from + k)
    BY <2>3, <2>6, NodeSaw
  <2> QED
    BY <2>2, <2>5, <2>7 DEF SawItsTokens
<1> QED
  BY <1>1, CharactersInvariance, Invariance, PTL

-----------------------------------------------------------------------------
(* Where the next item begins.                                             *)
NextStart == IF items = <<>> THEN getNext(start_offset - 1) ELSE EndOf(Last(items)) + 1

ItemTypes == [first : Nat, last : Nat, is : {"empty", "word", "error"}]

ItemsFollow ==
  \A n \in DOMAIN items :
    items[n].first = IF n = 1 THEN start_offset ELSE EndOf(items[n - 1]) + 1

EofIsLast == \A n \in 0 .. len - 1 : getKind(n) = EOFT_SYMBOL <=> n = len - 1

(* The end is seen where the text to scan ends, and not before.            *)
EndInv ==
  /\ EofIsLast
  /\ Position <= Limit + 1 /\ (current_kind = EOFT_SYMBOL <=> Position = Limit + 1)

InItem == pc \in {"turn", "scan", "replay", "take", "actions", "error"}

(* The items cover the text as far as the one that is scanned, which       *)
(* begins before the end, but for scanNextToken at the end of the text.    *)
TilesInv ==
  /\ EndInv
  /\ items \in Seq(ItemTypes) /\ ItemsFollow /\ start_offset \in Nat
  /\ pc = "item" => NextStart = Position
  /\ InItem => /\ NextStart = starttok /\ starttok <= Position
               /\ Parsing \/ way = "range" => starttok <= Limit
  /\ pc = "actions" => starttok < Position
  /\ pc = "done" => NextStart = Limit + 1

(* The text and the bounds stay as they are.                               *)
LEMMA BoundsStay ==
  ASSUME UNCHANGED text
  PROVE  /\ UNCHANGED <<kinds, len, way, start_offset, end_offset>>
         /\ Limit' = Limit /\ EofIsLast' = EofIsLast /\ Parsing' = Parsing
         /\ \A x : EndOf(x)' = EndOf(x)
         /\ getNext(start_offset - 1)' = getNext(start_offset - 1)
BY DEF text, Limit, EofIsLast, EndOf, getNext, getKind, Parsing

LEMMA LimitIsInText ==
  ASSUME TextInv, PlaceInv
  PROVE  Limit \in Int /\ Limit < len - 1 /\ len \in Nat /\ Position \in 0 .. len - 1
BY DEF Limit, TextInv, PlaceInv

(* No item is made, or one more.                                           *)
LEMMA ItemsStay ==
  ASSUME items \in Seq(ItemTypes), ItemsFollow, UNCHANGED text, items' = items
  PROVE  items' \in Seq(ItemTypes) /\ ItemsFollow' /\ NextStart' = NextStart
<1>1. \A x : EndOf(x)' = EndOf(x)
  BY BoundsStay
<1>2. start_offset' = start_offset /\ getNext(start_offset - 1)' = getNext(start_offset - 1)
  BY BoundsStay
<1>3. ItemsFollow'
  BY <1>1, <1>2 DEF ItemsFollow
<1>4. NextStart' = NextStart
  BY <1>1, <1>2 DEF NextStart
<1> QED
  BY <1>3, <1>4

LEMMA OneMoreItem ==
  ASSUME items \in Seq(ItemTypes), ItemsFollow, UNCHANGED text, start_offset \in Nat, len \in Nat,
         NEW item \in ItemTypes, items' = Append(items, item),
         item.first = NextStart, item.first < len - 1
  PROVE  items' \in Seq(ItemTypes) /\ ItemsFollow' /\ NextStart' = EndOf(item) + 1
<1>1. /\ \A x : EndOf(x)' = EndOf(x)
      /\ start_offset' = start_offset
  BY BoundsStay
<1>2. PICK n \in Nat : n = Len(items)
  OBVIOUS
<1>3. PICK more : more = items'
  OBVIOUS
<1>4. /\ more \in Seq(ItemTypes) /\ Len(more) = n + 1 /\ more[n + 1] = item
      /\ \A p \in 1 .. n : more[p] = items[p]
  BY <1>2, <1>3, AppendProperties
<1>5. DOMAIN more = 1 .. n + 1 /\ DOMAIN items = 1 .. n /\ more # <<>>
  BY <1>2, <1>4
<1>6. NextStart' = EndOf(item) + 1
  <2>1. Last(more) = item
    BY <1>4 DEF Last
  <2>2. NextStart' = EndOf(Last(more))' + 1
    BY <1>3, <1>5 DEF NextStart
  <2> QED
    BY <1>1, <2>1, <2>2
<1>7. ASSUME NEW p \in 1 .. n + 1
      PROVE  more[p].first = IF p = 1 THEN start_offset ELSE EndOf(more[p - 1]) + 1
  <2>1. CASE p \in 1 .. n
    <3>1. items[p].first = IF p = 1 THEN start_offset ELSE EndOf(items[p - 1]) + 1
      BY <1>5, <2>1 DEF ItemsFollow
    <3>2. p # 1 => p - 1 \in 1 .. n
      BY <2>1
    <3> QED
      BY <1>4, <2>1, <3>1, <3>2
  <2>2. CASE p = n + 1 /\ n = 0
    <3>1. items = <<>>
      BY <1>2, <2>2, EmptySeq
    <3>2. item.first = getNext(start_offset - 1)
      BY <3>1 DEF NextStart
    <3>3. getNext(start_offset - 1) = IF start_offset < len THEN start_offset ELSE len - 1
      BY DEF getNext
    <3> QED
      BY <1>4, <2>2, <3>2, <3>3
  <2>3. CASE p = n + 1 /\ n # 0
    <3>1. items # <<>> /\ n \in 1 .. n /\ p - 1 = n /\ p # 1
      BY <1>2, <2>3
    <3>2. Last(items) = items[n]
      BY <1>2 DEF Last
    <3>3. item.first = EndOf(items[n]) + 1
      BY <3>1, <3>2 DEF NextStart
    <3> QED
      BY <1>4, <2>3, <3>1, <3>3
  <2> QED
    BY <2>1, <2>2, <2>3
<1>8. ItemsFollow'
  BY <1>1, <1>3, <1>5, <1>7 DEF ItemsFollow
<1> QED
  BY <1>3, <1>4, <1>6, <1>8

-----------------------------------------------------------------------------
(* The cursor stays, or is advanced by one character.                      *)
LEMMA EndStays ==
  ASSUME EndInv, UNCHANGED text, Position' = Position, current_kind' = current_kind
  PROVE  EndInv'
BY BoundsStay DEF EndInv

LEMMA EndIsSeen ==
  ASSUME TextInv, PlaceInv, EndInv, pc # "actions", save_next_token = NotSaved,
         current_kind # EOFT_SYMBOL, AdvanceCursor, UNCHANGED <<text, save_next_token>>
  PROVE  EndInv' /\ Position' = Position + 1 /\ Position <= Limit
<1>1. /\ Position' = Position + 1 /\ Position = index
      /\ NextInText = IF way = "range" /\ getNext(index) > end_offset THEN len - 1
                      ELSE getNext(index)
      /\ current_kind' = getKind(NextInText)
  BY PlaceAdvanced, BoundsStay DEF Position, NextInText, AdvanceCursor
<1>2. /\ Limit \in Int /\ Limit < len - 1 /\ len \in Nat /\ Position \in 0 .. len - 1
      /\ Position < len - 1
  BY LimitIsInText DEF PlaceInv
<1>3. Position <= Limit + 1 /\ Position # Limit + 1 /\ EofIsLast
  BY DEF EndInv
<1>4. PICK p \in Nat : p = Position /\ p <= Limit
  BY <1>2, <1>3
<1>5. getNext(index) = p + 1
  BY <1>1, <1>2, <1>4 DEF getNext
<1>6. NextInText \in 0 .. len - 1 /\ (NextInText = len - 1 <=> p + 1 = Limit + 1)
  <2>1. CASE way = "range"
    <3>1. Limit = end_offset
      BY <2>1 DEF Limit
    <3> QED
      BY <1>1, <1>2, <1>4, <1>5, <2>1, <3>1
  <2>2. CASE way # "range"
    <3>1. Limit = len - 2
      BY <2>2 DEF Limit
    <3> QED
      BY <1>1, <1>2, <1>4, <1>5, <2>2, <3>1
  <2> QED
    BY <2>1, <2>2
<1>7. current_kind' = EOFT_SYMBOL <=> p + 1 = Limit + 1
  BY <1>1, <1>3, <1>6 DEF EofIsLast
<1>8. Position' = p + 1 /\ p + 1 <= Limit + 1
  BY <1>1, <1>2, <1>4
<1> QED
  BY <1>3, <1>4, <1>7, <1>8, BoundsStay DEF EndInv

-----------------------------------------------------------------------------
(* Inside an item, where none is made.                                     *)
LEMMA InsideKeepsTiles ==
  ASSUME TilesInv, InItem, InItem', UNCHANGED <<text, starttok, current_kind, items>>,
         Position' = Position, pc' = "actions" => starttok < Position
  PROVE  TilesInv'
<1>1. EndInv' /\ Limit' = Limit /\ Parsing' = Parsing
  BY EndStays, BoundsStay DEF TilesInv
<1>2. items' \in Seq(ItemTypes) /\ ItemsFollow' /\ NextStart' = NextStart
  BY ItemsStay DEF TilesInv
<1>3. start_offset' = start_offset /\ way' = way
  BY DEF text
<1> QED
  BY <1>1, <1>2, <1>3 DEF TilesInv, InItem

(* A character is taken, and the item goes on.                             *)
LEMMA TakingKeepsTiles ==
  ASSUME CharactersInv, IInv, TilesInv, pc = "take", InItem', current_kind # EOFT_SYMBOL,
         AdvanceCursor, UNCHANGED <<text, starttok, save_next_token, items>>
  PROVE  TilesInv'
<1>1. /\ TextInv /\ PlaceInv /\ EndInv /\ save_next_token = NotSaved
      /\ Position \in Nat /\ starttok \in Nat
  BY DEF CharactersInv, IInv, TilesInv, PlaceInv, TextInv
<1>2. EndInv' /\ Position' = Position + 1
  BY <1>1, EndIsSeen
<1>3. items' \in Seq(ItemTypes) /\ ItemsFollow' /\ NextStart' = NextStart
  BY ItemsStay DEF TilesInv
<1>4. start_offset' = start_offset /\ way' = way /\ Limit' = Limit /\ Parsing' = Parsing
  BY BoundsStay DEF text
<1>5. /\ NextStart = starttok /\ starttok <= Position /\ start_offset \in Nat
      /\ Parsing \/ way = "range" => starttok <= Limit
  BY DEF TilesInv, InItem
<1>6. starttok <= Position' /\ starttok < Position'
  BY <1>1, <1>2, <1>5
<1> QED
  BY <1>2, <1>3, <1>4, <1>5, <1>6 DEF TilesInv, InItem

(* An item is made, and covers what is before the cursor.                  *)
LEMMA ItemKeepsTiles ==
  ASSUME TextInv, PlaceInv, TilesInv, InItem, pc' = "item", EndInv',
         UNCHANGED <<text, starttok>>, Position' \in Int, starttok < Position', starttok < len - 1,
         NEW item \in ItemTypes, items' = Append(items, item),
         item.first = starttok, item.is # "empty",
         item.last = Position' - 1 \/ (item.last > Limit /\ Position' = Limit + 1)
  PROVE  TilesInv'
<1>1. /\ items \in Seq(ItemTypes) /\ ItemsFollow /\ start_offset \in Nat /\ len \in Nat
      /\ NextStart = starttok
  BY DEF TilesInv, InItem, TextInv
<1>2. items' \in Seq(ItemTypes) /\ ItemsFollow' /\ NextStart' = EndOf(item) + 1
  BY <1>1, OneMoreItem
<1>3. Position' <= Limit + 1 /\ Limit \in Int
  BY BoundsStay, LimitIsInText DEF EndInv
<1>4. EndOf(item) = Position' - 1
  BY <1>3 DEF EndOf
<1>5. NextStart' = Position'
  <2>1. PICK p \in Int : p = Position'
    OBVIOUS
  <2>2. PICK e : e = EndOf(item)
    OBVIOUS
  <2>3. e = p - 1
    BY <1>4, <2>1, <2>2
  <2>4. e + 1 = p
    BY ONLY <2>3
  <2> QED
    BY <1>2, <2>1, <2>2, <2>4
<1> QED
  BY <1>1, <1>2, <1>5, BoundsStay DEF TilesInv, InItem

-----------------------------------------------------------------------------
LEMMA InitTiles ==
  ASSUME Init, TextInv, PlaceInv
  PROVE  TilesInv
<1>1. PICK t \in Texts : kinds = t /\ len = Len(t)
  BY DEF Init
<1>2. \A k \in 1 .. Len(t) : t[k] = EOFT_SYMBOL <=> k = Len(t)
  BY <1>1, TableAssumption
<1>3. len \in Nat /\ len > 0 /\ Limit \in Int /\ Limit < len - 1
  BY LimitIsInText DEF TextInv
<1>4. EofIsLast
  <2>1. SUFFICES ASSUME NEW n \in 0 .. len - 1 PROVE getKind(n) = EOFT_SYMBOL <=> n = len - 1
    BY DEF EofIsLast
  <2>2. n + 1 \in 1 .. len /\ (n + 1 = len <=> n = len - 1)
    BY <1>3, <2>1
  <2> QED
    BY <1>1, <1>2, <2>2 DEF getKind
<1>5. /\ index = getNext(start_offset - 1) /\ current_kind = getKind(index)
      /\ save_next_token = NotSaved /\ pc = "item" /\ items = <<>>
      /\ start_offset \in Nat
      /\ way = "range" => start_offset <= end_offset /\ end_offset < len - 1 /\ end_offset \in Nat
  BY TableAssumption DEF Init
<1>6. Position = index /\ index \in 0 .. len - 1
  BY <1>5, LimitIsInText DEF Position
<1>7. index = IF start_offset < len THEN start_offset ELSE len - 1
  BY <1>5 DEF getNext
<1>8. Position <= Limit + 1 /\ (Position = len - 1 <=> Position = Limit + 1)
  <2>1. CASE way = "range"
    <3>1. Limit = end_offset
      BY <2>1 DEF Limit
    <3> QED
      BY <1>3, <1>5, <1>6, <1>7, <2>1, <3>1
  <2>2. CASE way # "range"
    <3>1. Limit = len - 2
      BY <2>2 DEF Limit
    <3> QED
      BY <1>3, <1>6, <3>1
  <2> QED
    BY <2>1, <2>2
<1>9. EndInv
  BY <1>4, <1>5, <1>6, <1>8 DEF EndInv, EofIsLast
<1>10. items \in Seq(ItemTypes) /\ ItemsFollow
  BY <1>5 DEF ItemsFollow
<1>11. NextStart = Position
  BY <1>5, <1>6 DEF NextStart
<1> QED
  BY <1>5, <1>9, <1>10, <1>11 DEF TilesInv, InItem

(* The outer loops end at the end of the text to scan, and an item begins  *)
(* before it.                                                              *)
LEMMA StartItemKeepsTiles ==
  ASSUME CharactersInv, IInv, TilesInv, StartItem
  PROVE  TilesInv'
<1>1. /\ pc = "item" /\ pc' = "turn" /\ More /\ starttok' = curtok
      /\ UNCHANGED <<text, index, current_kind, save_next_token, items>>
  BY DEF StartItem
<1>2. /\ TextInv /\ PlaceInv /\ EndInv /\ AtPosition /\ NextStart = Position /\ Position \in Int
      /\ items \in Seq(ItemTypes) /\ ItemsFollow /\ start_offset \in Nat
  BY <1>1, LimitIsInText DEF CharactersInv, IInv, PlaceInv, TilesInv
<1>3. Position' = Position
  BY <1>1 DEF Position
<1>4. EndInv' /\ Limit' = Limit /\ Parsing' = Parsing /\ way' = way /\ start_offset' = start_offset
  BY <1>1, <1>2, <1>3, EndStays, BoundsStay
<1>5. items' \in Seq(ItemTypes) /\ ItemsFollow' /\ NextStart' = NextStart
  BY <1>1, <1>2, ItemsStay
<1>6. Limit \in Int /\ Limit < len - 1 /\ len \in Nat
  BY <1>2, LimitIsInText
<1>7. way = "range" => curtok <= Limit
  BY <1>1 DEF More, Limit
<1>8. curtok = Position
  BY <1>2, <1>6, <1>7 DEF AtPosition
<1>9. Parsing => Position <= Limit
  <2>1. SUFFICES ASSUME Parsing PROVE Position <= Limit
    OBVIOUS
  <2>2. current_kind # EOFT_SYMBOL
    BY <1>1, <2>1 DEF More, Parsing
  <2> QED
    BY <1>2, <1>6, <2>2 DEF EndInv
<1>10. starttok' = Position' /\ Position' \in Int
  BY <1>1, <1>2, <1>3, <1>8
<1>11. (Parsing \/ way = "range")' => starttok' <= Limit'
  BY <1>1, <1>4, <1>7, <1>8, <1>9
<1>12. NextStart' = starttok' /\ starttok' <= Position'
  BY <1>2, <1>3, <1>5, <1>10
<1> QED
  BY <1>1, <1>2, <1>4, <1>5, <1>11, <1>12 DEF TilesInv, InItem

LEMMA PassesKeepTiles ==
  ASSUME CharactersInv, IInv, TilesInv, Return \/ Stop \/ NothingMore
  PROVE  TilesInv'
<1>1. UNCHANGED <<text, index, current_kind, save_next_token, items>>
  BY DEF Return, Stop, NothingMore
<1>2. /\ TextInv /\ PlaceInv /\ EndInv /\ Position \in Int
      /\ items \in Seq(ItemTypes) /\ ItemsFollow /\ start_offset \in Nat
  BY LimitIsInText DEF CharactersInv, IInv, TilesInv
<1>3. Position' = Position
  BY <1>1 DEF Position
<1>4. /\ EndInv' /\ Limit' = Limit /\ start_offset' = start_offset
      /\ items' \in Seq(ItemTypes) /\ ItemsFollow' /\ NextStart' = NextStart
  BY <1>1, <1>2, <1>3, EndStays, BoundsStay, ItemsStay
<1>5. Limit \in Int /\ Limit < len - 1 /\ len \in Nat /\ Position <= Limit + 1
  BY <1>2, LimitIsInText DEF EndInv
<1>6. CASE Stop
  <2>1. pc' = "cancelled"
    BY <1>6 DEF Stop
  <2> QED
    BY <1>2, <1>4, <2>1 DEF TilesInv, InItem
<1>7. CASE Return
  <2>1. pc = "item" /\ pc' = "done" /\ ~More
    BY <1>7 DEF Return
  <2>2. NextStart = Position /\ AtPosition
    BY <1>2, <2>1 DEF TilesInv, PlaceInv
  <2>3. Position = Limit + 1
    <3>1. CASE way = "parse"
      BY <1>2, <2>1, <3>1 DEF More, EndInv
    <3>2. CASE way = "range"
      <4>1. ~(curtok <= Limit)
        BY <2>1, <3>2 DEF More, Limit
      <4> QED
        BY <1>2, <1>5, <2>2, <4>1 DEF AtPosition, EndInv
    <3> QED
      BY <2>1, <3>1, <3>2 DEF More
  <2> QED
    BY <1>2, <1>4, <2>1, <2>2, <2>3 DEF TilesInv, InItem
<1>8. CASE NothingMore
  <2>1. pc = "error" /\ pc' = "done" /\ current_kind = EOFT_SYMBOL /\ starttok = curtok
    BY <1>8 DEF NothingMore
  <2>2. /\ NextStart = starttok /\ Position = Limit + 1 /\ AtPosition
        /\ way = "range" => starttok <= Limit
    BY <1>2, <2>1 DEF TilesInv, PlaceInv, InItem, EndInv
  <2>3. starttok = Position
    BY <1>5, <2>1, <2>2 DEF AtPosition
  <2> QED
    BY <1>2, <1>4, <2>1, <2>2, <2>3 DEF TilesInv, InItem
<1> QED
  BY <1>6, <1>7, <1>8

LEMMA StutterKeepsTiles ==
  ASSUME TilesInv, UNCHANGED vars
  PROVE  TilesInv'
<1>1. UNCHANGED <<text, index, current_kind, starttok, save_next_token, items, pc>>
  BY DEF vars
<1>2. Position' = Position
  BY <1>1 DEF Position
<1>3. /\ EndInv' /\ Limit' = Limit /\ start_offset' = start_offset /\ way' = way
      /\ items' \in Seq(ItemTypes) /\ ItemsFollow' /\ NextStart' = NextStart
      /\ Parsing' = Parsing
  BY <1>1, <1>2, EndStays, BoundsStay, ItemsStay DEF TilesInv
<1> QED
  BY <1>1, <1>2, <1>3 DEF TilesInv, InItem

-----------------------------------------------------------------------------
(* While a character is tried.                                             *)
LEMMA TryingKeepsTiles ==
  ASSUME CharactersInv, IInv, TilesInv,
         Turn \/ ScanReduce \/ ScanFails \/ TakeSimulation \/ StartReplay \/ EndReplay
  PROVE  TilesInv'
<1>1. /\ UNCHANGED <<text, starttok, current_kind, items>>
      /\ InItem /\ InItem' /\ pc' # "actions"
  BY DEF Turn, ScanReduce, Scanning, ScanFails, TakeSimulation, StartReplay, EndReplay, InItem,
         Attempt
<1>2. Position' = Position
  <2>1. CASE Turn \/ ScanReduce \/ StartReplay
    BY <2>1 DEF Turn, ScanReduce, StartReplay, Position
  <2>2. CASE TakeSimulation \/ EndReplay
    BY <2>2, PlaceRestored DEF TakeSimulation, EndReplay
  <2>3. CASE ScanFails
    BY <2>3, ScanFailsKeepsCharacters
  <2> QED
    BY <2>1, <2>2, <2>3
<1> QED
  BY <1>1, <1>2, InsideKeepsTiles

(* The cursor has left the beginning of the item.                          *)
LEMMA SomeAreTaken ==
  ASSUME CharactersInv, IInv, TilesInv, pc \in {"scan", "error"}, starttok # curtok
  PROVE  starttok < Position /\ starttok < len - 1
<1>1. /\ AtPosition /\ starttok <= Position /\ EndInv /\ starttok \in Int
      /\ way = "range" => starttok <= Limit
  BY DEF CharactersInv, PlaceInv, TilesInv, InItem
<1>2. Limit \in Int /\ Position \in 0 .. len - 1 /\ len \in Nat
  BY LimitIsInText DEF CharactersInv, IInv
<1> QED
  BY <1>1, <1>2 DEF AtPosition, EndInv

LEMMA ScanCompletesKeepsTiles ==
  ASSUME CharactersInv, IInv, TilesInv, ScanCompletes
  PROVE  TilesInv'
<1>1. /\ UNCHANGED <<text, starttok, current_kind, items, index, save_next_token>>
      /\ pc = "scan" /\ pc' \in {"scan", "actions"} /\ (pc' = "actions" => starttok # curtok)
  BY DEF ScanCompletes, Scanning, StartActions
<1>2. Position' = Position /\ InItem /\ InItem'
  BY <1>1 DEF Position, InItem
<1> QED
  BY <1>1, <1>2, SomeAreTaken, InsideKeepsTiles

-----------------------------------------------------------------------------
(* The item of a rule action for START_SYMBOL.                             *)
Covers(item, from, c) ==
  /\ item \in ItemTypes /\ item.first = from
  /\ IF c = 0 THEN item.is = "empty" ELSE item.is = "word" /\ item.last = from + c - 1

LEMMA ItemOfSome ==
  ASSUME NEW from \in Nat, NEW c \in Nat
  PROVE  Covers(ItemOf(from, c), from, c)
<1>0. PICK item : item = ItemOf(from, c)
  OBVIOUS
<1>1. PICK last : last = CharactersFrom(from)[c - 1]
  OBVIOUS
<1>2. last \in Nat /\ (c # 0 => last = from + c - 1)
  BY <1>1 DEF CharactersFrom, getPrevious
<1> QED
  BY <1>0, <1>1, <1>2 DEF ItemOf, Item, ItemTypes, Covers

LEMMA ReplayReduceKeepsTiles ==
  ASSUME CharactersInv, IInv, TilesInv, ReplayReduce
  PROVE  TilesInv'
<1>1. /\ pc = "replay" /\ UNCHANGED <<text, starttok, current_kind, curtok>>
      /\ \/ pc' \in {"replay", "scan"} /\ UNCHANGED <<index, save_next_token>>
         \/ pc' = "item" /\ RestoreCursor
      /\ pc' = "scan" => starttok = curtok
      /\ pc' = "item" => starttok # curtok
  BY DEF ReplayReduce, Replaying
<1>2. Position' = Position /\ InItem
  BY <1>1, PlaceRestored DEF Position, InItem
<1>3. /\ TextInv /\ PlaceInv /\ EndInv /\ EndInv' /\ Parsing
      /\ items \in Seq(ItemTypes) /\ ItemsFollow /\ start_offset \in Nat
      /\ NextStart = starttok /\ starttok <= Position /\ starttok <= Limit
  BY <1>1, <1>2, EndStays DEF CharactersInv, IInv, ReplayInv, TilesInv
<1>4. Limit \in Int /\ Limit < len - 1 /\ len \in Nat /\ Position \in Nat /\ starttok \in Nat
  BY <1>3, LimitIsInText DEF PlaceInv
<1>5. PICK c \in Nat : curtok = starttok + c /\ Lists(c, pc' = "replay")
  BY ReplayReduceKeepsCharacters DEF Lists
<1>6. PICK item : item = ItemOf(starttok, c)
  OBVIOUS
<1>7. /\ item \in ItemTypes /\ item.first = starttok
      /\ IF c = 0 THEN item.is = "empty" ELSE item.is = "word" /\ item.last = starttok + c - 1
  <2>1. PICK from \in Nat : from = starttok
    BY <1>4
  <2> QED
    BY <1>6, <2>1, ItemOfSome DEF Covers
<1>8. CASE pc' = "replay"
  <2>1. items' = items /\ InItem'
    BY <1>5, <1>8 DEF Lists, InItem
  <2> QED
    BY <1>1, <1>2, <1>8, <2>1, InsideKeepsTiles
<1>9. CASE pc' = "scan"
  <2>1. items' = Append(items, item) /\ c = 0
    BY <1>1, <1>4, <1>5, <1>6, <1>9 DEF Lists
  <2>2. items' \in Seq(ItemTypes) /\ ItemsFollow' /\ NextStart' = EndOf(item) + 1
    BY <1>1, <1>3, <1>4, <1>7, <2>1, OneMoreItem
  <2>3. EndOf(item) = starttok - 1
    BY <1>7, <2>1 DEF EndOf
  <2>4. NextStart' = starttok
    BY <1>4, <2>2, <2>3
  <2>5. /\ start_offset' = start_offset /\ way' = way /\ Limit' = Limit /\ Parsing' = Parsing
        /\ starttok' = starttok
    BY <1>1, BoundsStay
  <2> QED
    BY <1>2, <1>3, <1>9, <2>2, <2>4, <2>5 DEF TilesInv, InItem
<1>10. CASE pc' = "item"
  <2>1. items' = Append(items, item) /\ c # 0
    BY <1>1, <1>4, <1>5, <1>6, <1>10 DEF Lists
  <2>2. curtok = Position
    BY <1>1, <1>3 DEF PlaceInv, AtPosition, Parsing
  <2>3. PICK p \in Int : p = Position'
    BY <1>2, <1>4
  <2>4. starttok < p /\ starttok < len - 1 /\ starttok + c - 1 = p - 1
    BY <1>2, <1>3, <1>4, <1>5, <2>1, <2>2, <2>3
  <2> QED
    BY <1>1, <1>2, <1>3, <1>7, <1>10, <2>1, <2>3, <2>4, ItemKeepsTiles
<1> QED
  BY <1>1, <1>8, <1>9, <1>10

-----------------------------------------------------------------------------
(* A character is taken.                                                   *)
LEMMA ShiftsKeepTiles ==
  ASSUME CharactersInv, IInv, TilesInv, ParseShift \/ LexShift \/ LexShiftReduce
  PROVE  TilesInv'
<1>1. /\ pc = "take" /\ pc' \in {"turn", "actions"} /\ AdvanceCursor
      /\ IsShift(currentAction) \/ IsShiftReduce(currentAction)
      /\ UNCHANGED <<text, starttok, save_next_token, items>>
  BY DEF ParseShift, LexShift, LexShiftReduce, NextCharacter, StartActions
<1>2. current_kind # EOFT_SYMBOL
  BY <1>1 DEF CharactersInv, PlaceInv
<1> QED
  BY <1>1, <1>2, TakingKeepsTiles DEF InItem

LEMMA ParseShiftReduceKeepsTiles ==
  ASSUME CharactersInv, IInv, TilesInv, ParseShiftReduce
  PROVE  TilesInv'
<1>1. /\ pc = "take" /\ pc' \in {"turn", "item"} /\ AdvanceCursor /\ Parsing
      /\ IsShiftReduce(currentAction) /\ UNCHANGED <<text, starttok, save_next_token>>
  BY DEF ParseShiftReduce, NextCharacter
<1>2. /\ TextInv /\ PlaceInv /\ EndInv /\ save_next_token = NotSaved /\ curtok = Position
      /\ current_kind # EOFT_SYMBOL /\ starttok <= Position /\ starttok <= Limit /\ InItem
  BY <1>1 DEF CharactersInv, IInv, TilesInv, PlaceInv, AtPosition, Parsing, InItem
<1>3. EndInv' /\ Position' = Position + 1
  BY <1>1, <1>2, EndIsSeen
<1>4. Limit \in Int /\ Limit < len - 1 /\ len \in Nat /\ Position \in Nat /\ starttok \in Nat
  BY <1>2, LimitIsInText DEF PlaceInv
<1>5. PICK c \in Nat : curtok + 1 = starttok + c /\ Lists(c, pc' = "turn")
  BY ParseShiftReduceKeepsCharacters DEF Lists
<1>6. CASE pc' = "turn"
  <2>1. items' = items /\ InItem'
    BY <1>5, <1>6 DEF Lists, InItem
  <2> QED
    BY <1>1, <1>2, <1>6, <2>1, TakingKeepsTiles
<1>7. CASE pc' = "item"
  <2>1. PICK item : item = ItemOf(starttok, c) /\ items' = Append(items, item)
    BY <1>5, <1>7 DEF Lists
  <2>2. PICK p \in Int : p = Position'
    BY <1>3, <1>4
  <2>3. starttok < p /\ starttok < len - 1 /\ starttok + c - 1 = p - 1 /\ c # 0
    BY <1>2, <1>3, <1>4, <1>5, <2>2
  <2>4. /\ item \in ItemTypes /\ item.first = starttok
        /\ item.is = "word" /\ item.last = starttok + c - 1
    <3>1. PICK from \in Nat : from = starttok
      BY <1>4
    <3> QED
      BY <2>1, <2>3, <3>1, ItemOfSome DEF Covers
  <2> QED
    BY <1>1, <1>2, <1>3, <1>7, <2>1, <2>2, <2>3, <2>4, ItemKeepsTiles
<1> QED
  BY <1>1, <1>6, <1>7

(* parseActions makes the item of the log.                                 *)
LEMMA ActionsTurnKeepsTiles ==
  ASSUME CharactersInv, IInv, TilesInv, ActionsTurn
  PROVE  TilesInv'
<1>1. pc = "actions" /\ UNCHANGED <<text, starttok, current_kind>>
  BY DEF ActionsTurn
<1>2. PICK c \in Nat : /\ pc' = "item" => starttok + c = Position
                      /\ Lists(c, pc' = "actions")
  BY ActionsTurnKeepsCharacters DEF Lists
<1>3. pc' \in {"actions", "item"} /\ Position' = Position /\ InItem
  BY <1>1, ActionsTurnKeepsCharacters DEF InItem
<1>4. TextInv /\ PlaceInv /\ EndInv /\ EndInv' /\ starttok < Position
  BY <1>1, <1>3, EndStays DEF CharactersInv, IInv, TilesInv
<1>5. /\ Limit \in Int /\ Limit < len - 1 /\ len \in Nat
      /\ Position \in 0 .. len - 1 /\ starttok \in Nat
  BY <1>4, LimitIsInText DEF PlaceInv
<1>6. CASE pc' = "actions"
  <2>1. items' = items /\ InItem'
    BY <1>2, <1>6 DEF Lists, InItem
  <2> QED
    BY <1>1, <1>3, <1>4, <1>6, <2>1, InsideKeepsTiles
<1>7. CASE pc' = "item"
  <2>1. PICK item : item = ItemOf(starttok, c) /\ items' = Append(items, item)
    BY <1>2, <1>7 DEF Lists
  <2>2. PICK p \in Int : p = Position'
    BY <1>3, <1>5
  <2>3. starttok < p /\ starttok < len - 1 /\ starttok + c - 1 = p - 1 /\ c # 0
    BY <1>2, <1>3, <1>4, <1>5, <1>7, <2>2
  <2>4. /\ item \in ItemTypes /\ item.first = starttok
        /\ item.is = "word" /\ item.last = starttok + c - 1
    <3>1. PICK from \in Nat : from = starttok
      BY <1>5
    <3> QED
      BY <2>1, <2>3, <3>1, ItemOfSome DEF Covers
  <2> QED
    BY <1>1, <1>3, <1>4, <1>7, <2>1, <2>2, <2>3, <2>4, ItemKeepsTiles
<1> QED
  BY <1>3, <1>6, <1>7

-----------------------------------------------------------------------------
(* An error is reported.                                                   *)
LEMMA BadCharacterKeepsTiles ==
  ASSUME CharactersInv, IInv, TilesInv, BadCharacter
  PROVE  TilesInv'
<1>1. PICK item : item = Item(starttok, curtok, "error")
  OBVIOUS
<1>2. /\ pc = "error" /\ pc' = "item" /\ starttok = curtok /\ current_kind # EOFT_SYMBOL
      /\ AdvanceCursor /\ items' = Append(items, item)
      /\ UNCHANGED <<text, starttok, save_next_token>>
  BY <1>1 DEF BadCharacter, NextCharacter
<1>3. /\ TextInv /\ PlaceInv /\ EndInv /\ save_next_token = NotSaved /\ curtok = Position /\ InItem
  BY <1>2 DEF CharactersInv, IInv, TilesInv, PlaceInv, AtPosition, InItem
<1>4. EndInv' /\ Position' = Position + 1 /\ Position <= Limit
  BY <1>2, <1>3, EndIsSeen
<1>5. Limit \in Int /\ Limit < len - 1 /\ len \in Nat /\ Position \in Nat /\ starttok \in Nat
  BY <1>3, LimitIsInText DEF PlaceInv
<1>6. PICK p \in Int : p = Position'
  BY <1>4, <1>5
<1>7. starttok < p /\ starttok < len - 1 /\ curtok = p - 1 /\ curtok \in Nat
  BY <1>2, <1>3, <1>4, <1>5, <1>6
<1>8. item \in ItemTypes /\ item.first = starttok /\ item.last = p - 1 /\ item.is = "error"
  BY <1>1, <1>5, <1>7 DEF Item, ItemTypes
<1> QED
  BY <1>2, <1>3, <1>4, <1>6, <1>7, <1>8, ItemKeepsTiles

LEMMA BadTokenKeepsTiles ==
  ASSUME CharactersInv, IInv, TilesInv, BadToken
  PROVE  TilesInv'
<1>1. PICK last : last = lastToken'
  OBVIOUS
<1>2. PICK item : item = Item(starttok, last, "error")
  OBVIOUS
<1>3. /\ pc = "error" /\ pc' = "item" /\ starttok # curtok /\ items' = Append(items, item)
      /\ UNCHANGED <<text, starttok, index, save_next_token, current_kind, curtok>>
      /\ ~Parsing => last = getPrevious(curtok)
  BY <1>1, <1>2 DEF BadToken
<1>4. last = getPrevious(curtok)
  <2>1. SUFFICES ASSUME Parsing PROVE last = getPrevious(curtok)
    BY <1>3
  <2>2. ParseInv' /\ Parsing'
    BY <1>3, <2>1, BadTokenKeepsCharacters, BoundsStay DEF CharactersInv
  <2>3. (lastToken = getPrevious(curtok))'
    BY <1>3, <2>2 DEF ParseInv
  <2> QED
    BY <1>1, <1>3, <2>3 DEF getPrevious
<1>5. Position' = Position /\ InItem
  BY <1>3 DEF Position, InItem
<1>6. TextInv /\ PlaceInv /\ EndInv /\ EndInv' /\ AtPosition /\ starttok <= Position
  BY <1>3, <1>5, EndStays DEF CharactersInv, IInv, TilesInv, PlaceInv
<1>7. /\ Limit \in Int /\ Limit < len - 1 /\ len \in Nat /\ Position \in Nat
      /\ starttok \in Nat /\ curtok \in Nat
  BY <1>6, LimitIsInText DEF PlaceInv
<1>8. PICK p \in Int : p = Position' /\ p = Position
  BY <1>5, <1>7
<1>9. starttok < p /\ starttok < len - 1
  BY <1>3, <1>8, SomeAreTaken
<1>10. last \in Nat /\ (last = p - 1 \/ (last > Limit /\ p = Limit + 1))
  <2>1. last = IF curtok <= 0 THEN 0 ELSE curtok - 1
    BY <1>4 DEF getPrevious
  <2>2. CASE curtok = p
    BY <1>7, <1>9, <2>1, <2>2
  <2>3. CASE way = "range" /\ curtok = len - 1 /\ current_kind = EOFT_SYMBOL
    <3>1. p = Limit + 1
      BY <1>6, <1>8, <2>3 DEF EndInv
    <3> QED
      BY <1>7, <1>9, <2>1, <2>3, <3>1
  <2> QED
    BY <1>6, <1>8, <2>2, <2>3 DEF AtPosition
<1>11. item \in ItemTypes /\ item.first = starttok /\ item.last = last /\ item.is = "error"
  BY <1>2, <1>7, <1>10 DEF Item, ItemTypes
<1> QED
  BY <1>3, <1>5, <1>6, <1>8, <1>9, <1>10, <1>11, ItemKeepsTiles

-----------------------------------------------------------------------------
LEMMA NextKeepsTiles ==
  ASSUME CharactersInv, IInv, TilesInv, [Next]_vars
  PROVE  TilesInv'
<1>1. CASE Work
  BY <1>1, StartItemKeepsTiles, PassesKeepTiles, TryingKeepsTiles, ScanCompletesKeepsTiles,
     ReplayReduceKeepsTiles, ShiftsKeepTiles, ParseShiftReduceKeepsTiles, ActionsTurnKeepsTiles,
     BadCharacterKeepsTiles, BadTokenKeepsTiles DEF Work
<1>2. CASE Stop
  BY <1>2, PassesKeepTiles
<1>3. CASE UNCHANGED vars
  BY <1>3, StutterKeepsTiles
<1> QED
  BY <1>1, <1>2, <1>3 DEF Next

THEOREM TilesInvariance == Spec => []TilesInv
<1>1. Init => TilesInv
  BY InitKeepsIt, InitMakesCharacters, InitTiles DEF IInv, CharactersInv
<1> QED
  BY <1>1, NextKeepsTiles, Invariance, CharactersInvariance, PTL DEF Spec

(* The items that a scanner makes and the errors it reports cover the text *)
(* from the first offset on, one right behind the other, and all of it     *)
(* when the scan has come to its end: an attempt as if at the end of the   *)
(* text, and an item without a character, lose none and take none twice.   *)
THEOREM TextIsAlwaysItems == Spec => []TextIsItems
<1>1. CharactersInv /\ IInv /\ TilesInv => TextIsItems
  <2>1. SUFFICES ASSUME CharactersInv, IInv, TilesInv PROVE TextIsItems
    OBVIOUS
  <2>2. ASSUME pc = "done"
        PROVE  IF items = <<>> THEN start_offset > Limit ELSE EndOf(Last(items)) = Limit
    <3>1. NextStart = Limit + 1 /\ start_offset \in Nat
      BY <2>1, <2>2 DEF TilesInv
    <3>2. Limit \in Int /\ Limit < len - 1 /\ len \in Nat
      BY <2>1, LimitIsInText DEF CharactersInv, IInv
    <3>3. CASE items = <<>>
      <4>1. getNext(start_offset - 1) = IF start_offset < len THEN start_offset ELSE len - 1
        BY <3>1, <3>2 DEF getNext
      <4> QED
        BY <3>1, <3>2, <3>3, <4>1 DEF NextStart
    <3>4. CASE items # <<>>
      <4>1. PICK e : e = EndOf(Last(items))
        OBVIOUS
      <4>2. e + 1 = Limit + 1
        BY <3>1, <3>4, <4>1 DEF NextStart
      <4>3. e \in Int
        <5>1. PICK item \in ItemTypes : item = Last(items)
          <6>1. Len(items) \in 1 .. Len(items)
            BY <2>1, <3>4 DEF TilesInv
          <6> QED
            BY <2>1, <6>1 DEF TilesInv, Last
        <5> QED
          BY <3>2, <4>1, <5>1 DEF EndOf, ItemTypes
      <4> QED
        BY <3>2, <3>4, <4>1, <4>2, <4>3
    <3> QED
      BY <3>3, <3>4
  <2> QED
    BY <2>1, <2>2 DEF TextIsItems, TilesInv, ItemsFollow
<1> QED
  BY <1>1, TilesInvariance, CharactersInvariance, Invariance, PTL

=============================================================================
