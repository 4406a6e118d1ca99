---------------------------- MODULE DifferProofs ----------------------------
(***************************************************************************)
(* What compare is given, init has cut out right: before it and behind it  *)
(* the two texts are the same.  So the changes turn the one into the       *)
(* other, whatever the texts.                                              *)
(***************************************************************************)
EXTENDS Differ, NaturalsInduction, WellFoundedInduction, SequenceTheorems, TLAPS

Lines == UNION {{buffer[i] : i \in DOMAIN buffer} : buffer \in Buffers}

(* The sections of the two texts that compare is given: they begin in the  *)
(* same line, leave out the same number of lines at the ends, and all that *)
(* they leave out is the same.                                             *)
Sections(start, newe, olde) ==
  /\ start \in Nat \ {0} /\ newe \in Nat /\ olde \in Nat
  /\ start - 1 <= newe /\ newe <= Len(newBuffer)
  /\ start - 1 <= olde /\ olde <= Len(oldBuffer)
  /\ Len(newBuffer) - newe = Len(oldBuffer) - olde
  /\ \A j \in 1 .. start - 1 : newBuffer[j] = oldBuffer[j]
  /\ \A j \in newe + 1 .. Len(newBuffer) : newBuffer[j] = oldBuffer[j - newe + olde]

CountsInv == insertCount = 0 /\ deleteCount = 0 /\ replaceDeleteCount = 0 /\ replaceInsertCount = 0

(* One change is made of the sections, with the code for the one that is   *)
(* empty.                                                                  *)
OutputInv ==
  \/ changes = <<>> /\ newBuffer = oldBuffer
  \/ \E code \in {"I", "D", "R"} :
       /\ changes = <<Change(code)>>
       /\ newStart = oldStart /\ Sections(oldStart, newEnd, oldEnd)
       /\ code = "I" => oldEnd = oldStart - 1
       /\ code = "D" => newEnd = oldStart - 1

IInv ==
  /\ pc \in {"init", "compare", "output", "done"}
  /\ newBuffer \in Seq(Lines) /\ oldBuffer \in Seq(Lines)
  /\ pc \in {"init", "compare"} => changes = <<>>
  /\ pc # "done" => CountsInv
  /\ pc = "compare" => newStart = oldStart /\ Sections(oldStart, newEnd, oldEnd)
  /\ pc = "output" => OutputInv
  /\ ChangesTurnOldIntoNew

-----------------------------------------------------------------------------
(* Every text is a sequence over one set of lines.                         *)
LEMMA BuffersAreSequences == Buffers \subseteq Seq(Lines)
<1>1. ASSUME NEW buffer \in Buffers PROVE buffer \in Seq(Lines)
  <2>1. /\ Len(buffer) \in Nat
        /\ DOMAIN buffer = 1 .. Len(buffer)
        /\ buffer = [i \in 1 .. Len(buffer) |-> buffer[i]]
    <3>1. PICK S : buffer \in Seq(S)
      BY BuffersAssumption
    <3> QED
      BY <3>1
  <2>2. \A i \in 1 .. Len(buffer) : buffer[i] \in Lines
    BY <2>1 DEF Lines
  <2> QED
    BY <2>1, <2>2, SeqDef
<1> QED
  BY <1>1

(* A set of naturals has a least element, so what init looks for by        *)
(* counting is there.                                                      *)
LEMMA LeastElement ==
  ASSUME NEW S \in SUBSET Nat, S # {}
  PROVE  \E n \in S : \A m \in S : n <= m
<1> DEFINE R == OpToRel(<, Nat)
<1>1. IsWellFoundedOn(R, Nat)
  BY NatLessThanWellFounded
<1>2. \A x, y \in Nat : x < y => <<x, y>> \in R
  BY DEF OpToRel
<1> HIDE DEF R
<1>3. PICK x \in S : \A y \in S : <<y, x>> \notin R
  BY <1>1, WFMin
<1>4. ASSUME NEW y \in S PROVE x <= y
  <2>1. x \in Nat /\ y \in Nat /\ ~(y < x)
    BY <1>2, <1>3
  <2> QED
    BY <2>1
<1> QED
  BY <1>4

(* The first loop of init stops at the first lines that are not the same.  *)
LEMMA FirstDifferenceFound ==
  ASSUME NEW news \in Seq(Lines), NEW olds \in Seq(Lines)
  PROVE  LET i == FirstDifference(news, olds)
         IN  /\ i \in 1 .. Len(news) + 1
             /\ i > Len(news) \/ i > Len(olds) \/ news[i] # olds[i]
             /\ \A j \in 1 .. i - 1 : j <= Len(olds) /\ news[j] = olds[j]
<1> DEFINE Stop(i) == i > Len(news) \/ i > Len(olds) \/ news[i] # olds[i]
           S == {i \in 1 .. Len(news) + 1 : Stop(i)}
<1>1. Len(news) \in Nat /\ Len(olds) \in Nat
  OBVIOUS
<1>2. Len(news) + 1 \in S /\ S \in SUBSET Nat
  BY <1>1
<1>3. PICK i \in S : \A m \in S : i <= m
  <2> HIDE DEF S
  <2> QED
    BY <1>2, LeastElement
<1>4. \A j \in 1 .. i - 1 : j <= Len(olds) /\ news[j] = olds[j]
  <2>1. SUFFICES ASSUME NEW j \in 1 .. i - 1 PROVE ~Stop(j)
    BY <1>1, <1>3
  <2>2. j \in 1 .. Len(news) + 1 /\ j < i
    BY <1>1, <1>3
  <2> QED
    BY <1>3, <2>2
<1>5. i \in 1 .. Len(news) + 1 /\ Stop(i)
  BY <1>3
<1> QED
  BY <1>4, <1>5 DEF FirstDifference

(* The second loop stops at the last lines that are not the same, or when  *)
(* it has come to the first line of a section.                             *)
LEMMA CommonEndFound ==
  ASSUME NEW news \in Seq(Lines), NEW olds \in Seq(Lines), NEW start \in Nat \ {0}
  PROVE  LET n == CommonEnd(news, olds, start)
         IN  /\ n \in 0 .. Len(news)
             /\ \A j \in 0 .. n - 1 :
                  /\ Len(news) - j > start /\ Len(olds) - j > start
                  /\ news[Len(news) - j] = olds[Len(olds) - j]
<1> DEFINE Stop(n) == \/ Len(news) - n <= start \/ Len(olds) - n <= start
                      \/ news[Len(news) - n] # olds[Len(olds) - n]
           S == {n \in 0 .. Len(news) : Stop(n)}
<1>1. Len(news) \in Nat /\ Len(olds) \in Nat
  OBVIOUS
<1>2. Len(news) \in S /\ S \in SUBSET Nat
  BY <1>1
<1>3. PICK n \in S : \A m \in S : n <= m
  <2> HIDE DEF S
  <2> QED
    BY <1>2, LeastElement
<1>4. \A j \in 0 .. n - 1 :
        /\ Len(news) - j > start /\ Len(olds) - j > start
        /\ news[Len(news) - j] = olds[Len(olds) - j]
  <2>1. SUFFICES ASSUME NEW j \in 0 .. n - 1 PROVE ~Stop(j)
    BY <1>1, <1>3
  <2>2. j \in 0 .. Len(news) /\ j < n
    BY <1>1, <1>3
  <2> QED
    BY <1>3, <2>2
<1>5. n \in 0 .. Len(news) /\ Stop(n)
  BY <1>3
<1> QED
  BY <1>4, <1>5 DEF CommonEnd

-----------------------------------------------------------------------------
LEMMA InitKeeps ==
  ASSUME IInv, init
  PROVE  IInv'
<1> DEFINE start == FirstDifference(newBuffer, oldBuffer)
<1>1. /\ newBuffer \in Seq(Lines) /\ oldBuffer \in Seq(Lines)
      /\ pc = "init" /\ changes = <<>> /\ CountsInv
  BY DEF IInv, init
<1>2. Len(newBuffer) \in Nat /\ Len(oldBuffer) \in Nat
  BY <1>1
<1>3. PICK s : s = start
  OBVIOUS
<1>4. /\ s \in 1 .. Len(newBuffer) + 1
      /\ \A j \in 1 .. s - 1 : j <= Len(oldBuffer) /\ newBuffer[j] = oldBuffer[j]
  BY <1>1, <1>3, FirstDifferenceFound
<1>5. PICK n : n = CommonEnd(newBuffer, oldBuffer, s)
  OBVIOUS
<1>6. s \in Nat \ {0}
  BY <1>2, <1>4
<1>7. /\ n \in 0 .. Len(newBuffer)
      /\ \A j \in 0 .. n - 1 :
           /\ Len(newBuffer) - j > s /\ Len(oldBuffer) - j > s
           /\ newBuffer[Len(newBuffer) - j] = oldBuffer[Len(oldBuffer) - j]
  BY <1>1, <1>5, <1>6, CommonEndFound
<1>8. /\ newStart' = s /\ oldStart' = s
      /\ newEnd' = Len(newBuffer) - n /\ oldEnd' = Len(oldBuffer) - n
      /\ pc' = "compare" /\ changes' = changes
      /\ newBuffer' = newBuffer /\ oldBuffer' = oldBuffer
      /\ CountsInv'
  BY <1>1, <1>3, <1>5 DEF init, buffers, counts, CountsInv
<1>9. s - 1 <= Len(newBuffer) - n /\ s - 1 <= Len(oldBuffer) - n
  <2>1. s - 1 <= Len(oldBuffer)
    <3>1. CASE s = 1
      BY <1>2, <3>1
    <3>2. CASE s # 1
      <4>1. s - 1 \in 1 .. s - 1
        BY <1>6, <3>2
      <4> QED
        BY <1>4, <4>1
    <3> QED
      BY <3>1, <3>2
  <2>2. CASE n = 0
    BY <1>2, <1>4, <2>1, <2>2
  <2>3. CASE n # 0
    <3>1. n - 1 \in 0 .. n - 1
      BY <1>2, <1>7, <2>3
    <3>2. Len(newBuffer) - (n - 1) > s /\ Len(oldBuffer) - (n - 1) > s
      BY <1>7, <3>1
    <3> QED
      BY <1>2, <1>6, <1>7, <3>2
  <2> QED
    BY <2>2, <2>3
<1>10. PICK e : e = Len(newBuffer) - n
  OBVIOUS
<1>11. PICK o : o = Len(oldBuffer) - n
  OBVIOUS
<1>12. \A j \in e + 1 .. Len(newBuffer) : newBuffer[j] = oldBuffer[j - e + o]
  <2>1. SUFFICES ASSUME NEW j \in e + 1 .. Len(newBuffer)
                 PROVE  newBuffer[j] = oldBuffer[j - e + o]
    OBVIOUS
  <2>2. PICK i : i = Len(newBuffer) - j
    OBVIOUS
  <2>3. /\ i \in 0 .. n - 1 /\ Len(newBuffer) - i = j
        /\ Len(oldBuffer) - i = j - e + o
    BY <1>2, <1>7, <1>10, <1>11, <2>2
  <2>4. newBuffer[Len(newBuffer) - i] = oldBuffer[Len(oldBuffer) - i]
    BY <1>7, <2>3
  <2> QED
    BY <2>3, <2>4
<1>13. Sections(s, e, o)
  <2>1. \A j \in 1 .. s - 1 : newBuffer[j] = oldBuffer[j]
    BY <1>4
  <2>2. /\ e \in Nat /\ o \in Nat /\ s - 1 <= e /\ e <= Len(newBuffer)
        /\ s - 1 <= o /\ o <= Len(oldBuffer)
        /\ Len(newBuffer) - e = Len(oldBuffer) - o
    BY <1>2, <1>6, <1>7, <1>9, <1>10, <1>11
  <2> QED
    BY <1>6, <1>12, <2>1, <2>2 DEF Sections
<1>14. (Sections(oldStart, newEnd, oldEnd))'
  BY <1>8, <1>10, <1>11, <1>13 DEF Sections
<1> QED
  BY <1>1, <1>8, <1>14 DEF IInv, ChangesTurnOldIntoNew

(* compare makes one change, and there is something to change: the texts   *)
(* differ.                                                                 *)
LEMMA ComparedKeeps ==
  ASSUME IInv, pc = "compare", NEW code \in {"I", "D", "R"}, Compared(code),
         code = "I" => oldStart > oldEnd, code = "D" => newStart > newEnd
  PROVE  IInv'
<1>1. newStart = oldStart /\ Sections(oldStart, newEnd, oldEnd) /\ CountsInv
  BY DEF IInv
<1>2. /\ changes' = <<Change(code)>> /\ pc' = "output"
      /\ UNCHANGED <<newBuffer, oldBuffer, newStart, oldStart, newEnd, oldEnd>>
      /\ CountsInv'
  BY <1>1 DEF Compared, buffers, bounds, counts, CountsInv
<1>3. code = "I" => oldEnd = oldStart - 1
  BY <1>1 DEF Sections
<1>4. code = "D" => newEnd = oldStart - 1
  BY <1>1 DEF Sections
<1>5. (Sections(oldStart, newEnd, oldEnd))'
  BY <1>1, <1>2 DEF Sections
<1>6. OutputInv'
  BY <1>1, <1>2, <1>3, <1>4, <1>5 DEF OutputInv, Change
<1> QED
  BY <1>2, <1>6 DEF IInv, ChangesTurnOldIntoNew

(* The beginning of the old text, the section of the new one and the end   *)
(* of the old text are the new text.                                       *)
LEMMA AppliedIsNew ==
  ASSUME newBuffer \in Seq(Lines), oldBuffer \in Seq(Lines), NEW code,
         newStart = oldStart, Sections(oldStart, newEnd, oldEnd)
  PROVE  Applied(Change(code)) = newBuffer
<1> DEFINE before == SubSeq(oldBuffer, 1, oldStart - 1)
           middle == SubSeq(newBuffer, oldStart, newEnd)
           behind == SubSeq(oldBuffer, oldEnd + 1, Len(oldBuffer))
<1>1. Applied(Change(code)) = before \o middle \o behind
  BY DEF Applied, Change
<1>2. /\ Len(newBuffer) \in Nat /\ Len(oldBuffer) \in Nat
      /\ oldStart \in Nat \ {0} /\ newEnd \in Nat /\ oldEnd \in Nat
      /\ oldStart - 1 <= newEnd /\ newEnd <= Len(newBuffer)
      /\ oldStart - 1 <= oldEnd /\ oldEnd <= Len(oldBuffer)
      /\ Len(newBuffer) - newEnd = Len(oldBuffer) - oldEnd
  BY DEF Sections
<1>3. /\ before \in Seq(Lines) /\ Len(before) = oldStart - 1
      /\ \A j \in 1 .. oldStart - 1 : before[j] = oldBuffer[j]
  <2>1. \A j \in 1 .. oldStart - 1 : oldBuffer[j] \in Lines
    BY <1>2
  <2> QED
    BY <1>2, <2>1, SubSeqProperties
<1>4. /\ middle \in Seq(Lines) /\ Len(middle) = newEnd - oldStart + 1
      /\ \A j \in 1 .. newEnd - oldStart + 1 : middle[j] = newBuffer[oldStart + j - 1]
  <2>1. \A j \in oldStart .. newEnd : newBuffer[j] \in Lines
    BY <1>2
  <2> QED
    BY <1>2, <2>1, SubSeqProperties
<1>5. /\ behind \in Seq(Lines) /\ Len(behind) = Len(oldBuffer) - oldEnd
      /\ \A j \in 1 .. Len(oldBuffer) - oldEnd : behind[j] = oldBuffer[oldEnd + j]
  <2>1. \A j \in oldEnd + 1 .. Len(oldBuffer) : oldBuffer[j] \in Lines
    BY <1>2
  <2> QED
    BY <1>2, <2>1, SubSeqProperties
<1> HIDE DEF before, middle, behind
<1>6. PICK front : front = before \o middle
  OBVIOUS
<1>7. /\ front \in Seq(Lines)
      /\ Len(front) = newEnd
      /\ \A j \in 1 .. newEnd : front[j] =
           IF j <= oldStart - 1 THEN before[j] ELSE middle[j - (oldStart - 1)]
  <2>1. Len(before) + Len(middle) = newEnd
    BY <1>2, <1>3, <1>4
  <2>2. before \in Seq(Lines) /\ middle \in Seq(Lines)
    BY <1>3, <1>4
  <2>3. /\ front \in Seq(Lines)
        /\ Len(front) = Len(before) + Len(middle)
        /\ \A j \in 1 .. Len(before) + Len(middle) : front[j] =
             IF j <= Len(before) THEN before[j] ELSE middle[j - Len(before)]
    BY ONLY <1>6, <2>2, ConcatProperties
  <2>4. Len(before) = oldStart - 1
    BY <1>3
  <2> QED
    BY ONLY <2>1, <2>3, <2>4
<1>8. PICK whole : whole = front \o behind
  OBVIOUS
<1>9. /\ whole \in Seq(Lines)
      /\ Len(whole) = Len(newBuffer)
      /\ \A j \in 1 .. Len(newBuffer) : whole[j] =
           IF j <= newEnd THEN front[j] ELSE behind[j - newEnd]
  <2>1. newEnd + Len(behind) = Len(newBuffer)
    BY <1>2, <1>5
  <2> QED
    BY <1>5, <1>7, <1>8, <2>1, ConcatProperties
<1>10. ASSUME NEW j \in 1 .. Len(newBuffer)
      PROVE  whole[j] = newBuffer[j]
  <2>1. CASE j <= oldStart - 1
    <3>1. whole[j] = before[j] /\ before[j] = oldBuffer[j]
      BY <1>2, <1>3, <1>7, <1>9, <2>1
    <3>2. newBuffer[j] = oldBuffer[j]
      BY <1>2, <2>1 DEF Sections
    <3> QED
      BY <3>1, <3>2
  <2>2. CASE oldStart <= j /\ j <= newEnd
    <3>1. whole[j] = middle[j - (oldStart - 1)]
      <4>1. j \in 1 .. newEnd /\ ~(j <= oldStart - 1)
        BY <1>2, <2>2
      <4> QED
        BY <1>7, <1>9, <4>1
    <3>2. middle[j - (oldStart - 1)] = newBuffer[j]
      <4>1. /\ j - (oldStart - 1) \in 1 .. newEnd - oldStart + 1
            /\ oldStart + (j - (oldStart - 1)) - 1 = j
        BY <1>2, <2>2
      <4> QED
        BY <1>4, <4>1
    <3> QED
      BY <3>1, <3>2
  <2>3. CASE newEnd < j
    <3>1. whole[j] = behind[j - newEnd]
      BY <1>2, <1>9, <2>3
    <3>2. behind[j - newEnd] = oldBuffer[j - newEnd + oldEnd]
      <4>1. /\ j - newEnd \in 1 .. Len(oldBuffer) - oldEnd
            /\ oldEnd + (j - newEnd) = j - newEnd + oldEnd
        BY <1>2, <2>3
      <4> QED
        BY <1>5, <4>1
    <3>3. newBuffer[j] = oldBuffer[j - newEnd + oldEnd]
      BY <1>2, <2>3 DEF Sections
    <3> QED
      BY <3>1, <3>2, <3>3
  <2> QED
    BY <1>2, <2>1, <2>2, <2>3
<1>11. whole = newBuffer
  BY <1>9, <1>10, SeqEqual
<1> QED
  BY <1>1, <1>6, <1>8, <1>11 DEF before, middle, behind

(* The changes that are put out are made of the right sections, and the    *)
(* lines are counted from them.                                            *)
LEMMA OutputChangesKeeps ==
  ASSUME IInv, outputChanges
  PROVE  IInv'
<1>1. /\ newBuffer \in Seq(Lines) /\ oldBuffer \in Seq(Lines)
      /\ OutputInv /\ CountsInv
  BY DEF IInv, outputChanges
<1>2. UNCHANGED <<newBuffer, oldBuffer, changes>> /\ pc' = "done"
  BY DEF outputChanges, buffers
<1>3. ASSUME NEW c, changes = c
      PROVE  LET Lines1(code, from, to) ==
                   IF c # <<>> /\ Head(c).code = code THEN Head(c)[to] - Head(c)[from] + 1 ELSE 0
             IN  /\ insertCount' = 0 + Lines1("I", "news", "newe")
                 /\ deleteCount' = 0 + Lines1("D", "olds", "olde")
                 /\ replaceDeleteCount' = 0 + Lines1("R", "olds", "olde")
                 /\ replaceInsertCount' = 0 + Lines1("R", "news", "newe")
  BY <1>1, <1>3 DEF outputChanges, CountsInv
<1>4. ChangesTurnOldIntoNew'
  <2>1. CASE changes = <<>> /\ newBuffer = oldBuffer
    <3>1. /\ insertCount' = 0 /\ deleteCount' = 0
          /\ replaceDeleteCount' = 0 /\ replaceInsertCount' = 0
      BY <1>3, <2>1
    <3>2. Len(newBuffer) \in Nat
      BY <1>1
    <3> QED
      BY <1>1, <1>2, <2>1, <3>1, <3>2 DEF ChangesTurnOldIntoNew
  <2>2. ASSUME NEW code \in {"I", "D", "R"},
               changes = <<Change(code)>>,
               newStart = oldStart, Sections(oldStart, newEnd, oldEnd),
               code = "I" => oldEnd = oldStart - 1,
               code = "D" => newEnd = oldStart - 1
        PROVE  ChangesTurnOldIntoNew'
    <3>1. changes # <<>> /\ Head(changes) = Change(code)
      BY <2>2
    <3>2. Applied(Change(code)) = newBuffer
      BY <1>1, <2>2, AppliedIsNew
    <3>3. (Applied(Head(changes)))' = Applied(Head(changes))
      BY <1>2 DEF Applied
    <3>4. /\ Change(code).code = code
          /\ Change(code)["news"] = oldStart /\ Change(code)["newe"] = newEnd
          /\ Change(code)["olds"] = oldStart /\ Change(code)["olde"] = oldEnd
      BY <2>2 DEF Change
    <3>5. /\ insertCount' = IF code = "I" THEN newEnd - oldStart + 1 ELSE 0
          /\ deleteCount' = IF code = "D" THEN oldEnd - oldStart + 1 ELSE 0
          /\ replaceDeleteCount' = IF code = "R" THEN oldEnd - oldStart + 1 ELSE 0
          /\ replaceInsertCount' = IF code = "R" THEN newEnd - oldStart + 1 ELSE 0
      BY <1>3, <2>2, <3>1, <3>4 DEF Sections
    <3>6. insertCount' + replaceInsertCount' - deleteCount' - replaceDeleteCount'
            = Len(newBuffer) - Len(oldBuffer)
      <4>1. /\ Len(newBuffer) \in Nat /\ Len(oldBuffer) \in Nat
            /\ oldStart \in Nat /\ newEnd \in Nat /\ oldEnd \in Nat
            /\ Len(newBuffer) - newEnd = Len(oldBuffer) - oldEnd
        BY <1>1, <2>2 DEF Sections
      <4>2. CASE code = "I"
        <5>1. /\ insertCount' = newEnd - oldStart + 1 /\ deleteCount' = 0
              /\ replaceDeleteCount' = 0 /\ replaceInsertCount' = 0
          BY <3>5, <4>2
        <5> QED
          BY <2>2, <4>1, <4>2, <5>1
      <4>3. CASE code = "D"
        <5>1. /\ deleteCount' = oldEnd - oldStart + 1 /\ insertCount' = 0
              /\ replaceDeleteCount' = 0 /\ replaceInsertCount' = 0
          BY <3>5, <4>3
        <5> QED
          BY <2>2, <4>1, <4>3, <5>1
      <4>4. CASE code = "R"
        <5>1. /\ insertCount' = 0 /\ deleteCount' = 0
              /\ replaceDeleteCount' = oldEnd - oldStart + 1
              /\ replaceInsertCount' = newEnd - oldStart + 1
          BY <3>5, <4>4
        <5> QED
          BY <4>1, <5>1
      <4> QED
        BY <2>2, <4>2, <4>3, <4>4
    <3> QED
      BY <1>2, <3>1, <3>2, <3>3, <3>6 DEF ChangesTurnOldIntoNew
  <2> QED
    BY <1>1, <2>1, <2>2 DEF OutputInv
<1> QED
  BY <1>1, <1>2, <1>4 DEF IInv

LEMMA InitHolds == Init => IInv
BY BuffersAreSequences DEF Init, IInv, CountsInv, ChangesTurnOldIntoNew

LEMMA NextKeeps == IInv /\ [Next]_vars => IInv'
<1> SUFFICES ASSUME IInv, [Next]_vars PROVE IInv'
  OBVIOUS
<1>1. CASE Same
  <2>1. /\ UNCHANGED <<newBuffer, oldBuffer, changes>> /\ pc' = "output"
        /\ CountsInv' /\ changes = <<>> /\ newBuffer = oldBuffer
    BY <1>1 DEF Same, IInv, buffers, counts, CountsInv
  <2> QED
    BY <2>1 DEF IInv, OutputInv, ChangesTurnOldIntoNew
<1>2. CASE init
  BY <1>2, InitKeeps
<1>3. CASE CompareInsert
  BY <1>3, ComparedKeeps DEF CompareInsert
<1>4. CASE CompareDelete
  BY <1>4, ComparedKeeps DEF CompareDelete
<1>5. CASE addReplace
  BY <1>5, ComparedKeeps DEF addReplace
<1>6. CASE outputChanges
  BY <1>6, OutputChangesKeeps
<1>7. CASE UNCHANGED vars
  <2>1. UNCHANGED vars
    BY <1>7
  <2> QED
    BY <2>1 DEF IInv, vars, CountsInv, OutputInv, Sections, Change,
                ChangesTurnOldIntoNew, Applied
<1> QED
  BY <1>1, <1>2, <1>3, <1>4, <1>5, <1>6, <1>7 DEF Next

(* What compare is given is what init has cut out, and what is put out is  *)
(* one change of that.                                                     *)
THEOREM Invariance == Spec => []IInv
<1>1. Init => IInv
  BY InitHolds
<1>2. IInv /\ [Next]_vars => IInv'
  BY NextKeeps
<1> QED
  BY <1>1, <1>2, PTL DEF Spec

(* The changes that Differ puts out turn the old text into the new one, and *)
(* their lines add up to the difference in length, for all texts.          *)
THEOREM DifferenceIsTheWhole == Spec => []ChangesTurnOldIntoNew
<1>1. IInv => ChangesTurnOldIntoNew
  BY DEF IInv
<1> QED
  BY <1>1, Invariance, PTL

=============================================================================
