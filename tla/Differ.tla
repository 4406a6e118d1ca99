------------------------------- MODULE Differ -------------------------------
(***************************************************************************)
(* Differ and DifferLines: the differences between two texts, line by      *)
(* line.  The constructor leaves out what the texts have in common at      *)
(* their beginnings and ends (init), compare turns the rest into changes,  *)
(* and outputChanges counts their lines.                                   *)
(*                                                                         *)
(* A line is a member of a set, equal if its tokens are.  compare looks    *)
(* for equal sections through newMap, which has the addresses of the new   *)
(* lines: the old lines are other objects, and so it finds none.  That     *)
(* leaves one change for the two sections; there is nothing to split, and  *)
(* no change that findMoves or addReplace could pair with it.              *)
(***************************************************************************)
EXTENDS Integers, Sequences

CONSTANTS
  Buffers      \* the texts: sequences of lines

ASSUME BuffersAssumption ==
  \A buffer \in Buffers : buffer \in Seq({buffer[i] : i \in DOMAIN buffer})

VARIABLES
  pc,
  newBuffer, oldBuffer,
  newStart, oldStart, newEnd, oldEnd,
  changes,     \* changeRoot
  insertCount, deleteCount, replaceDeleteCount, replaceInsertCount

vars == <<pc, newBuffer, oldBuffer, newStart, oldStart, newEnd, oldEnd, changes,
          insertCount, deleteCount, replaceDeleteCount, replaceInsertCount>>
buffers == <<newBuffer, oldBuffer>>
bounds == <<newStart, oldStart, newEnd, oldEnd>>
counts == <<insertCount, deleteCount, replaceDeleteCount, replaceInsertCount>>

(* The first lines that are not the same: lines are counted from 1.        *)
FirstDifference(news, olds) ==
  CHOOSE i \in 1 .. Len(news) + 1 :
    /\ i > Len(news) \/ i > Len(olds) \/ news[i] # olds[i]
    /\ \A j \in 1 .. i - 1 : j <= Len(olds) /\ news[j] = olds[j]

(* Mutant: the end may run into the beginning.                             *)
CommonEndAnywhere(news, olds, start) ==
  CHOOSE n \in 0 .. Len(news) :
    /\ n = Len(news) \/ n = Len(olds) \/ news[Len(news) - n] # olds[Len(olds) - n]
    /\ \A j \in 0 .. n - 1 : j < Len(olds) /\ news[Len(news) - j] = olds[Len(olds) - j]

(* How many lines at the ends are the same, before one of the sections is  *)
(* down to its first line, which is not compared.                          *)
CommonEnd(news, olds, start) ==
  CHOOSE n \in 0 .. Len(news) :
    LET i == Len(news) - n
        k == Len(olds) - n
    IN  /\ i <= start \/ k <= start \/ news[i] # olds[k]
        /\ \A j \in 0 .. n - 1 :
             /\ Len(news) - j > start /\ Len(olds) - j > start
             /\ news[Len(news) - j] = olds[Len(olds) - j]

Init ==
  /\ newBuffer \in Buffers /\ oldBuffer \in Buffers
  /\ newStart = 0 /\ oldStart = 0 /\ newEnd = 0 /\ oldEnd = 0
  /\ changes = <<>>
  /\ insertCount = 0 /\ deleteCount = 0 /\ replaceDeleteCount = 0 /\ replaceInsertCount = 0
  /\ pc = "init"

(* Texts without a difference stay as they are.                            *)
Same ==
  /\ pc = "init" /\ newBuffer = oldBuffer
  /\ pc' = "output"
  /\ UNCHANGED <<buffers, bounds, changes, counts>>

init ==
  /\ pc = "init" /\ newBuffer # oldBuffer
  /\ LET start == FirstDifference(newBuffer, oldBuffer)
         n == CommonEnd(newBuffer, oldBuffer, start)
     IN  /\ newStart' = start /\ oldStart' = start
         /\ newEnd' = Len(newBuffer) - n /\ oldEnd' = Len(oldBuffer) - n
  /\ pc' = "compare"
  /\ UNCHANGED <<buffers, changes, counts>>

Change(code) ==
  [code |-> code, olds |-> oldStart, olde |-> oldEnd, news |-> newStart, newe |-> newEnd]

Compared(code) ==
  /\ changes' = <<Change(code)>> /\ pc' = "output"
  /\ UNCHANGED <<buffers, bounds, counts>>

CompareInsert == pc = "compare" /\ oldStart > oldEnd /\ Compared("I")

CompareDelete == pc = "compare" /\ oldStart <= oldEnd /\ newStart > newEnd /\ Compared("D")

addReplace == pc = "compare" /\ oldStart <= oldEnd /\ newStart <= newEnd /\ Compared("R")

outputChanges ==
  /\ pc = "output" /\ pc' = "done"
  /\ LET Lines(code, from, to) ==
           IF changes # <<>> /\ Head(changes).code = code
           THEN Head(changes)[to] - Head(changes)[from] + 1 ELSE 0
     IN  /\ insertCount' = insertCount + Lines("I", "news", "newe")
         /\ deleteCount' = deleteCount + Lines("D", "olds", "olde")
         /\ replaceDeleteCount' = replaceDeleteCount + Lines("R", "olds", "olde")
         /\ replaceInsertCount' = replaceInsertCount + Lines("R", "news", "newe")
  /\ UNCHANGED <<buffers, bounds, changes>>

Next == Same \/ init \/ CompareInsert \/ CompareDelete \/ addReplace \/ outputChanges

Spec == Init /\ [][Next]_vars

-----------------------------------------------------------------------------
(* The old text with a change made to it.                                  *)
Applied(c) ==
  SubSeq(oldBuffer, 1, c.olds - 1) \o SubSeq(newBuffer, c.news, c.newe)
    \o SubSeq(oldBuffer, c.olde + 1, Len(oldBuffer))

(* The changes turn the old text into the new one, whatever the texts have *)
(* in common, and the lines counted add up to the difference in length.    *)
ChangesTurnOldIntoNew ==
  pc = "done" =>
    /\ newBuffer = IF changes = <<>> THEN oldBuffer ELSE Applied(Head(changes))
    /\ insertCount + replaceInsertCount - deleteCount - replaceDeleteCount
         = Len(newBuffer) - Len(oldBuffer)

=============================================================================
