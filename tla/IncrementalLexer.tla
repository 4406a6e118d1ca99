-------------------------- MODULE IncrementalLexer --------------------------
(***************************************************************************)
(* A generated lexer over a character stream: the scan of a whole text     *)
(* into a token stream (lexer), and, after an edit of the text, the        *)
(* incremental scan that takes the tokens behind the edit out, scans from  *)
(* there until it is in step with the tokens taken out again, and puts the *)
(* rest of those back (incrementalLexer).  The editor is external: it      *)
(* replaces a part of the text, and says from where to where the new text  *)
(* differs.                                                                *)
(***************************************************************************)
EXTENDS LexStream, PrsStream

CONSTANTS Letter, Opener, Blank,  \* characters: of words, opening a comment, blank
          WORD, COMMENT,          \* kinds
          Texts,                  \* the first texts
          Replacements,           \* what an edit puts in
          MaxEdits                \* a bound

VARIABLES phase,           \* where lexer or incrementalLexer is
          curtok,          \* the offset of the next character
          edit,            \* the edit: the text and the damaged part of it
          affected,        \* affected_tokens
          affected_index,
          repair_offset,
          firstNew,        \* first_new_token_index and first_new_adjunct_index
          newObjects,      \* history: what the incremental scan has made
          range,           \* the Range that is returned: two pointers
          edits,           \* history: the number of edits
          intact           \* history: no edit has touched a character before this one

editVars == <<edit, affected, affected_index, repair_offset, firstNew, newObjects, range>>
vars == <<inputChars, lineOffsets, streamVars, phase, curtok, editVars, edits, intact>>

NoEdit == [text |-> << >>, start |-> 0, end |-> 0, shift |-> 0]
-----------------------------------------------------------------------------
(* The lexical rules: a word is a run of letters, a comment goes to the    *)
(* end of the line, blanks are skipped, any other character is an error.   *)

Blanks == {Blank, Tab, LineFeed}

ItemKind(text, i) ==
  LET c == text[i + 1]
  IN  IF c = Letter THEN "word" ELSE IF c = Opener THEN "comment"
      ELSE IF c \in Blanks THEN "blank" ELSE "error"

Continues(c, kind) == \/ kind = "word" /\ c = Letter
                      \/ kind = "comment" /\ c # LineFeed
                      \/ kind = "blank" /\ c \in Blanks

(* The offset of the last character of the item that begins at i.          *)
ItemEnd(text, i) ==
  LET kind == ItemKind(text, i)
  IN  CHOOSE j \in i .. Len(text) - 1 :
        /\ \A k \in i + 1 .. j : Continues(text[k + 1], kind)
        /\ j + 1 < Len(text) => ~Continues(text[j + 2], kind)

(* An error is only reported.  LexParser calls reportLexicalError of the   *)
(* LexStream, which makes no token and removes none; the method of that    *)
(* name in the generated lexer is never called.                            *)
reportLexicalError == UNCHANGED <<heap, tokens, adjuncts, rangeTokens>>

(* Scanning the item at curtok, with its rule action.                      *)
ScanItem(next) ==
  LET i == curtok
      j == ItemEnd(inputChars, i)
      kind == ItemKind(inputChars, i)
  IN  /\ next = j + 1
      /\ \/ kind = "word" /\ makeToken(i, j, WORD)
         \/ kind = "comment" /\ makeAdjunct(i, j, COMMENT)
         \/ kind = "blank" /\ UNCHANGED <<heap, tokens, adjuncts, rangeTokens>>
         \/ kind = "error" /\ reportLexicalError
-----------------------------------------------------------------------------
Init ==
  /\ inputChars \in Texts
  /\ lineOffsets = computeLineOffsets(inputChars)
  /\ EmptyStream
  /\ phase = "new" /\ curtok = 0 /\ edits = 0
  /\ edit = NoEdit /\ affected = << >> /\ affected_index = 0
  /\ repair_offset = 0 /\ firstNew = <<0, 0>> /\ newObjects = {} /\ range = <<0, 0>>
  /\ intact = streamLength_

(* The token list must start with a bad token.                             *)
initializeLexer ==
  /\ phase \in {"new", "failed"}
  /\ resetAndMakeToken(0, -1, BAD)
  /\ curtok' = 0 /\ phase' = "lexing"
  /\ edit' = NoEdit /\ affected' = << >> /\ affected_index' = 0
  /\ repair_offset' = 0 /\ firstNew' = <<0, 0>> /\ newObjects' = {} /\ range' = <<0, 0>>
  /\ UNCHANGED <<inputChars, lineOffsets, edits, intact>>

parseCharacters ==
  /\ phase = "lexing" /\ curtok < streamLength_
  /\ \E next \in 1 .. streamLength_ : ScanItem(next) /\ curtok' = next
  /\ UNCHANGED <<inputChars, lineOffsets, len, phase, editVars, edits, intact>>

(* ... and end with the end of file token.                                 *)
addEOF ==
  /\ phase = "lexing" /\ curtok = streamLength_
  /\ makeToken(streamLength_, streamLength_, EOF)
  /\ setStreamLength
  /\ phase' = "ready"
  /\ UNCHANGED <<inputChars, lineOffsets, curtok, editVars, edits, intact>>
-----------------------------------------------------------------------------
Edited(from, upto, new) ==
  SubSeq(inputChars, 1, from) \o new \o SubSeq(inputChars, upto + 2, streamLength_)

(* An edit replaces the characters from .. upto (none if upto = from - 1). *)
(* incrementalLexer refuses one at the start of the text.                  *)
Edit ==
  /\ phase = "ready" /\ edits < MaxEdits
  /\ \E from \in 0 .. streamLength_, new \in Replacements :
     \E upto \in from - 1 .. streamLength_ - 1 :
       LET text == Edited(from, upto, new)
       IN  /\ text # inputChars
           /\ ~(from <= 0 /\ from < Len(text))
           /\ edit' = [text |-> text, start |-> from, end |-> from + Len(new) - 1,
                       shift |-> Len(text) - streamLength_]
  /\ edits' = edits + 1 /\ phase' = "reset"
  /\ affected' = << >> /\ affected_index' = 0 /\ newObjects' = {} /\ range' = <<0, 0>>
  /\ UNCHANGED <<inputChars, lineOffsets, streamVars, curtok, repair_offset, firstNew, intact>>

(* incrementalResetAtCharacterOffset.                                      *)
ResetStream ==
  /\ phase = "reset" /\ ~ResetThrows(edit.start)
  /\ affected' = AffectedTokens(edit.start)
  /\ adjuncts' = SubSeq(adjuncts, 1, AdjunctsLeft(edit.start))
  /\ tokens' = SubSeq(tokens, 1, FirstAffected(edit.start))
  /\ phase' = "repair"
  /\ UNCHANGED <<inputChars, lineOffsets, heap, rangeTokens, len, curtok, edit,
                 affected_index, repair_offset, firstNew, newObjects, range, edits, intact>>

(* out_of_range, after the adjuncts have been cut off.                     *)
ResetStreamFails ==
  /\ phase = "reset" /\ ResetThrows(edit.start)
  /\ adjuncts' = SubSeq(adjuncts, 1, AdjunctsLeft(edit.start))
  /\ phase' = "failed"
  /\ UNCHANGED <<inputChars, lineOffsets, heap, tokens, rangeTokens, len, curtok,
                 editVars, edits, intact>>

(* Where to scan from: behind the first affected object, which is put      *)
(* back, if the damage does not touch it; otherwise from its start.        *)
RepairOffset ==
  /\ phase = "repair"
  /\ LET first == heap[affected[1]]
         kept == first.end + 1 < edit.start
     IN  /\ \/ /\ kept /\ ~first.adjunct
               /\ makeOldToken(affected[1], 0)
            \/ /\ kept /\ first.adjunct
               /\ makeOldAdjunct(affected[1], 0)
            \/ /\ ~kept
               /\ UNCHANGED <<heap, tokens, adjuncts, rangeTokens>>
         /\ affected_index' = IF kept THEN 1 ELSE 0
         /\ repair_offset' = IF kept THEN first.end + 1 ELSE first.start
  /\ phase' = "lines"
  /\ UNCHANGED <<inputChars, lineOffsets, len, curtok, edit, affected, firstNew, newObjects,
                 range, edits, intact>>

(* setInputChars, setStreamLength, computeLineOffsets, which may throw,    *)
(* and resetTokenStream.                                                   *)
NewText ==
  /\ phase = "lines"
  /\ inputChars' = edit.text
  /\ intact' = IF edit.start < intact THEN edit.start ELSE intact
  /\ \/ /\ LineEntryExists(repair_offset)
        /\ lineOffsets' = LineOffsetsFrom(edit.text, repair_offset)
        /\ curtok' = repair_offset
        /\ firstNew' = <<Len(tokens), Len(adjuncts)>>
        /\ newObjects' = {}
        /\ phase' = "scan"
     \/ /\ ~LineEntryExists(repair_offset)
        /\ phase' = "failed"
        /\ UNCHANGED <<lineOffsets, curtok, firstNew, newObjects>>
  /\ UNCHANGED <<streamVars, edit, affected, affected_index, repair_offset, range, edits>>

(* The first affected object, from the current one on, that does not begin *)
(* before next in the new text.                                            *)
SkipAffected(next) ==
  CHOOSE k \in affected_index .. Len(affected) :
    /\ \A j \in affected_index .. k - 1 : heap[affected[j + 1]].start + edit.shift < next
    /\ k < Len(affected) => heap[affected[k + 1]].start + edit.shift >= next

(* Mutant: the scan goes on whether or not it is in step, and one further. *)
ScanGoesThrough(next, index) == next <= edit.end + 1

(* Still in the damaged part, and not in step with an affected object.     *)
ScanGoesOn(next, index) ==
  /\ next <= edit.end
  /\ index < Len(affected)
  /\ heap[affected[index + 1]].start + edit.shift # next

(* One turn of the loop.  At the end of the text nothing is scanned.       *)
incrementalParseCharacters ==
  /\ phase = "scan"
  /\ \E next \in 0 .. streamLength_ :
       /\ \/ curtok < streamLength_ /\ ScanItem(next)
          \/ /\ curtok = streamLength_ /\ next = streamLength_
             /\ UNCHANGED <<heap, tokens, adjuncts, rangeTokens>>
       /\ curtok' = next
       /\ affected_index' = SkipAffected(next)
       /\ phase' = IF ScanGoesOn(next, SkipAffected(next)) THEN "scan" ELSE "range"
  /\ newObjects' = newObjects \cup (DOMAIN heap' \ DOMAIN heap)
  /\ UNCHANGED <<inputChars, lineOffsets, len, edit, affected, repair_offset, firstNew, range,
                 edits, intact>>

(* Mutant: an adjunct before the first new token is not looked at.         *)
FirstNewToken ==
  IF firstNew[1] < Len(tokens) THEN tokens[firstNew[1] + 1]
  ELSE IF firstNew[2] < Len(adjuncts) THEN adjuncts[firstNew[2] + 1]
  ELSE 0

(* The first and the last new object, 0 if there is none.                  *)
FirstNew ==
  LET t == IF firstNew[1] < Len(tokens) THEN tokens[firstNew[1] + 1] ELSE 0
      a == IF firstNew[2] < Len(adjuncts) THEN adjuncts[firstNew[2] + 1] ELSE 0
  IN  IF a # 0 /\ (t = 0 \/ heap[a].start < heap[t].start) THEN a ELSE t

LastNew ==
  LET t == IF firstNew[1] < Len(tokens) THEN Last(tokens) ELSE 0
      a == IF firstNew[2] < Len(adjuncts) THEN Last(adjuncts) ELSE 0
  IN  IF a # 0 /\ (t = 0 \/ heap[a].end > heap[t].end) THEN a ELSE t

NewRange ==
  /\ phase = "range"
  /\ range' = <<FirstNew, LastNew>>
  /\ phase' = "append"
  /\ UNCHANGED <<inputChars, lineOffsets, streamVars, curtok, edit, affected, affected_index,
                 repair_offset, firstNew, newObjects, edits, intact>>

(* The rest of the affected objects is put back, moved.                    *)
AppendAffected ==
  /\ phase = "append" /\ affected_index < Len(affected)
  /\ LET id == affected[affected_index + 1]
     IN  \/ ~heap[id].adjunct /\ makeOldToken(id, edit.shift)
         \/ heap[id].adjunct /\ makeOldAdjunct(id, edit.shift)
  /\ affected_index' = affected_index + 1
  /\ UNCHANGED <<inputChars, lineOffsets, len, phase, curtok, edit, affected,
                 repair_offset, firstNew, newObjects, range, edits, intact>>

Return ==
  /\ phase = "append" /\ affected_index = Len(affected)
  /\ phase' = "ready"
  /\ UNCHANGED <<inputChars, lineOffsets, streamVars, curtok, editVars, edits, intact>>

Calls == initializeLexer \/ Edit
Turns == \/ parseCharacters \/ addEOF
         \/ ResetStream \/ ResetStreamFails \/ RepairOffset \/ NewText
         \/ incrementalParseCharacters \/ NewRange \/ AppendAffected \/ Return
Next == Calls \/ Turns

Spec == Init /\ [][Next]_vars /\ WF_vars(Turns)
-----------------------------------------------------------------------------
(* What the properties refer to.                                           *)

(* The tokens, each followed by its adjuncts.                              *)
Layout ==
  FlattenSeq([i \in 1 .. Len(tokens) |->
    <<tokens[i]>> \o SubSeq(adjuncts, heap[tokens[i]].adjunctIndex + 1,
                            IF i = Len(tokens) THEN Len(adjuncts)
                            ELSE heap[tokens[i + 1]].adjunctIndex)])

Item(isAdjunct, startLoc, endLoc, kind) ==
  [adjunct |-> isAdjunct, start |-> startLoc, end |-> endLoc, kind |-> kind]

StreamItems == [i \in DOMAIN Layout |->
  LET o == heap[Layout[i]] IN Item(o.adjunct, o.start, o.end, o.kind)]

(* What lexer makes of a text.                                             *)
BatchItems(text) ==
  LET from[i \in Nat] ==
        IF i >= Len(text) THEN << >>
        ELSE LET j == ItemEnd(text, i)
                 kind == ItemKind(text, i)
             IN  (CASE kind = "word" -> <<Item(FALSE, i, j, WORD)>>
                    [] kind = "comment" -> <<Item(TRUE, i, j, COMMENT)>>
                    [] kind \in {"blank", "error"} -> << >>) \o from[j + 1]
  IN  <<Item(FALSE, 0, -1, BAD)>> \o from[0] \o <<Item(FALSE, Len(text), Len(text), EOF)>>

(* Where an item of a text begins, or goes on with a blank, or the text    *)
(* ends.                                                                   *)
IsBoundary(text, i) ==
  LET from[k \in Nat] == IF k >= i THEN k ELSE from[ItemEnd(text, k) + 1]
      item[k \in Nat] == IF ItemEnd(text, k) >= i THEN k ELSE item[ItemEnd(text, k) + 1]
  IN  from[0] = i \/ ItemKind(text, item[0]) = "blank"

(* The first object behind what was scanned, and the text up to it.        *)
Resumes(k) == /\ heap[Layout[k]].start >= curtok
              /\ \A j \in 1 .. k - 1 : heap[Layout[j]].start < curtok

NoWordBefore(k) ==
  \A i \in curtok .. heap[Layout[k]].start - 1 : charAt(i) \notin {Letter, Opener}

(* The scan began where an item of the new text begins, and ended outside  *)
(* the damage with blanks and errors only before the object put back.      *)
(* (An edit at offset 0, possible if it leaves no text, drops token 0.)    *)
Resynchronized ==
  /\ edit.start > 0
  /\ IsBoundary(inputChars, repair_offset)
  /\ \E k \in DOMAIN Layout :
       Resumes(k) /\ NoWordBefore(k) /\ heap[Layout[k]].start > edit.end

(* The old adjuncts that were put back behind what was scanned.            *)
AdjunctsPutBehind == {id \in ToSet(affected) \cap ToSet(adjuncts) : heap[id].start >= curtok}

ListsNewItems(list) ==
  /\ ToSet(list) = newObjects
  /\ \A i \in 1 .. Len(list) - 1 : heap[list[i]].end < heap[list[i + 1]].start
-----------------------------------------------------------------------------
(* While a call has not failed, tokens and adjuncts lie one behind the     *)
(* other in the text, as the adjunct indices of the tokens interleave      *)
(* them, none is lost between two tokens, and a token knows its position:  *)
(* through scans, resets and the moving of old tokens.  getAdjuncts(i) is  *)
(* what lies between token i and the next one, as long as the length of    *)
(* the stream is that of its tuple of tokens.                              *)
StreamInOrder ==
  /\ phase # "failed" =>
       /\ Len(Layout) = Len(tokens) + Len(adjuncts)
       /\ \A i \in 1 .. Len(Layout) - 1 : heap[Layout[i]].end < heap[Layout[i + 1]].start
       /\ \A i \in 0 .. Len(tokens) - 1 : tokenAt(i).tokenIndex = i
  /\ phase = "ready" /\ len = Len(tokens) =>
       \A i \in 0 .. Len(tokens) - 1 :
         LET following == {k \in ToSet(adjuncts) :
                             /\ tokenAt(i).end < heap[k].start
                             /\ i + 1 < Len(tokens) => heap[k].start < tokenAt(i + 1).start}
         IN  /\ ToSet(getAdjuncts(i)) = following
             /\ Len(getAdjuncts(i)) = Cardinality(following)

(* The Range that an incremental scan returns lists exactly the tokens and *)
(* adjuncts that the scan has made, in the order of the text, whatever was *)
(* put back before them and whatever tokens are put back behind them.      *)
RangeListsTheNewItems ==
  (phase \in {"append", "ready"} /\ edit # NoEdit /\ AdjunctsPutBehind = {}) =>
    ListsNewItems(TokensInRange(range[1], range[2]))

(* A scan of the whole text makes of it what its lexical rules say, and so *)
(* does an incremental scan after an edit if it started at a boundary and  *)
(* got in step again.                                                      *)
ResynchronizedScanMatchesBatch ==
  (phase = "ready" /\ (edit = NoEdit \/ (edits = 1 /\ Resynchronized))) =>
    StreamItems = BatchItems(inputChars)

(* The column of offset i, by counting from the last line feed before it.  *)
CountedColumn(i, feeds) ==
  LET lineStart == IF feeds = {} THEN 0 ELSE 1 + Max(feeds)
      visual[k \in lineStart .. i] ==
        IF k = lineStart THEN 0
        ELSE IF charAt(k - 1) = Tab THEN (visual[k - 1] \div tab_ + 1) * tab_
        ELSE visual[k - 1] + 1
  IN  visual[i] + 1

(* Both binary searches find what is there.  getTokenIndexAtCharacter      *)
(* finds the token that an offset is in, or the last token before it, in   *)
(* every stream that a scan or a reset leaves.  (Index 0 has no negation:  *)
(* in the blanks before the first token getTokenAtCharacter returns the    *)
(* dummy token.)  Line and column of every character that no edit has      *)
(* touched, nor any before it, are those that counting gives.              *)
LookupsAreRight ==
  /\ tokens # << >> /\ phase # "failed" =>
       \A offset \in 0 .. streamLength_ :
         LET i == getTokenIndexAtCharacter(offset)
             within == {j \in 0 .. Len(tokens) - 1 : offset \in tokenAt(j).start .. tokenAt(j).end}
             before == {j \in 0 .. Len(tokens) - 1 : tokenAt(j).end < offset}
         IN  IF within # {} THEN i \in within /\ getTokenAtCharacter(offset) = tokens[i + 1]
             ELSE /\ -i \in before /\ \A j \in before : j <= -i
                  /\ getTokenAtCharacter(offset) = IF i = 0 THEN tokens[1] ELSE 0
  /\ \A i \in 0 .. intact - 1 :
       LET feeds == {k \in 0 .. i - 1 : charAt(k) = LineFeed}
       IN  /\ getLineNumberOfCharAt(i) = 1 + Cardinality(feeds)
           /\ getColumnOfCharAt(i) = CountedColumn(i, feeds)

(* Every scan ends: the loop of incrementalLexer gets into step, leaves    *)
(* the damage, or fails.                                                   *)
ScansEnd == (phase \notin {"new", "ready", "failed"}) ~> (phase \in {"ready", "failed"})
=============================================================================
