----------------------------- MODULE LexStream ------------------------------
(***************************************************************************)
(* The character stream: the text, and the table of line offsets from      *)
(* which the line and the column of a character are looked up.  Entry 0 of *)
(* the table is -1, entry l the offset of the line feed that ends line l.  *)
(* Offset i of the code is inputChars[i + 1].                              *)
(***************************************************************************)
EXTENDS Integers, Sequences

CONSTANTS LineFeed, Tab,  \* the characters that the stream itself knows
          tab_            \* the width of a tab

ASSUME TabAssumption == tab_ \in Nat \ {0}

VARIABLES inputChars, lineOffsets

streamLength_ == Len(inputChars)
charAt(i) == inputChars[i + 1]
LineCount == Len(lineOffsets)

(* The index of element in an ascending tuple, or minus the number of      *)
(* smaller elements.                                                       *)
binarySearch(tuple, element) ==
  LET search[low, high \in 0 .. Len(tuple)] ==
        LET mid == (high + low) \div 2
        IN  IF high <= low THEN -low
            ELSE IF element = tuple[mid + 1] THEN mid
            ELSE IF element < tuple[mid + 1] THEN search[low, mid]
            ELSE search[mid + 1, high]
  IN  search[0, Len(tuple)]

getLineNumberOfCharAt(i) ==
  LET found == binarySearch(lineOffsets, i)
  IN  IF found < 0 THEN -found ELSE IF found = 0 THEN 1 ELSE found

(* Every tab before i moves the start of the line back by what it is wide. *)
getColumnOfCharAt(i) ==
  LET lineStart == lineOffsets[getLineNumberOfCharAt(i)]
      start[k \in lineStart + 1 .. i] ==
        IF k = lineStart + 1 THEN lineStart
        ELSE IF charAt(k - 1) = Tab
             THEN start[k - 1] - ((tab_ - 1) - ((k - start[k - 1] - 2) % tab_))
             ELSE start[k - 1]
  IN  IF lineStart + 1 >= streamLength_ THEN 1
      ELSE IF i <= lineStart THEN i - lineStart
      ELSE i - start[i]

(* The offsets of the line feeds from offset first on.                     *)
LineFeedsFrom(text, first) ==
  LET feeds[i \in Nat] == IF i >= Len(text) THEN << >>
                          ELSE IF text[i + 1] = LineFeed THEN <<i>> \o feeds[i + 1]
                          ELSE feeds[i + 1]
  IN  feeds[first]

computeLineOffsets(text) == <<-1>> \o LineFeedsFrom(text, 0)

(* The incremental computation, from offset on: it reads the entry of the  *)
(* line of offset, which the last line does not have, ...                  *)
LineEntryExists(offset) == getLineNumberOfCharAt(offset) < LineCount

(* ... and keeps the table up to that entry.                               *)
LineOffsetsFrom(text, offset) ==
  LET line == getLineNumberOfCharAt(offset)
      line_offset == lineOffsets[line + 1]
  IN  SubSeq(lineOffsets, 1, line + 1) \o LineFeedsFrom(text, line_offset + 1)
=============================================================================
