----------------------------- MODULE PrsStream ------------------------------
(***************************************************************************)
(* The token stream as the lexer builds it: tokens, and between them the   *)
(* adjuncts (comments).  Both are objects that the stream only points to,  *)
(* so an object that was taken out can be put back, changed.  A pointer is *)
(* a position in heap, in the order of creation.  Entry i of the tuples    *)
(* tokens and adjuncts of the code is entry i + 1 here.                    *)
(***************************************************************************)
EXTENDS Integers, Sequences, FiniteSets, SequencesExt

CONSTANTS Kinds, BAD, EOF

ASSUME KindsAssumption == BAD \in Kinds /\ EOF \in Kinds

VARIABLES heap, tokens, adjuncts, rangeTokens, len

streamVars == <<heap, tokens, adjuncts, rangeTokens, len>>

Objects == 1 .. Len(heap)
tokenAt(i) == heap[tokens[i + 1]]
adjunctAt(i) == heap[adjuncts[i + 1]]

Object(isAdjunct, startLoc, endLoc, kind, tokenIndex, adjunctIndex) ==
  [adjunct |-> isAdjunct, start |-> startLoc, end |-> endLoc, kind |-> kind,
   tokenIndex |-> tokenIndex, adjunctIndex |-> adjunctIndex]

EmptyStream == /\ heap = << >> /\ tokens = << >> /\ adjuncts = << >>
               /\ rangeTokens = << >> /\ len = 0

(* resetTokenStream, and then the first token; len stays what it was.      *)
resetAndMakeToken(startLoc, endLoc, kind) ==
  /\ heap' = <<Object(FALSE, startLoc, endLoc, kind, 0, 0)>>
  /\ tokens' = <<1>> /\ rangeTokens' = <<1>> /\ adjuncts' = << >>
  /\ UNCHANGED len

makeToken(startLoc, endLoc, kind) ==
  LET id == Len(heap) + 1
  IN  /\ heap' = Append(heap, Object(FALSE, startLoc, endLoc, kind, Len(tokens), Len(adjuncts)))
      /\ tokens' = Append(tokens, id)
      /\ rangeTokens' = Append(rangeTokens, id)
      /\ UNCHANGED adjuncts

makeAdjunct(startLoc, endLoc, kind) ==
  LET id == Len(heap) + 1
  IN  /\ heap' = Append(heap, Object(TRUE, startLoc, endLoc, kind, Len(tokens) - 1, Len(adjuncts)))
      /\ adjuncts' = Append(adjuncts, id)
      /\ rangeTokens' = Append(rangeTokens, id)
      /\ UNCHANGED tokens

(* Mutants: the end is not moved; an old token keeps its adjunct index.    *)
makeOldTokenEndStays(id, offset_adjustment) ==
  /\ heap' = [heap EXCEPT ![id] =
                Object(FALSE, @.start + offset_adjustment, @.end, @.kind,
                       Len(tokens), Len(adjuncts))]
  /\ tokens' = Append(tokens, id)
  /\ rangeTokens' = Append(rangeTokens, id)
  /\ UNCHANGED adjuncts

(* Putting an old token back, moved by offset_adjustment.                  *)
makeOldToken(id, offset_adjustment) ==
  /\ heap' = [heap EXCEPT ![id] =
                Object(FALSE, @.start + offset_adjustment, @.end + offset_adjustment,
                       @.kind, Len(tokens), Len(adjuncts))]
  /\ tokens' = Append(tokens, id)
  /\ rangeTokens' = Append(rangeTokens, id)
  /\ UNCHANGED adjuncts

(* Putting an old adjunct back: the adjunct index is set twice, the second *)
(* time to the index of the token, and the token index is left.            *)
makeOldAdjunct(id, offset_adjustment) ==
  /\ heap' = [heap EXCEPT ![id] =
                Object(TRUE, @.start + offset_adjustment, @.end + offset_adjustment,
                       @.kind, @.tokenIndex, Len(tokens) - 1)]
  /\ adjuncts' = Append(adjuncts, id)
  /\ rangeTokens' = Append(rangeTokens, id)
  /\ UNCHANGED tokens

setStreamLength == len' = Len(tokens')

(* Mutant: minus the index of the token behind.                            *)
getTokenIndexBehind(offset) ==
  LET search[low, high \in 0 .. Len(tokens)] ==
        LET mid == (high + low) \div 2
        IN  IF high <= low THEN -low
            ELSE IF offset \in tokenAt(mid).start .. tokenAt(mid).end THEN mid
            ELSE IF offset < tokenAt(mid).start THEN search[low, mid]
            ELSE search[mid + 1, high]
  IN  search[0, Len(tokens)]

(* The token that contains offset, or minus the index of the one before.   *)
getTokenIndexAtCharacter(offset) ==
  LET search[low, high \in 0 .. Len(tokens)] ==
        LET mid == (high + low) \div 2
        IN  IF high <= low THEN -(low - 1)
            ELSE IF offset \in tokenAt(mid).start .. tokenAt(mid).end THEN mid
            ELSE IF offset < tokenAt(mid).start THEN search[low, mid]
            ELSE search[mid + 1, high]
  IN  search[0, Len(tokens)]

getTokenAtCharacter(offset) ==
  LET i == getTokenIndexAtCharacter(offset)
  IN  IF i < 0 THEN 0 ELSE tokens[i + 1]
-----------------------------------------------------------------------------
(* incrementalResetAtCharacterOffset.                                      *)

TokenBefore(offset) ==
  LET i == getTokenIndexAtCharacter(offset) IN IF i < 0 THEN -i ELSE i

(* The last adjunct of that token that starts before offset, if offset is  *)
(* away from the token; otherwise -1.                                      *)
AdjunctBefore(offset) ==
  LET i == TokenBefore(offset)
      first == tokenAt(i).adjunctIndex
      before == {k \in first .. Len(adjuncts) - 1 :
                   \A j \in first .. k : /\ adjunctAt(j).tokenIndex = i
                                         /\ adjunctAt(j).start < offset}
  IN  IF tokenAt(i).end + 1 < offset /\ before # {}
      THEN CHOOSE k \in before : \A j \in before : j <= k
      ELSE -1

FirstAffected(offset) ==
  TokenBefore(offset) + (IF AdjunctBefore(offset) >= 0 THEN 1 ELSE 0)

AdjunctsLeft(offset) ==
  IF AdjunctBefore(offset) >= 0 THEN AdjunctBefore(offset)
  ELSE tokenAt(TokenBefore(offset)).adjunctIndex

(* The adjuncts have been cut off by the time those behind the affected    *)
(* tokens are read: there may be none.                                     *)
ResetThrows(offset) ==
  \E i \in FirstAffected(offset) .. Len(tokens) - 2 :
    \E k \in tokenAt(i).adjunctIndex .. tokenAt(i + 1).adjunctIndex - 1 :
      k >= AdjunctsLeft(offset)

AffectedTokens(offset) ==
  LET first == FirstAffected(offset)
      k == AdjunctBefore(offset)
  IN  (IF k >= 0 THEN SubSeq(adjuncts, k + 1, tokenAt(first).adjunctIndex) ELSE << >>)
        \o SubSeq(tokens, first + 1, Len(tokens))
-----------------------------------------------------------------------------
(* Reading the stream.                                                     *)

getNext(i) == IF i + 1 < len THEN i + 1 ELSE len - 1

getAdjuncts(i) ==
  LET end_index == IF i + 1 = Len(tokens) THEN Len(adjuncts)
                   ELSE tokenAt(getNext(i)).adjunctIndex
  IN  SubSeq(adjuncts, tokenAt(i).adjunctIndex + 1, end_index)

(* The adjuncts from index first on that say they belong to token i.       *)
AdjunctRun(first, i) ==
  LET run[k \in Nat] == IF k < Len(adjuncts) /\ adjunctAt(k).tokenIndex = i
                        THEN <<adjuncts[k + 1]>> \o run[k + 1]
                        ELSE << >>
  IN  run[first]

(* addTokensInRangeToList: everything from one object of the stream to     *)
(* another, or to the end of the stream; 0 is the null pointer.            *)
TokensInRange(start_token, end_token) ==
  LET from[i \in Nat] == IF i >= Len(tokens) THEN << >>
                         ELSE <<tokens[i + 1]>> \o AdjunctRun(tokenAt(i).adjunctIndex, i)
                                \o from[i + 1]
      s == heap[start_token]
      all == IF s.adjunct THEN AdjunctRun(s.adjunctIndex, s.tokenIndex) \o from[s.tokenIndex + 1]
             ELSE from[s.tokenIndex]
  IN  IF 0 \in {start_token, end_token} THEN << >>
      ELSE IF Contains(all, end_token) THEN SubSeq(all, 1, SelectInSeq(all, LAMBDA t : t = end_token))
      ELSE all
=============================================================================
