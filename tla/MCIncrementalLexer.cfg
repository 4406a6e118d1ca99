SPECIFICATION Spec
CONSTANTS
  Letter = letter
  Opener = opener
  Blank = blank
  LineFeed = feed
  Tab = tab
  Other = other
  tab_ = 3
  Kinds = {"bad", "eof", "word", "comment"}
  BAD = "bad"
  EOF = "eof"
  WORD = "word"
  COMMENT = "comment"
  Texts <- MCTexts
  Replacements <- MCReplacements
  MaxEdits = 2
INVARIANTS
  StreamInOrder
  RangeListsTheNewItems
  ResynchronizedScanMatchesBatch
  LookupsAreRight
PROPERTIES
  ScansEnd
CHECK_DEADLOCK FALSE
