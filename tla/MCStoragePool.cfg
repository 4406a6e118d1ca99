SPECIFICATION Spec
CONSTANTS
  Blksize = 3
  base_increment = 2
  NoSegment = NoSegment
  Sizes = {1, 2, 3, 4, 5}
  MaxObjects = 6
  MaxResets = 2
INVARIANTS
  ObjectsAreApart
  EverySegmentOnce
  ZeroUntilReset
CHECK_DEADLOCK FALSE
