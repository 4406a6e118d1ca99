SPECIFICATION Spec
CONSTANTS
  Buffers <- MCBuffers
INVARIANTS
  ChangesTurnOldIntoNew
CHECK_DEADLOCK FALSE
