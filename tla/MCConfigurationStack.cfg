SPECIFICATION Spec
CONSTANTS
  baseAction <- MCbaseAction
  START_STATE = 7
  TABLE_SIZE = 2
  Stacks <- MCStacks
  Curtoks = {1, 3}
  ConflictIndices = {1}
  ActionLengths = {0}
  MaxConfigurations = 2
INVARIANTS
  TreeFaithful
  NoConfigurationTwice
  RetrievedStackIsPushedStack
PROPERTIES
  Promise
  CallsReturn

