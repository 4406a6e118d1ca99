SPECIFICATION Spec
CONSTANTS
  baseAction <- MCbaseAction
  baseCheck <- MCbaseCheck
  termAction <- MCtermAction
  termCheck <- MCtermCheck
  asr <- MCasr
  LRAutomaton <- MCAutomaton
  NUM_RULES = 13
  START_STATE = 14
  ACCEPT_ACTION = 44
  ERROR_ACTION = 45
  LA_STATE_OFFSET = 59
  NT_OFFSET = 100
  EOFT_SYMBOL = 7
  ERROR_SYMBOL = 8
  Inputs <- MCInputs
  Markers = {0, 9}
  MAX_LA = 2
  Corrections = {1, 2, 4, 6}
  MaxEdits = 1
  Monitored = TRUE
INVARIANTS
  RuleActionsSeeTheirTokens
  TwoStacksAreOne
  ErrorLeavesConfiguration
  BothWaysAgree
CHECK_DEADLOCK FALSE
