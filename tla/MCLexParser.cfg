SPECIFICATION Spec
CONSTANTS
  baseAction <- MCbaseAction
  baseCheck <- MCbaseCheck
  termAction <- MCtermAction
  termCheck <- MCtermCheck
  asr <- MCasr
  NUM_RULES = 16
  START_STATE = 17
  ACCEPT_ACTION = 39
  ERROR_ACTION = 40
  LA_STATE_OFFSET = 57
  NT_OFFSET = 100
  EOFT_SYMBOL = 6
  ERROR_SYMBOL = 7
  START_SYMBOL = 1
  Texts <- MCTexts
  Words <- MCWords
  Calls <- MCCalls
  Monitored = TRUE
  LRAutomaton <- MCAutomaton
INVARIANTS
  SimulationIsTheStack
  RuleActionsSeeTheirCharacters
  TextIsItems
  ItemsAreTheLongest
PROPERTIES
  ScansEnd
CHECK_DEADLOCK FALSE
