SPECIFICATION Spec
CONSTANTS
  baseAction <- MCbaseAction
  baseCheck <- MCbaseCheck
  termAction <- MCtermAction
  termCheck <- MCtermCheck
  asr <- MCasr
  NUM_RULES = 16
  START_STATE = 17
  ACCEPT_ACTION = 52
  ERROR_ACTION = 68
  LA_STATE_OFFSET = 85
  EOFT_SYMBOL = 4
  ERROR_SYMBOL = 7
  NT_OFFSET = 100
  NUM_STATES = 17
  NoAction = {8, 9}
  Grammar <- MCGrammar
  StartSymbol <- MCStartSymbol
  Inputs <- MCInputs
  Monitored = TRUE
  LRAutomaton <- MCAutomaton
INVARIANTS
  ForestIsEveryDerivation
  AlternativesOfASpan
  RuleActionsSeeTheirTokens
  GssSpellsTheStack
PROPERTIES
  ParseEnds
