SPECIFICATION Spec
CONSTANTS
  baseAction <- ExprBaseAction
  baseCheck <- ExprBaseCheck
  termAction <- ExprTermAction
  termCheck <- ExprTermCheck
  asr <- ExprCandidates
  NUM_RULES = 6
  START_STATE = 7
  ACCEPT_ACTION = 25
  ERROR_ACTION = 26
  LA_STATE_OFFSET = 32
  NT_OFFSET = 7
  EOFT_SYMBOL = 6
  EOLT_SYMBOL = 6
  ERROR_SYMBOL = 7
  MAX_NAME_LENGTH = 14
  Scopes <- ExprScopes
  inSymbol <- ExprInSymbol
  candidates <- ExprCandidates
  nonterminalCandidates <- ExprNonterminals
  name <- ExprName
  text <- ExprText
  MIN_DISTANCE = 3
  MAX_DISTANCE = 30
  Inputs <- StaleScope
  Markers = {0}
  MaxErrors = {0}
  Timed = FALSE
  Monitored = FALSE
  Gotos <- ExprGotos
  STACK_SIZE = 20
INVARIANT RecoversOnAConfiguration
CHECK_DEADLOCK FALSE
