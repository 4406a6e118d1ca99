SPECIFICATION Spec
CONSTANTS
  baseAction <- MCbaseAction
  baseCheck <- MCbaseCheck
  termAction <- MCtermAction
  termCheck <- MCtermCheck
  asr <- MCasr
  NUM_RULES = 15
  START_STATE = 16
  ACCEPT_ACTION = 65
  ERROR_ACTION = 69
  LA_STATE_OFFSET = 85
  NT_OFFSET = 100
  EOFT_SYMBOL = 10
  EOLT_SYMBOL = 10
  ERROR_SYMBOL = 12
  MAX_NAME_LENGTH = 12
  Scopes <- MCScopes
  inSymbol <- MCinSymbol
  candidates <- MCcandidates
  nonterminalCandidates <- MCnonterminals
  name <- MCname
  text <- MCtext
  MIN_DISTANCE = 3
  MAX_DISTANCE = 6
  Inputs <- MCInputs
  Markers = {0, 11}
  MaxErrors = {0, 1}
  Timed = TRUE
  Monitored = TRUE
  Gotos <- MCGotos
  STACK_SIZE = 30
INVARIANTS
  ThreeConfigurations
  StackIsViable
  EverySkippedTokenIsReported
PROPERTY EveryErrorIsFartherOn
CHECK_DEADLOCK FALSE
