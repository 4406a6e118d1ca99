SPECIFICATION RecoverySpec
CONSTANTS
  baseAction <- MCbaseAction
  baseCheck <- MCbaseCheck
  termAction <- MCtermAction
  termCheck <- MCtermCheck
  asr <- MCasr
  NUM_RULES = 15
  START_STATE = 16
  ACCEPT_ACTION = 65
  ERROR_ACTION = 69
  LA_STATE_OFFSET = 85
  EOFT_SYMBOL = 10
  ERROR_SYMBOL = 12
  NT_OFFSET = 100
  Grammar <- MCGrammar
  Scopes <- MCScopesWithoutCast
  inSymbol <- MCinSymbol
  MIN_DISTANCE = 3
  MAX_DISTANCE = 5
  Inputs <- MCInputs
  Markers = {0, 11}
  Prostheses <- MCProstheses
  Monitored = TRUE
INVARIANTS RepairedLogBuildsStack TreeIsADerivation RestartsAsFarAsTried
PROPERTIES RecoveryEnds
CHECK_DEADLOCK FALSE
