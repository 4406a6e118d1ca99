SPECIFICATION ParseSpec
CONSTANTS
  baseAction <- MCbaseAction
  baseCheck <- MCbaseCheck
  termAction <- MCtermAction
  termCheck <- MCtermCheck
  asr <- MCasr
  NUM_RULES = 21
  START_STATE = 22
  ACCEPT_ACTION = 71
  ERROR_ACTION = 78
  LA_STATE_OFFSET = 100
  EOFT_SYMBOL = 8
  ERROR_SYMBOL = 9
  NT_OFFSET = 100
  Prostheses = {}
  Inputs <- MCBracketed
  Markers = {0}
  Monitored = FALSE
  MaxErrorCounts <- MCUnlimited
INVARIANTS
  RepairCompletes
CHECK_DEADLOCK FALSE
