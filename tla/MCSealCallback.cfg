CONSTANTS
  HttpAttempts = 2
  MaxAttempts = 2
  Callbacks = TRUE
  HardKill = FALSE
  MaxRestarts = 0
  MaxOperatorRuns = 1
SPECIFICATION FairSpec
PROPERTIES JobSettles
CHECK_DEADLOCK FALSE
