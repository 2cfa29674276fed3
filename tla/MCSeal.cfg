CONSTANTS
  HttpAttempts = 2
  MaxAttempts = 2
  Callbacks = FALSE
  HardKill = TRUE
  MaxRestarts = 1
  MaxOperatorRuns = 2
SPECIFICATION Spec
INVARIANTS OneDispatcher SealedByMintedJob MintsWithinClaims
PROPERTIES ImplementsCaseSeal
CHECK_DEADLOCK FALSE
