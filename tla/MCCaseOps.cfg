CONSTANTS
  PanelSize = 1
  MaxBallots = 2
  MaxScreenAttempts = 2
  CourtModes = {"judge", "11-juror"}
  OperatorOps = {"void", "close"}
  MaxRestarts = 1
  HardKill = TRUE
SPECIFICATION Spec
INVARIANTS VoidNeverSealed
PROPERTIES VerdictFinal
CHECK_DEADLOCK FALSE
