CONSTANTS
  PanelSize = 1
  MaxBallots = 2
  MaxScreenAttempts = 2
  CourtModes = {"judge", "11-juror"}
  OperatorOps = {"void"}
  MaxRestarts = 0
  HardKill = FALSE
SPECIFICATION Spec
PROPERTIES VoidIsFinal
CHECK_DEADLOCK FALSE
