CONSTANTS
  PanelSize = 1
  MaxBallots = 2
  MaxScreenAttempts = 2
  CourtModes = {"judge", "11-juror"}
  OperatorOps = {"void", "close", "select_jury"}
  MaxRestarts = 1
  HardKill = TRUE
SPECIFICATION Spec
INVARIANTS PhasesComplete SessionHasDefence
CHECK_DEADLOCK FALSE
