CONSTANTS
  PanelSize = 2
  MaxBallots = 3
  MaxScreenAttempts = 2
  CourtModes = {"judge", "11-juror"}
  OperatorOps = {}
  MaxRestarts = 1
  HardKill = TRUE
SPECIFICATION FairSpec
INVARIANTS TablesAgree
PROPERTIES ImplementsLifecycle ImplementsPanelCount FiledCaseEnds ClosedGetsSealJob
CHECK_DEADLOCK FALSE
