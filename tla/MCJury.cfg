CONSTANTS
  Jurors = {1, 2, 3}
  Pool = {1, 2}
  Allowed = {1, 3}
  PanelSize = 2
  PerSeat = 1
  MaxRestarts = 2
  HardKill = TRUE
SPECIFICATION FairSpec
INVARIANTS SeatsFilled
PROPERTIES ImplementsPanelCount PanelSettles
CHECK_DEADLOCK FALSE
