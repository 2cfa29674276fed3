CONSTANTS
  c1 = c1
  c2 = c2
  k1 = k1
  k2 = k2
  k3 = k3
  ann = ann
  bob = bob
  joy = joy
  kim = kim
  Docket <- TwoCases
  PanelSize = 2
  MaxRestarts = 1
SPECIFICATION Spec
INVARIANTS VerdictIsMajority RecordsFollowCases
PROPERTIES RestartSettlesJuries ImplementsCaseVerdict
SYMMETRY Symmetry
CHECK_DEADLOCK FALSE
