CONSTANTS
  Cases = {c1, c2}
  Requests = {r1, r2}
  Payments = {t1, t2}
  Agents = {a1, a2, a3}
  Prosecutors = {a1, a2}
  Nobody = Nobody
  JurorPanelSize = 1
  JudgePanelSize = 2
  FilingLimit = 1
  WeeklyLimit = 1
  DayCap = 2
  MaxSwitches = 1
SPECIFICATION Spec
INVARIANTS FiledOnce PartyOnPanelOnlyByRace PanelFitsMode OvershootByConcurrency DefendedIsScheduled
SYMMETRY Symmetry
CHECK_DEADLOCK FALSE
