CONSTANTS
  Ids = {i1, i2}
  Proposals = {p1, p2}
  Acceptances = {a1, a2}
  Terms = {m1, m2}
  Payments = {t1}
  None = None
  MintAttempts = 2
  Drafts = {d1}
  Signers = {s1, s2}
  Signings = {g1, g2}
  MaxListed = 2
  Requests = {q1, q2}
  Nonces = {n1, n2}
  Stamps = {0, 1}
  Keys = {k1}
  Nothing = Nothing
  Window = 1
  Tick = 3
  MaxTime = 7
  MaxRestarts = 1
SPECIFICATION Spec
INVARIANTS PaymentFundsOneAgreement SealedIsComplete OneAcceptanceMints SealedByQuorum AllSignedIsReady PassesOnce KeyWritesOnce
PROPERTIES EndedStands DecisionStands
SYMMETRY Symmetry
CONSTRAINTS OneSideBusy RequestsMeet
CHECK_DEADLOCK FALSE
