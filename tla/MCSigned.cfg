CONSTANTS
  Requests = {r1, r2, r3}
  Payloads = {p1, p2}
  Seconds = {1, 2}
  Keys = {k1}
  NoKey = NoKey
  RateLimit = 2
  ItemLimit = 2
  MaxRestarts = 1
  MaxExpiries = 1
SPECIFICATION FairSpec
INVARIANTS AnsweredOncePerKey AnsweredOncePerSignature ReplayFaithful OvershootByConcurrency
PROPERTIES ClaimsSettle
CHECK_DEADLOCK FALSE
