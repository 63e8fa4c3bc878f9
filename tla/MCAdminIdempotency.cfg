SPECIFICATION FairSpec
CONSTANTS
  Attempts = {a1, a2, a3}
  Keys = {k1, k2}
  Payloads = {p1, p2}
  None = None
  MaxLives = 2
CHECK_DEADLOCK FALSE
INVARIANTS
  AtMostOncePerLife
PROPERTIES
  EveryAttemptAnswered
  ImplementsIdempotency
