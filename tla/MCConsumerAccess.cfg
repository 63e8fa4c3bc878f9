SPECIFICATION Spec
CONSTANTS
  Clients = {c1}
  Tokens = {k1, k2}
  Operations = {o1, o2}
  Limits = {1}
  None = None
  MaxLife = 3
  MaxGrace = 1
  MaxNow = 5
  TicksPerMinute = 2
  Replicas = {p1, p2}
  QueueCapacity = 1
  Requests = {q1, q2}
CONSTRAINT OpenUpdates
SYMMETRY Symmetry
CHECK_DEADLOCK FALSE
INVARIANTS
  RevocationTakesEffect
  WithinLimit
  NeverOvercounted
PROPERTIES
  TokensDieForGood
  LastUsedNeverBack
