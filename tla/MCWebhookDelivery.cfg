CONSTANTS
  Events = {e1, e2}
  Targets = {t1}
  Workers = {w1, w2}
  Tokens = {k1, k2, k3, k4, k5}
  NoToken = NoToken
  MaxAttempts = 2
  FailureThreshold = 2
  BatchLimit = 2
  MaxDisruptions = 1
  MaxReplays = 1
SPECIFICATION Spec
SYMMETRY Symmetry
INVARIANTS
  DeadLettersComplete
  EventsOutliveDeliveries
PROPERTIES
  OutcomeIsFenced
  ImplementsContract
