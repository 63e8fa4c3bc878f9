SPECIFICATION Spec
CONSTANTS
  Clients = {c1}
  Tokens = {k1}
  Operations = {o1}
  Limits = {1}
  None = None
  MaxLife = 3
  MaxGrace = 0
  MaxNow = 3
  TicksPerMinute = 2
  Replicas = {p1}
  QueueCapacity = 1
  Requests = {q1}
CHECK_DEADLOCK FALSE
PROPERTY TokensNeverReturn
