SPECIFICATION Spec
CONSTANTS
  Rows = {r1}
  Targets = {t1}
  Replicas = {p1}
  Campaigns = {c1}
  None = None
  BatchSize = 1
  MaxIdle = 0
  MaxWrites = 0
SYMMETRY Symmetry
CHECK_DEADLOCK FALSE
INVARIANT
  TargetsReadable
