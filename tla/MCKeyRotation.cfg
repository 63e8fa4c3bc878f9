SPECIFICATION FairSpec
CONSTANTS
  Rows = {r1, r2}
  Targets = {}
  Replicas = {p1, p2}
  Campaigns = {c1, c2}
  None = None
  BatchSize = 1
  MaxIdle = 1
  MaxWrites = 1
CHECK_DEADLOCK FALSE
INVARIANTS
  SecretsPreserved
  SecretsReadable
  HealthyMeansMigrated
PROPERTY CampaignEnds
