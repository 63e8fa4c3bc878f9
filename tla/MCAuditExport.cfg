SPECIFICATION FairSpec
CONSTANTS
  Jobs = {j1, j2}
  Filters = {f1, f2}
  Makers = {m1, m2, m3}
  Readers = {r1, r2}
  None = None
CHECK_DEADLOCK FALSE
INVARIANTS
  DownloadedAtMostOnce
  DownloadIsRecorded
  PayloadMatchesRequest
PROPERTY
  SettledStays
  EveryJobSettles
