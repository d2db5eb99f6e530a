SPECIFICATION FairSpec
CONSTANTS
  Jobs = {j1, j2}
  SessionJobs = {j1}
  Cap = 1
  None = None
  MaxEvicts = 1
INVARIANTS
  TypeOK
  ToldOnce
  Tracked
  BelowCap
PROPERTY
  JobEnds
CHECK_DEADLOCK FALSE
