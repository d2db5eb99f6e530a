SPECIFICATION FairSpec
CONSTANTS
  Jobs = {j1}
  Takers = {t1, t2}
  None = None
  HoldTicks = 1
  CallTicks = 0
  RedeliveryTicks = 1
  StagedTicks = 0
  CommitTicks = 0
  MaxRetries = 0
  SweepLimit = 1
CONSTRAINT Unanswered
PROPERTY JobEnds
