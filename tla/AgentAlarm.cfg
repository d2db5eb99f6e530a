CONSTANTS
  None = None
  WatchTicks = 0
  InboundTicks = 1
  HoldTicks = 2
  FlushTicks = 1
  WakeTicks = 1
  DrainTicks = 1
  RetryTicks <- MCRetryTicks
  RetryLimit = 1
  MaxFailures = 1
  Waits = {1}

SPECIFICATION FairSpec

INVARIANTS
  TypeOK
  NothingStranded
  SafetyNet
  RowsHaveAlarm
PROPERTY InputIsRead
