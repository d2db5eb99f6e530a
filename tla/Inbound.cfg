SPECIFICATION FairSpec
CONSTANTS
  Keys = {k1, k2}
  None = None
  PostAttempts = 2
  RetryTicks <- MCRetryTicks
  MaxAge = 2
  DedupeTicks = 3
  QueueMax = 2
  PerMinute = 2
  MinuteTicks = 1
  HoldTicks = 3
  RemovingTicks = 1
  NetTicks = 1
INVARIANTS
  TypeOK
  SaidOnce
  HasAlarm
PROPERTIES
  ReadInOrder
  ImplementsPush
  PushSettles
