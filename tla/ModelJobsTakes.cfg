SPECIFICATION Spec
CONSTANTS
  Jobs = {j1}
  Takers = {t1, t2}
  None = None
  HoldTicks = 2
  CallTicks = 1
  RedeliveryTicks = 1
  StagedTicks = 0
  CommitTicks = 0
  MaxRetries = 1
  SweepLimit = 1
SYMMETRY TakerSymmetry
INVARIANTS
  TypeOK
  AtMostOneCall
  OneTakerInHold
  MeteredOnce
  PollHasRow
  SentIsRecorded
PROPERTY ImplementsModelCall
