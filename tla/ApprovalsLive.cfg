SPECIFICATION FairSpec
CONSTANTS
  Ops = {o1, o2}
  None = None
  Policies = {"approval"}
  TtlTicks = 1
  GraceTicks = 2
  RunTicks = 1
PROPERTY
  PendingEnds
