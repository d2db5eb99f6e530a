SPECIFICATION Spec
CONSTANTS
  Ops = {o1, o2}
  None = None
  Policies = {"allow", "approval", "deny"}
  TtlTicks = 1
  GraceTicks = 2
  RunTicks = 1
SYMMETRY OpsSymmetry
INVARIANTS
  TypeOK
  OneCard
  NoticeTrue
  ToldOnce
PROPERTY
  ImplementsHeldCall
