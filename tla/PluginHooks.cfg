SPECIFICATION FairSpec
CONSTANTS
  Mounts = {m1}
  Answers = {a1}
  Bodies <- MCBodies
  None = None
  MaxRuns = 2
  MaxAsks = 1
  MaxCuts = 2
INVARIANTS
  TypeOK
  AnsweredOnce
  PostedOnce
  WakeKept
PROPERTY
  CallsMade
