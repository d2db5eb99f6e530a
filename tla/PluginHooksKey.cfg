SPECIFICATION Spec
CONSTANTS
  Mounts = {m1}
  Answers = {a1}
  Bodies <- MCBodies
  None = None
  MaxRuns = 2
  MaxAsks = 1
  MaxCuts = 0
INVARIANT
  KeyIsItsOwn
