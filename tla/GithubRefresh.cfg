SPECIFICATION FairSpec
CONSTANTS
  Mounts = {m1}
  Renewals = {r1, r2}
  None = None
  RotateAttempts = 2
  MaxPairs = 2
  MaxFaults = 1
INVARIANTS
  TypeOK
  BrokenIsDead
  TradesLive
PROPERTIES
  ImplementsConnection
  DeadMountEnds
