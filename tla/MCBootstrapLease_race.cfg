SPECIFICATION Spec
CONSTANTS
  a1 = a1
  a2 = a2
  s1 = s1
  s2 = s2
  Approver = {a1, a2}
  Sweeper = {s1, s2}
  LockTtl = 2
  Deadline = 4
  Lifetime = 5
  SweepDelays <- OneDelay
  SweepLag = 100
  BatchLag = 100
  DbLag = 2
  MaxTime = 8
  LastStart = 3
  MaxClaims = 3
  MaxFaults = 3
INVARIANTS
  SteadyRunHolds
  CompleteIsNewest
  SweepBudget
PROPERTIES
  FailureIsOwnOrExpired
  CompleteStays
SYMMETRY Symmetry
CHECK_DEADLOCK FALSE
