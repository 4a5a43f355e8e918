SPECIFICATION FairSpec
CONSTANTS
  a1 = a1
  a2 = a2
  s1 = s1
  s2 = s2
  Approver = {a1}
  Sweeper = {s1}
  LockTtl = 1
  Deadline = 2
  Lifetime = 3
  SweepDelays <- TwoDelays
  SweepLag = 1
  BatchLag = 1
  DbLag = 1
  MaxTime = 75
  LastStart = 3
  MaxClaims = 2
  MaxFaults = 2
PROPERTIES
  LeaseEnds
  FailureIsRetried
CHECK_DEADLOCK FALSE
