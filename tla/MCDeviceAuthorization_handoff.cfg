SPECIFICATION Spec
CONSTANTS
  t1 = t1
  t2 = t2
  p1 = p1
  p2 = p2
  c1 = c1
  c2 = c2
  s1 = s1
  s2 = s2
  NoPage = NoPage
  Transaction = {t1, t2}
  Starter = {s1, s2}
  Page = {p1, p2}
  Call = {c1, c2}
  Ttl = {2}
  TransactionTtl = 3
  Retention = 2
  StartLimit = 1
  StartWindow = 1
  PollInterval = 1
  MaxTime = 5
SYMMETRY Symmetry
INVARIANTS
  ResultRetained
  WipedAtStart
  SpentWasSaved
  DelegationInWindow
PROPERTY
  DecidedOnce
CONSTRAINT
  Focus
CHECK_DEADLOCK FALSE
