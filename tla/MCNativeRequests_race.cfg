SPECIFICATION RequestSpec
CONSTANTS
  u1 = u1 u2 = u2 t1 = t1 t2 = t2 k1 = k1 k2 = k2 h1 = h1 p1 = p1
  NoUser = NoUser NoKey = NoKey NoHost = NoHost NoRequest = NoRequest
  User = {u1, u2}
  Request = {r1}
  Tab = {t1, t2}
  Key = {k1}
  Perm = {p1}
  Host = {h1}
  Ceilings <- OneCeiling
  RequestTtls = {2}
  UriTtl = 1
  RequestTtl = 2
  Retention = 9
  MaxTime = 2
  LastPar = 0
  MaxRevisions = 2
  MaxWithdrawals = 1
SYMMETRY UserTabSymmetry
INVARIANT ApprovalIsCurrent
INVARIANT ApprovalIsNewestRevision
PROPERTY SignedOnce
CHECK_DEADLOCK FALSE
