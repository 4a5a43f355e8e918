SPECIFICATION FairRequestSpec
CONSTANTS
  u1 = u1 u2 = u2 t1 = t1 t2 = t2 k1 = k1 k2 = k2 h1 = h1 p1 = p1
  NoUser = NoUser NoKey = NoKey NoHost = NoHost NoRequest = NoRequest
  User = {u1}
  Request = {r1}
  Tab = {t1}
  Key = {k1, k2}
  Perm = {p1}
  Host = {h1}
  Ceilings <- TwoCeilings
  RequestTtls = {2}
  UriTtl = 1
  RequestTtl = 1
  Retention = 1
  MaxTime = 4
  LastPar = 1
  MaxRevisions = 1
  MaxWithdrawals = 1
PROPERTY RowsEventuallySwept
CHECK_DEADLOCK FALSE
