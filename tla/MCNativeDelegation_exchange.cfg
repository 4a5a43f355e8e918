SPECIFICATION Spec
CONSTANTS
  u1 = u1 u2 = u2 c1 = c1 c2 = c2 g1 = g1 g2 = g2 n1 = n1 n2 = n2 h1 = h1 h2 = h2 p1 = p1
  NoUser = NoUser NoKey = NoKey NoHost = NoHost NoRequest = NoRequest NoGrant = NoGrant
  User = {u1}
  Request = {r1}
  Tab = {t1}
  Key = {k1}
  Perm = {p1}
  Host = {h1}
  Ceilings <- TwoCeilings
  RequestTtls = {4}
  UriTtl = 1
  RequestTtl = 2
  Retention = 9
  MaxTime = 1
  LastPar = 0
  MaxRevisions = 1
  MaxWithdrawals = 1
  Code = {c1, c2}
  Grant = {g1, g2}
  Renewer = {n1}
  ConflictWindow = 0
  RenewInterval = 1
  RenewalCutoff = 2
  AccessTtl = 2
  RefreshTtl = 2
  MaxTokens = 2
INVARIANT DelegationWithinGrant
INVARIANT RevokedTokensGone
INVARIANT OneGrantPerRequest
SYMMETRY ExchangeSymmetry
CHECK_DEADLOCK FALSE
