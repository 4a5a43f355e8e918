SPECIFICATION Spec
CONSTANTS
  q1 = q1
  p1 = p1
  p2 = p2
  x1 = x1
  x2 = x2
  f1 = f1
  f2 = f2
  a1 = a1
  a2 = a2
  c1 = c1
  d1 = d1
  k1 = k1
  k2 = k2
  s1 = s1
  r1 = r1
  r2 = r2
  w1 = w1
  w2 = w2
  NoCall = NoCall
  Tab = Tab
  Call = {w1, w2}
  NoRequest = NoRequest
  NoAck = NoAck
  NoResult = NoResult
  NoCode = NoCode
  NoDelegation = NoDelegation
  NoClaim = NoClaim
  Request = {q1}
  Page = {p1, p2}
  Decliner = {x1, x2}
  Fetcher = {f1, f2}
  Ack = {a1, a2}
  GrantLifetime = 2
  RequestLife = 2
  ResultRetention = 1
  Code = {c1}
  Delegation = {d1}
  Claim = {k1, k2}
  Poster = {s1}
  Redeemer = {r1, r2}
  CodeTtl = 1
  ClaimRetention = 1
  MaxTime = 3
SYMMETRY Symmetry
INVARIANTS
  AnswersAgree
  RedeemedByOne
  NeverStranded
  OwnAnswer
PROPERTY SignOutHolds
CHECK_DEADLOCK FALSE
