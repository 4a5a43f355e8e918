SPECIFICATION Spec
CONSTANTS
  s1 = s1
  t1 = t1
  t2 = t2
  c1 = c1
  r1 = r1
  r2 = r2
  w1 = w1
  mcp = mcp
  NoSession = NoSession
  NoToken = NoToken
  Session = {s1}
  Token = {t1, t2}
  Code = {c1}
  Scope = {mcp}
  Mcp = mcp
  Refresher = {r1, r2}
  WebUse = {w1}
  ExpiresIn = 2
  UpdateAge = 1
  Cap = 3
  AccessTtl = 2
  RefreshTtl = 2
  MaxTime = 2
SYMMETRY Symmetry
INVARIANTS
  SessionWithinCap
  NoneComesBack
  SteadyRefreshSucceeds
CONSTRAINT
  Focus
CHECK_DEADLOCK FALSE
