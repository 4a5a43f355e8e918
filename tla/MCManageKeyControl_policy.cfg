SPECIFICATION Spec
CONSTANTS
  c1 = c1
  k1 = k1
  k2 = k2
  b1 = b1
  b2 = b2
  w1 = w1
  s1 = s1
  NoClient = NoClient
  NoKey = NoKey
  Client = {c1}
  Key = {k1, k2}
  Browser = {b1, b2}
  Switcher = {w1}
  Call = {s1}
  MaxEpoch = 2
SYMMETRY Symmetry
INVARIANTS
  LogExplainsPolicy
PROPERTIES
  SignedUnderPolicy
  SuccessIsCurrent
CHECK_DEADLOCK FALSE
