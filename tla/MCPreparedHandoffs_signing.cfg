SPECIFICATION Spec
CONSTANTS
  t1 = t1
  t2 = t2
  n1 = n1
  n2 = n2
  x1 = x1
  x2 = x2
  x3 = x3
  b1 = b1
  b2 = b2
  k1 = k1
  k2 = k2
  p1 = p1
  p2 = p2
  s1 = s1
  s2 = s2
  NoTicket = NoTicket
  NoContext = NoContext
  Ticket = {t1, t2}
  Nonce = {n1, n2}
  Context = {x1, x2}
  Bytes = {b1}
  Kind = {"authorization", "revocation"}
  GrantTtl = {2}
  Claimer = {k1, k2}
  Preparer = {p1}
  Signer = {s1, s2}
  HandoffTtl = 2
  ContextTtl = 2
  PreviewTtl = 1
  ClaimLimit = 1
  ClaimWindow = 1
  MaxTime = 2
SYMMETRY Symmetry
INVARIANTS
  OneSignature
  CancelledUnsigned
  ReservationKept
  ClaimsLimited
PROPERTY ReservedOnce
CONSTRAINT Focus
CHECK_DEADLOCK FALSE
