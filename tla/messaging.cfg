CONSTANTS
  a = a
  b = b
  d = d
  r = r
  s = s
  t = t
  Gossiper = {a, b, d, r, s, t}
  NoHop = NoHop
  InitialPeers <- Islands
  SimpleMode = {r, s, t}
  HopLimit = 2
  Message <- Messages
  MaxIssued <- Rumors
  Doublings <- OneDoubled
SPECIFICATION Spec
INVARIANTS
  TypeOK
  ForwardersKnowTheWay
  ComesBackOnlyWithNews
  SimpleShownOnce
PROPERTIES
  ImplementsDelivery
CHECK_DEADLOCK FALSE
