CONSTANTS
  a = a
  b = b
  c = c
  route = route
  hello = hello
  Gossiper = {a, b, c}
  Origin = {a, b, c}
  Text = {hello}
  NoText = hello
  NoHop = NoHop
  InitialPeers <- LinePeers
  ManualPeers = {}
  MaxIssued <- TwoFromA
  MaxInFlight = 2
  MaxOnLink = 2
  MaxMongers = 1
SPECIFICATION Spec
INVARIANTS
  TypeOK
  LogsArePrefixes
  RoutesReachOrigin
  NextHopIsFresh
CHECK_DEADLOCK FALSE
