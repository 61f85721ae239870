CONSTANTS
  a = a
  b = b
  c = c
  route = route
  hello = hello
  Gossiper = {a, b}
  Origin = {a, b}
  Text = {hello}
  NoText = hello
  NoHop = NoHop
  InitialPeers <- PairPeers
  ManualPeers = {}
  MaxIssued <- OneOfPair
  MaxInFlight = 2
  MaxOnLink = 2
  MaxMongers = 2
SPECIFICATION Spec
INVARIANTS
  NeverWedged
CHECK_DEADLOCK FALSE
