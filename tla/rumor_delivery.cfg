CONSTANTS
  a = a
  b = b
  c = c
  route = route
  hello = hello
  Gossiper = {a, b}
  Origin = {a, b}
  Text = {hello}
  NoText = hello
  NoHop = NoHop
  InitialPeers <- PairPeers
  ManualPeers = {}
  MaxIssued <- TwoOfPair
  MaxInFlight = 8
  MaxOnLink = 1
  MaxMongers = 1
SPECIFICATION FairSpec
PROPERTIES
  EveryRumorArrives
  ImplementsBroadcast
  ImplementsRouting
CHECK_DEADLOCK FALSE
