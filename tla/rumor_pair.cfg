CONSTANTS
  a = a
  b = b
  c = c
  route = route
  hello = hello
  Gossiper = {a, b}
  Origin = {a, b}
  Text = {route, hello}
  NoText = route
  NoHop = NoHop
  InitialPeers <- NoPeers
  ManualPeers <- AToldOfB
  MaxIssued <- TwoOfPair
  MaxInFlight = 2
  MaxOnLink = 1
  MaxMongers = 2
SPECIFICATION Spec
INVARIANTS
  ChannelsOwned
  StatusesAreTrue
  StoragesConsistent
CHECK_DEADLOCK FALSE
