CONSTANTS
  g1 = g1
  g2 = g2
  g3 = g3
  f = f
  x = x
  n1 = n1
  n2 = n2
  q = q
  File = {f}
  Chunk = {x}
  Chunks <- ChunksOf
  TooBig = {}
  Name = {n1, n2}
  None = None
  Gossiper = {g1, g2, g3}
  InitialPeers <- Line
  InitialShared <- Owner
  InitialDownloading <- OnItsWay
  InitialDownloaded <- NoCopy
  Query = {q}
  Matching <- AllNames
  Searches <- OneSearch
  Downloads <- OneDownload
  NewPeers <- OneMore
  StartBudget = 2
  MaxBudget = 2
  Threshold = 2
  MaxInFlight = 2
SPECIFICATION Spec
INVARIANTS
  FullMatchesAreWhole
CHECK_DEADLOCK FALSE
