CONSTANTS
  g1 = g1
  g2 = g2
  g3 = g3
  f = f
  x = x
  n1 = n1
  n2 = n2
  q = q
  File = {f}
  Chunk = {x}
  Chunks <- ChunksOf
  TooBig = {}
  Name = {n1, n2}
  None = None
  Gossiper = {g1, g2, g3}
  InitialPeers <- Line
  InitialShared <- Owner
  InitialDownloading <- NoDownload
  InitialDownloaded <- SecondCopy
  Query = {q}
  Matching <- AllNames
  Searches <- OneSearch
  Downloads <- OneDownload
  NewPeers <- OneMore
  StartBudget = 2
  MaxBudget = 3
  Threshold = 1
  MaxInFlight = 3
SPECIFICATION FairSpec
INVARIANTS
  TypeOK
  AliveWhileSearching
  MatchesCountOnce
PROPERTIES
  FloodShrinks
  PassedOnIsLess
  SearchEnds
CHECK_DEADLOCK FALSE
