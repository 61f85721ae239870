CONSTANTS
  g1 = g1
  g2 = g2
  f = f
  e = e
  z = z
  x = x
  y = y
  n1 = n1
  n2 = n2
  Gossiper = {g1, g2}
  File = {z}
  Chunk = {x, y}
  Chunks <- ChunksOf
  TooBig = {}
  Name = {n1}
  None = None
  Sharable <- EmptyShared
  Wanted <- Empty
  TimeoutsLimit = 2
  MaxInFlight = 2
SPECIFICATION FairSpec
PROPERTIES
  DownloadsEnd
CHECK_DEADLOCK FALSE
