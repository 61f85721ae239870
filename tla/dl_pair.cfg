CONSTANTS
  g1 = g1
  g2 = g2
  f = f
  e = e
  z = z
  x = x
  y = y
  n1 = n1
  n2 = n2
  Gossiper = {g1, g2}
  File = {f, e, z}
  Chunk = {x, y}
  Chunks <- ChunksOf
  TooBig = {z}
  Name = {n1, n2}
  None = None
  Sharable <- TwoShared
  Wanted <- Pair
  TimeoutsLimit = 2
  MaxInFlight = 3
SPECIFICATION FairSpec
INVARIANTS
  TypeOK
  HeldChunksAreOnDisk
  MapsAgree
  DownloadedIsWritten
  ResendIsUseful
PROPERTIES
  DownloadsEnd
CHECK_DEADLOCK FALSE
