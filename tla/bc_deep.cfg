CONSTANTS
  g1 = g1
  g2 = g2
  n1 = n1
  n2 = n2
  n3 = n3
  f1 = f1
  f2 = f2
  Gossiper = {g1, g2}
  Peers <- Everyone
  Name = {n1, n2, n3}
  Content = {f1}
  NoTx = NoTx
  FreshLoopVar = TRUE
  TxHopLimit = 0
  BlockHopLimit = 0
  MaxMined = 5
SPECIFICATION Spec
SYMMETRY Alike
INVARIANTS
  TypeOK
  NamesRegisteredOnce
  PendingIsUnregistered
  TailEndsLongestChain
PROPERTIES
  ChainOnlyGrows
  NamesAreKept
CHECK_DEADLOCK FALSE
