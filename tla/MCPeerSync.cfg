SPECIFICATION Spec
CONSTANTS
  na = na  nb = nb  nc = nc  w = w
  Node = {na, nb, nc}
  Setups <- MCSetups
  BatchLimit = 2
  MinPrefetch = 2
  MaxPerPeer = 2
  MaxAtOnce = 2
  MaxPrefetch = 1
INVARIANTS RequestsOwned HandedInOrder HonestPeersKept
PROPERTY PeersConverge
CHECK_DEADLOCK FALSE
