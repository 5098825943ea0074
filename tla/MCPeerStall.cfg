SPECIFICATION Spec
CONSTANTS
  na = na  nb = nb  nc = nc  w = w
  Node = {na, nb, nc}
  Setups <- TwoOnly
  BatchLimit = 3
  MinPrefetch = 3
  MaxPerPeer = 2
  MaxAtOnce = 2
  MaxPrefetch = 1
PROPERTY BacklogServed
CHECK_DEADLOCK FALSE
