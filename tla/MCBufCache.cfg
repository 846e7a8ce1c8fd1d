SPECIFICATION FairSpec
CONSTANTS
  Proc = {p1, p2}
  Block = {n1, n2, n3}
  Value = {u, v}
  NBUF = 2
  MaxPins = 1
  None = None
CHECK_DEADLOCK FALSE
INVARIANTS CacheInv
PROPERTIES IsBlockStore BreadReturns
