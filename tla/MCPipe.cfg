SPECIFICATION FairSpec
CONSTANTS
  Reader = {r1, r2}
  Writer = {w1, w2}
  Byte = {a, b}
  PIPESIZE = 2
  Wrap = 4
  MaxLen = 2
  Victim = {r1}
  None = None
INVARIANTS PipeInv
PROPERTIES IsFifo WritersWoken
