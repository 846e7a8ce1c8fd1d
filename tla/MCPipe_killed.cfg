SPECIFICATION Spec
CONSTANTS
  Reader = {r1}
  Writer = {w1, w2}
  Byte = {a}
  PIPESIZE = 2
  Wrap = 4
  MaxLen = 2
  Victim = {w1}
  None = None
INVARIANT ReadersNotForgotten
