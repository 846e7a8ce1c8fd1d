SPECIFICATION MCSpec
CONSTANTS
  Proc = {p1, p2}
  Value = {v1, v2}
  NUM = 6
  Ring = 2
  Wrap = 4
  Intr = Intr
  None = None
  Reader = {r1, r2}
  Letter = {"a"}
  INPUT_BUF_SIZE = 3
  InputWrap = 6
  MaxLen = 2
  Nothing = Nothing
SYMMETRY Perms
INVARIANTS DiskInv TransferredWhenDone ConsoleInv
PROPERTIES IsLineInput EofAnswersZero
