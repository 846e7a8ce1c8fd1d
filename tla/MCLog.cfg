SPECIFICATION FairSpec
CONSTANTS
  Proc = {p1, p2}
  Block = {b1, b2}
  Value = {v1, v2}
  Absent = Absent
  MAXOPBLOCKS = 2
  LOGSIZE = 4
  NLOG = 3
  OPBLOCKS = 2
INVARIANTS DurableOnReturn PinnedExactlyWhilePending
PROPERTIES CrashAtomicity SleepersWoken
