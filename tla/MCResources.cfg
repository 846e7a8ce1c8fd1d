SPECIFICATION MCSpec
CONSTANTS
  p1 = p1
  p2 = p2
  None = None
  Proc <- MCProc
  NINODES = 4
  Tree <- MCTree
  Name <- MCName
  Workloads <- MCWorkloads
  MaxCalls = 3
VIEW MCView
CHECK_DEADLOCK FALSE
INVARIANTS
  TableInv NoPanic StableTree NeverStuck
  BlocksOwnedOnce FileIsBytes WithinReservation
  PagesOnce ImageIsSize
PROPERTY Isolation
