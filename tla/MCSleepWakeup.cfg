SPECIFICATION FairSpec
CONSTANTS
  Cpu = {c1, c2}
  NPROC = 2
  MaxItems = 1
  None = None
INVARIANTS SchedInv NoLostWakeup
PROPERTY RunnableRuns
