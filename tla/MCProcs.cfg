SPECIFICATION FairSpec
CONSTANTS
  Slots = 4
  MaxPid = 4
  KillPids = {2}
INVARIANTS ProcsInv NoZombieMissed
PROPERTY OrphansReaped
