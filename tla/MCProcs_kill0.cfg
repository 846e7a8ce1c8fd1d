SPECIFICATION Spec
CONSTANTS
  Slots = 3
  MaxPid = 3
  KillPids = {0, 2, 3}
INVARIANT FreeSlotNotKilled
