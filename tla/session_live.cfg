SPECIFICATION LiveSpec
CONSTANTS
  Req = {r1, r2}
  Old = old
  Free = free
  Modes = {"turn"}
  Faults = {"crash", "rerun", "timeout"}
PROPERTIES
  LockIsFreed
  InitSettles
CHECK_DEADLOCK FALSE
