SPECIFICATION HSpec
CONSTANTS
  Req = {r1, r2}
  Old = old
  Free = free
  Modes = {"turn"}
  Faults = {}
PROPERTIES
  NoTurnOverwritten
CHECK_DEADLOCK FALSE
