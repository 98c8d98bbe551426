SPECIFICATION HSpec
CONSTANTS
  Req = {r1}
  Old = old
  Free = free
  Modes = {"turn"}
  Faults = {}
PROPERTIES
  EndNeverReverts
CHECK_DEADLOCK FALSE
