SPECIFICATION Spec
CONSTANTS
  Caller = {c1}
  Estimates = {3, 8, 40}
  Limit = 16
  Faults = {}
PROPERTIES
  RefusedMeansFull
CHECK_DEADLOCK FALSE
