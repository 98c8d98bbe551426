SPECIFICATION Spec
CONSTANTS
  MaxTurn = 1
  MaxRedone = 1
  Window = 4
  Retries = 2
  GuardRetries = 1
  ShownSummaries = 1
  FullResolve = 2
  Shifts <- MCShifts
  Faults = {}
INVARIANTS
  GuardFailsClosed
CHECK_DEADLOCK FALSE
