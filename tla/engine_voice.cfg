SPECIFICATION Spec
CONSTANTS
  MaxTurn = 2
  MaxRedone = 1
  Window = 4
  Retries = 2
  GuardRetries = 1
  ShownSummaries = 1
  FullResolve = 2
  Shifts <- MCShifts
  Faults = {}
PROPERTIES
  VoiceIsKept
CHECK_DEADLOCK FALSE
