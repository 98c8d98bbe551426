SPECIFICATION Spec
CONSTANTS
  Job = {j1, j2}
  None = none
  MaxTurn = 1
  Faults = {}
INVARIANTS
  MovieIsCurrent
CHECK_DEADLOCK FALSE
