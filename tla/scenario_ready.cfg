SPECIFICATION Spec
CONSTANTS
  Req = {q1, q2, q3, q4}
  MaxText = 2
  Faults = {}
INVARIANTS
  ReadyMeansPrefab
CHECK_DEADLOCK FALSE
