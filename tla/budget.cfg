SPECIFICATION Spec
CONSTANTS
  Caller = {c1, c2, c3, c4}
  Estimates = {3, 8, 40}
  Limit = 16
  Faults = {"gap"}
INVARIANTS
  WithinBudget
  CounterExact
  WindowEnds
SYMMETRY Symmetry
CHECK_DEADLOCK FALSE
