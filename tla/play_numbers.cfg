SPECIFICATION Spec
CONSTANTS
  MaxVisits = 2
  MaxSends = 1
  Faults = {}
INVARIANTS
  NumbersAreReal
CHECK_DEADLOCK FALSE
