SPECIFICATION Spec
CONSTANTS
  Name = {ann}
  Main = main
  Placeholder = player
  Blank = blank
  Junk = junk
  MaxListed = 1
  MaxSessions = 1
  Faults = {}
INVARIANTS
  FilterReachesAll
CHECK_DEADLOCK FALSE
