SPECIFICATION HSpec
CONSTANTS
  Req = {r1, r2}
  Old = old
  Free = free
  Modes = {"turn", "regenerate"}
  Faults = {"lease", "crash", "dbfail", "evict", "timeout"}
INVARIANTS
  FreshTurnIsCurrent
PROPERTIES
  PatientEndKeepsLog
  ImplementsForkingLog
CHECK_DEADLOCK FALSE
