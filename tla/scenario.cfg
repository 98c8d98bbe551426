SPECIFICATION FairSpec
CONSTANTS
  Req = {q1, q2, q3}
  MaxText = 2
  Faults = {"cancel"}
INVARIANTS
  PendingHasJob
  PrefabIsCurrent
PROPERTIES
  PendingSettles
CHECK_DEADLOCK FALSE
