SPECIFICATION GateFairSpec
CONSTANTS
  Job = {j1, j2, j3, j4}
  PrefabMax = 2
  GateFaults = {"crash"}
INVARIANTS
  GateHolds
  CounterExact
PROPERTIES
  LeakHeals
CHECK_DEADLOCK FALSE
