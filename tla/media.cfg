SPECIFICATION Spec
CONSTANTS
  Job = {j1, j2, j3}
  None = none
  MaxTurn = 3
  Faults = {"ffmpeg", "dbfail", "crash"}
INVARIANTS
  StateTellsMovie
  SceneNotLost
  PendingHasJob
PROPERTIES
  RerollDiffers
SYMMETRY Symmetry
CHECK_DEADLOCK FALSE
