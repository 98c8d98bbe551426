SPECIFICATION FairSpec
CONSTANTS
  MaxTurn = 3
  MaxRedone = 1
  Window = 4
  Retries = 2
  GuardRetries = 1
  ShownSummaries = 1
  FullResolve = 2
  Shifts <- MCShifts
  Faults = {"rate", "call"}
INVARIANTS
  HistoryPartition
  RecentStoryInSight
  RefusedIsReplaced
  GuardContextIsRight
  ShownIsSaved
PROPERTIES
  ImplementsStoryline
  VoiceIsKeptUnlessStreamed
  TurnEnds
CHECK_DEADLOCK FALSE
