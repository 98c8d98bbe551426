SPECIFICATION Spec
CONSTANTS
  MaxVisits = 3
  MaxSends = 2
  Faults = {"cut", "deaf", "close", "lost", "fail"}
INVARIANTS
  SeenIsPlayed
  StoryResumes
CHECK_DEADLOCK FALSE
