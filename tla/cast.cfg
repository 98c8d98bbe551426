SPECIFICATION Spec
CONSTANTS
  Name = {ann, bob}
  Main = main
  Placeholder = player
  Blank = blank
  Junk = junk
  MaxListed = 2
  MaxSessions = 1
  Faults = {"guarded", "fatal"}
INVARIANTS
  NamesAreUnique
  EveryMentionIsCast
CHECK_DEADLOCK FALSE
