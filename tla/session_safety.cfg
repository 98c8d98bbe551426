SPECIFICATION Spec
CONSTANTS
  Req = {r1, r2, r3}
  Old = old
  Free = free
  Modes = {"turn", "regenerate"}
  Faults = {"crash", "evict", "dbfail", "timeout"}
INVARIANTS
  AtMostOneTurn
  LogMatchesSession
  PlayedMeansCounted
  LastAnswerIsLogged
PROPERTIES
  AnsweredMeansLogged
SYMMETRY Symmetry
CHECK_DEADLOCK FALSE
