SPECIFICATION Spec
CONSTANTS
  Tab = {t1, t2}
  Req = {r1, r2, r3}
  TabOf <- MCTabOf
  KindsOf <- MCKindsOf
  t1 = t1
  t2 = t2
  r1 = r1
  r2 = r2
  r3 = r3
  Faults = {"lost", "dies", "busy"}
INVARIANTS
  OneTokenPerLogin
  ExpiryIsInvisible
  LogoutIsFinal
PROPERTIES
  RequestsSettle
CHECK_DEADLOCK FALSE
