SPECIFICATION Spec
CONSTANTS
  k1 = k1
  k2 = k2
  t1 = t1
  t2 = t2
  t3 = t3
  Token = {k1, k2}
  Thread = {t1, t2, t3}
  Opens <- OpensAt
  Expires <- ExpiresAt
  Day = 3
  Lag = 1
  MaxClock = 8
  MaxMishaps = 1
  Never = Never
INVARIANTS
  TypeOK
  DailyUnlessOverlapping
PROPERTIES
  SilenceExplained
CHECK_DEADLOCK FALSE
