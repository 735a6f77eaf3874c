SPECIFICATION FairSpec
CONSTANTS
  a1 = a1
  k1 = k1
  t1 = t1
  t2 = t2
  r1 = r1
  r2 = r2
  Ask = {a1}
  Card = {k1}
  Thread = {t1, t2}
  Room = {r1, r2}
  Foreign = {}
  Deploys = TRUE
  MaxEngine = 2
  MaxMishaps = 1
  NoRoom = NoRoom
INVARIANTS
  TypeOK
  AlertedRoomsReady
PROPERTIES
  RefinesDesk
  Answered
CHECK_DEADLOCK FALSE
