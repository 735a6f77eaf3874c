SPECIFICATION FairSpec
CONSTANTS
  w1 = w1
  w2 = w2
  blue = blue
  green = green
  Proc = {w1, w2}
  NoProc = NoProc
  Master = {blue, green}
  MasterOf <- MasterEach
  Leftover <- AnyLeftover
  Crashy = {w1, w2}
  Failing = {w1, w2}
  TimeoutsHappen = TRUE
INVARIANTS
  TypeOK
  PassOnlyOnFreshDone
  SingleInit
  KeysReady
PROPERTIES
  WiringSucceeds
  RefinesBarrier
  Decided
CHECK_DEADLOCK FALSE
