SPECIFICATION FairSpec
CONSTANTS
  w1 = w1
  w2 = w2
  blue = blue
  green = green
  Proc = {w1, w2}
  NoProc = NoProc
  Master = {blue}
  MasterOf <- MasterOfTwo
  Leftover <- AnyLeftover
  Crashy = {}
  Failing = {}
  TimeoutsHappen = FALSE
PROPERTIES
  DoneReleasesWaiters
CHECK_DEADLOCK FALSE
