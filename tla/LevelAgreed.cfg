SPECIFICATION FairSpec
CONSTANTS
  r1 = r1
  r2 = r2
  Worker = {"w1", "w2"}
  Pollers = {"w2"}
  Request = {r1, r2}
  Handler = {1, 2}
  Level = {"DEBUG", "ERROR"}
  Default = Default
  Configured = "INFO"
  LevelAsked <- OneReset
  Epoch <- OneAhead
  Skew = 1
  Grace = 1
  Ahead <- OneAhead
  MaxHandling = 1
  MaxTime = 3
  Threaded = TRUE
  NoHandler = NoHandler
  Nothing = Nothing
INVARIANTS
  TypeOK
  StoredOnce
  RootWasStored
PROPERTIES
  RefinesLedger
  FollowersConverge
CHECK_DEADLOCK FALSE
