SPECIFICATION FairSpec
CONSTANTS
  Worker = {w1, w2}
  NoWorker = NoWorker
  Interval = 1
  Old <- MCOld
  MaxMishaps = 2
INVARIANTS
  TypeOK
  NeverTwice
PROPERTIES
  HeardAgain
  OncePerDeployment
CHECK_DEADLOCK FALSE
