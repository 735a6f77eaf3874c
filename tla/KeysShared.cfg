SPECIFICATION FairSpec
CONSTANTS
  w1 = w1
  w2 = w2
  k0 = k0
  k1 = k1
  k2 = k2
  k3 = k3
  s1 = s1
  s2 = s2
  Worker = {w1, w2}
  Bot = {"b1"}
  Key = {k0, k1, k2, k3}
  Secret = {s1, s2}
  FirstKey = k0
  Leaders = {w1, w2}
  Batch = 1
  NoKey = NoKey
  NoSecret = NoSecret
INVARIANTS
  TypeOK
  RowsReadable
PROPERTIES
  RefinesStore
  SettledRowsCatchUp
CHECK_DEADLOCK FALSE
