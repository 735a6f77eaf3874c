SPECIFICATION FairTeamSpec
CONSTANTS
  b1 = b1
  b2 = b2
  c1 = c1
  c2 = c2
  p1 = p1
  Person = {p1}
  Bot = {b1, b2}
  Thread = {c1, c2}
  BotOf <- OneAsked
  Ttl = 2
  MaxCall = 1
  MaxFailures = 1
  NoTeam = NoTeam
INVARIANTS
  TeamTypeOK
  NobodyLongGone
PROPERTIES
  NewcomersAreAdded
