SPECIFICATION FairSpec
CONSTANTS
  r1 = r1
  r2 = r2
  b1 = b1
  b2 = b2
  m1 = m1
  m2 = m2
  s1 = s1
  s2 = s2
  Request = {r1, r2}
  Bot = {b1}
  Room = {m1, m2}
  ShortId = {s1}
  LastDay = 1
  BotOf <- SameBot
  RoomOf <- OwnRooms
  UserAction = {"Acknowledge"}
  Acking = {}
  Threads = 2
  Unreliable = FALSE
  Faulty = FALSE
  NoAlert = NoAlert
  NoRoom = NoRoom
PROPERTIES
  EarlyAckIsTold
CHECK_DEADLOCK FALSE
