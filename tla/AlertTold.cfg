SPECIFICATION FairSpec
CONSTANTS
  r1 = r1
  r2 = r2
  b1 = b1
  b2 = b2
  m1 = m1
  m2 = m2
  s1 = s1
  s2 = s2
  Request = {r1, r2}
  Bot = {b1, b2}
  Room = {m1, m2}
  ShortId = {s1}
  LastDay = 1
  BotOf <- TwoBots
  RoomOf <- OwnRooms
  UserAction = {"Acknowledge"}
  Acking = {}
  Threads = 1
  Unreliable = FALSE
  Faulty = FALSE
  NoAlert = NoAlert
  NoRoom = NoRoom
PROPERTIES
  StoredAckIsTold
CHECK_DEADLOCK FALSE
