SPECIFICATION Spec
CONSTANTS
  r1 = r1
  r2 = r2
  b1 = b1
  b2 = b2
  m1 = m1
  m2 = m2
  s1 = s1
  s2 = s2
  Request = {r1, r2}
  Bot = {b1}
  Room = {m1, m2}
  ShortId = {s1, s2}
  LastDay = 1
  BotOf <- SameBot
  RoomOf <- OwnRooms
  UserAction = {"Acknowledge"}
  Acking = {r2}
  Threads = 2
  Unreliable = TRUE
  Faulty = TRUE
  NoAlert = NoAlert
  NoRoom = NoRoom
SYMMETRY Sids
INVARIANTS
  TypeOK
  ToldInOrigin
  LinkedRight
  AnnouncedRoutable
  
CHECK_DEADLOCK FALSE
