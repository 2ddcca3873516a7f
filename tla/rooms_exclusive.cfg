CONSTANTS
  c1 = c1
  c2 = c2
  r1 = r1
  r2 = r2
  r3 = r3
  r4 = r4
  Clients = {c1, c2}
  RoomNames = {"metrics", "media"}
  CollectorRooms = {"metrics", "media"}
  RoomIds = {r1, r2}
  Messages <- TwoAndOne
  Monitor = Monitor
  NoRoom = NoRoom
  NoName = NoName
  NoClient = NoClient
SPECIFICATION ExclusiveSpec
INVARIANTS JoinedClientIsServed
PROPERTIES ImplementsService
CHECK_DEADLOCK FALSE
