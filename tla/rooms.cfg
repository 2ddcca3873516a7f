CONSTANTS
  c1 = c1
  c2 = c2
  r1 = r1
  r2 = r2
  r3 = r3
  r4 = r4
  Clients = {c1, c2}
  RoomNames = {"metrics"}
  CollectorRooms = {"metrics"}
  RoomIds = {r1, r2, r3}
  Messages <- TwoEach
  Monitor = Monitor
  NoRoom = NoRoom
  NoName = NoName
  NoClient = NoClient
SPECIFICATION Spec
INVARIANTS OneLiveLoop FinishedClientGone NoUnaskedMembership NoEmptyRoomKept
CHECK_DEADLOCK FALSE
SYMMETRY Symmetry
