SPECIFICATION FairSpec
CONSTANTS
  Channels = {c1, c2}
  Slots = {r1, r2}
  None = None
  MaxRooms = 1
INVARIANTS
  TypeOK
  RoomLimit
  RoutersMatchRooms
PROPERTIES
  ImplementsRoomLife
  ChannelFreed
  ShutdownProceeds
CHECK_DEADLOCK FALSE
