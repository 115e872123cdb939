SPECIFICATION Spec
CONSTANTS
  MaxSockets = 2
  MaxRooms = 2
  MaxInbox = 1
INVARIANTS TypeOK SessionsFollowSockets SweptForTrouble
PROPERTIES SilentSocketCloses IceDownIsSwept
CHECK_DEADLOCK FALSE
