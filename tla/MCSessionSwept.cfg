SPECIFICATION Spec
CONSTANTS
  MaxSockets = 2
  MaxRooms = 2
  MaxInbox = 1
INVARIANT SweepSparesReconnected
CHECK_DEADLOCK FALSE
