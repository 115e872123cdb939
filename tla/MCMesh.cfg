SPECIFICATION Spec
CONSTANTS
  First = p1
  Second = p2
  MaxSessions = 4
  MaxFaults = 1
  None = None
INVARIANTS TypeOK PairsAgree
PROPERTIES PeersMeet
CHECK_DEADLOCK FALSE
