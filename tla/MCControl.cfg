SPECIFICATION Spec
CONSTANTS
  op = op
  guest = guest
  trusted = trusted
  plain = plain
  Users = {op, guest}
  Operator = op
  Allowed = {op}
  Relays = {trusted, plain}
  Trusted = {trusted}
  Strict = FALSE
  BypassUntil = 0
  Events = {1, 2, 3, 4, 5}
  Event <- ControlEvents
  NoEnd = NoEnd
  Everyone = Everyone
  Durations = {0, 1}
  put1 = put1
  put2 = put2
  Puts = {put1, put2}
  Idle = Idle
  Ttl = 1
  SeenLimit = 2
  MaxDelay = 1
  MaxTime = 2
SYMMETRY PutsAlike
INVARIANTS
  TypeOK
  ActsOnce
  RoomEndsInTime
PROPERTIES
  NoEarlyEnd
