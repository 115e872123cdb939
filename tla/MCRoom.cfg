SPECIFICATION Spec
CONSTANTS
  alice = alice
  bob = bob
  phone = phone
  laptop = laptop
  desktop = desktop
  robot = robot
  p1 = p1
  Users = {alice, bob}
  Devices = {phone, laptop, desktop}
  Synthetic = {}
  UserOf <- MCUserOf
  Producers = {p1}
  MaxParticipants = 2
  RuleCaps = {1}
  NoRule = NoRule
  MaxCalls = 2
INVARIANTS
  TypeOK
  EmptyTimerOnlyWhenEmpty
  EmptiedRoomCountsDown
  FeedsAnnounced
PROPERTY
  DepartureReachesRoster
CHECK_DEADLOCK FALSE
