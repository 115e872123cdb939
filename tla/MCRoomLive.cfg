SPECIFICATION FairSpec
CONSTANTS
  alice = alice
  bob = bob
  phone = phone
  laptop = laptop
  desktop = desktop
  robot = robot
  p1 = p1
  Users = {alice, bob}
  Devices = {phone, desktop, robot}
  Synthetic = {robot}
  UserOf <- MCUserOf
  Producers = {p1}
  MaxParticipants = 2
  RuleCaps = {1}
  NoRule = NoRule
  MaxCalls = 2
PROPERTIES
  EmptiedRoomCloses
  ImplementsOccupancy
CHECK_DEADLOCK FALSE
