SPECIFICATION Spec
CONSTANTS
  Relays = {r1, r2}
  Rooms = {first, second}
  Stale = 2
  MaxAt = 2
INVARIANTS TypeOK ReplicasAreNewest
PROPERTIES DisconnectedIsRebuilt
