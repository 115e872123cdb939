SPECIFICATION FairSpec
CONSTANTS
  Producers = {mic, camera}
  MaxPackets = 2
  Inactivity = 2
  NoProducer = 3
INVARIANT
  ReaperTypeOK
PROPERTIES
  SteadySenderStays
  VanishedPeerGoes
