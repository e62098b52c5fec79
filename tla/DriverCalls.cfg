SPECIFICATION FairSpec
CONSTANTS
  io = io
  ask = ask
  Clients = {io, ask}
  Does <- IOAndQuestions
  NoObject = NoObject
  NoThread = NoThread
  Questions <- Format
  Settings <- ThreeSettings
  Deactivates = TRUE
  MaxQueue = 2
INVARIANTS
  TypeOK
  CountsExact
  LifetimesExact
  HardwareFollowsClients
  TicksMatchRate
  TablesAgree
PROPERTIES
  ChangesComplete
