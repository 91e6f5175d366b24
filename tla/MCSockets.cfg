CONSTANTS
  MaxSockets = 3
  Endpoints = {1, 2, 3}
  NoEndpoint = NoEndpoint
  MaxData = 2
  MaxCallers = 1
  ReadToEnd = TRUE
  Request = 2
  Reply = 3
  RoomMost = 4
  AnySlots = {0, 1}
  AnyEndpoints = {1, 2}
  SmallData = 1
SPECIFICATION MCSpec
INVARIANTS AllTypeOK NoFalseReady UpIsConnected MinerReleases ReplyWhole
PROPERTIES ImplementsHandles   CycleReturns
\* The server ends, and any program may stop.
CHECK_DEADLOCK FALSE
