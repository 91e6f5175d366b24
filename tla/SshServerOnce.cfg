CONSTANTS
  MaxSockets = 2
  Endpoints = {e1, e2}
  NoEndpoint = NoEndpoint
  MaxData = 2
  MaxCallers = 1
  ReadToEnd = FALSE
SPECIFICATION ServerFairSpec
PROPERTY DataRead
CHECK_DEADLOCK FALSE
