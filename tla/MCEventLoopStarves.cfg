SPECIFICATION FairSpec
CONSTANTS
  Monitor = Monitor
  Socket = Socket
  Spare = {f1, f2}
  AliveTimeout = 2
  MaxCores = 2
  None = None
  MaxArrivals = 5
PROPERTIES
  SilentNodesLeave
CHECK_DEADLOCK FALSE
