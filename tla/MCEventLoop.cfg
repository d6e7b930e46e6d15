SPECIFICATION FairSpec
CONSTANTS
  Monitor = Monitor
  Socket = Socket
  Spare = {f1, f2}
  AliveTimeout = 2
  MaxCores = 2
  None = None
  MaxArrivals = 5
INVARIANTS
  TypeOK
  NeverBlocks
  IInv
PROPERTIES
  WalkComplete
  ReadyServed
CHECK_DEADLOCK FALSE
