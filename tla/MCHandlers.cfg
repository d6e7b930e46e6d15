SPECIFICATION HandlersSpec
CHECK_DEADLOCK FALSE
CONSTANTS
  Channel = {0, 15}
  Proto = {1, 2, 3}
  File = {"mcuio", "console", "rpmsg", "libutil", "readme"}
  Contents <- Directory
  MaxScans = 3
  McuioV0 = 1
  Console = 2
  Bus = {b1}
  NDevs = 2
  NoDev = 255
  Memory = {m1, m2}
  None = None
INVARIANTS
  HandlersTypeOK
  HandlesBalanced
  OpsOutliveChannels
  PrivAlive
  AdataDecodes
  HandlersIInv
PROPERTIES
  ScanComplete
  TableSpec
