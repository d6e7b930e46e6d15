SPECIFICATION Spec
CONSTANTS
  Node = {n1, n2}
  CoreAddr = {c1, c2, c3}
  MaxFd = 9
  Monitor = 1
  Socket = 2
  NoFd = NoFd
  None = None
  MaxDevices = 1
CHECK_DEADLOCK FALSE
SYMMETRY Addresses
INVARIANTS
  WatchSound
  ProcReachable
  ProcRegistered
  DataAlive
  IInv
