SPECIFICATION Spec
CONSTANTS
  Node = {n1, n2, n3}
  Nodes = Nodes
  FreeNodes = FreeNodes
  None = None
  Addr <- Senders
  Request <- Requests
  NCores = 2
  MaxNChannels = 2
  DataLen <- Lengths
  Timer = {t1, t2}
  AliveTimeout = 2
  MaxNow = 5
INVARIANTS
  AllCoresSetUp
CHECK_DEADLOCK FALSE
