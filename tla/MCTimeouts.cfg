SPECIFICATION Spec
CONSTANTS
  Timer = {t1, t2, t3}
  ListHead = ListHead
  Delay = {0, 1, 3}
  MaxClock = 5
SYMMETRY Addresses
INVARIANTS
  TypeOK
  DeltaInv
  NeverEarly
  CursorLive
  IInv
PROPERTIES
  ServiceSpec
CHECK_DEADLOCK FALSE
