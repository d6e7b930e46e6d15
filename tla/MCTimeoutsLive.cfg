SPECIFICATION FairSpec
CONSTANTS
  Timer = {t1, t2, t3}
  ListHead = ListHead
  Delay = {1, 2}
  MaxClock = 2
PROPERTIES
  PassEnds
CHECK_DEADLOCK FALSE
