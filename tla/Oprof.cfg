\* Two CPUs, one client at a time.
CONSTANTS
  c1 = c1
  c2 = c2
  CPUs <- MCCPUs
  RingSize = 2
  OtherClients = FALSE
SPECIFICATION Spec
INVARIANTS
  TypeOK
  NoWorkAfterFreeUnlessLate
  NoUseAfterFreeUnlessLate
  SetUpBeforeStart
  StopLeavesNothing
PROPERTIES
  RingsDrained
  ControlReturns
CHECK_DEADLOCK FALSE
