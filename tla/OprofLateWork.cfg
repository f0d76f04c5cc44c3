\* Does a work item outlive the buffers it drains?
CONSTANTS
  c1 = c1
  c2 = c2
  CPUs <- MCCPUs
  RingSize = 1
  OtherClients = FALSE
SPECIFICATION Spec
INVARIANTS
  NoWorkAfterFree
CHECK_DEADLOCK FALSE
