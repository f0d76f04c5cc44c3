\* Others use the control files while the daemon opens and closes the buffer.
CONSTANTS
  c1 = c1
  c2 = c2
  CPUs <- MCCPUs
  RingSize = 1
  OtherClients = TRUE
SPECIFICATION Spec
INVARIANTS
  SetUpBeforeStart
CHECK_DEADLOCK FALSE
