\* Two CPUs that may go offline and two tasks; any event on one counter of a
\* Pentium 4, one on another; three frames.
CONSTANTS
  c1 = c1
  c2 = c2
  t1 = t1
  t2 = t2
  CPUs <- MCCPUs
  Tasks <- MCTasks
  NoCpu = NoCpu
  Settings <- MCSettings
  Frames = {1, 2, 3}
  KernelLr = {1, 3}
  Limit = 5
  MaxWrites = 1
SPECIFICATION MCSpec
INVARIANTS
  TypeOK
  NoUseAfterFree
  MarkedHoldNoDead
  EveryControlFilled
  P4RegistersRestored
  P4EventsProgrammed
  TraceInBounds
  WholeChainWalked
PROPERTIES
  MortuaryProgresses
CHECK_DEADLOCK FALSE
