\* The RRPROFILE build, without backtraces: does the space check of log_sample() protect the ring?
CONSTANTS
  RRPROFILE = TRUE
  BufferSize = 12
  t1 = t1
  t2 = t2
  Tasks <- MCTasks
  NoTask = NoTask
  MaxDepth = 0
  SameCpu = TRUE
  MaxInterrupts = 2
SPECIFICATION SyncSpec
SYMMETRY TaskSymmetry
VIEW LiveState
INVARIANTS
  NoOverrun
CHECK_DEADLOCK FALSE
