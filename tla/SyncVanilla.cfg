\* The build without RRPROFILE; the reader may run on any CPU; backtraces on.
CONSTANTS
  RRPROFILE = FALSE
  BufferSize = 6
  t1 = t1
  t2 = t2
  Tasks <- MCTasks
  NoTask = NoTask
  MaxDepth = 1
  SameCpu = FALSE
  MaxInterrupts = 3
SPECIFICATION SyncSpec
SYMMETRY TaskSymmetry
VIEW LiveState
INVARIANTS
  TypeOK
  NoOverrun
  Attribution
  FramesFollowTheirSample
PROPERTIES
  ImplementsFifo
CHECK_DEADLOCK FALSE
