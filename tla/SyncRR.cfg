\* The RRPROFILE build; the reader runs on the CPU whose buffer it drains; backtraces on.
CONSTANTS
  RRPROFILE = TRUE
  BufferSize = 10
  t1 = t1
  t2 = t2
  Tasks <- MCTasks
  NoTask = NoTask
  MaxDepth = 1
  SameCpu = TRUE
  MaxInterrupts = 3
SPECIFICATION SyncSpec
SYMMETRY TaskSymmetry
VIEW LiveState
INVARIANTS
  ContextPairsMatch
  Attribution
  FramesFollowTheirSample
CHECK_DEADLOCK FALSE
