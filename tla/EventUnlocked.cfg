\* The RRPROFILE build, no failed reads: does the buffer keep what is added to it?
CONSTANTS
  RRPROFILE = TRUE
  BufferSize = 4
  Watershed = 1
  MaxBatch = 1
  MaxBatches = 2
  MaxFailures = 0
SPECIFICATION Spec
INVARIANTS
  EntriesKept
CHECK_DEADLOCK FALSE
