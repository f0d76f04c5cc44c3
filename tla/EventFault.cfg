\* The build without RRPROFILE: is a reader that sleeps near the end of the buffer woken?
CONSTANTS
  RRPROFILE = FALSE
  BufferSize = 2
  Watershed = 1
  MaxBatch = 2
  MaxBatches = 2
  MaxFailures = 1
SPECIFICATION Spec
INVARIANTS
  NobodySleepsNearTheEnd
CHECK_DEADLOCK FALSE
