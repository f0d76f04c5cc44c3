\* The RRPROFILE build, with a watershed of two entries.
CONSTANTS
  RRPROFILE = TRUE
  BufferSize = 5
  Watershed = 2
  MaxBatch = 3
  MaxBatches = 4
  MaxFailures = 2
SPECIFICATION Spec
VIEW LiveState
CONSTRAINT NotRaced
INVARIANTS
  TypeOK
  EntriesKeptUnlessRaced
  BatchesUnmixed
  NobodySleepsUnlessFaulted
PROPERTIES
  ImplementsLog
  CalledDaemonReads
CHECK_DEADLOCK FALSE
