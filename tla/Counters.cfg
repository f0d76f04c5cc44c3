\* Two CPUs, two counters, every counter model.  With a factor of 3 the cap of
\* nmi_adapt() is reached in two sessions.
CONSTANTS
  c1 = c1
  c2 = c2
  k1 = k1
  k2 = k2
  CPUs <- MCCPUs
  Models <- MCModels
  Boot = c1
  Counters <- MCCounters
  Choices <- MCChoices
  Top = 7
  Factor = 3
  Firmware <- MCFirmware
  Garbage = {1}
  MaxAdapt = 2
  MaxChanges = 1
SPECIFICATION Spec
INVARIANTS
  TypeOK
  CountersOffBetweenSessions
  CountsFit
  SessionCounts
  RestoredAfterShutdown
  IdleRestored
  LateCountersCanBeStopped
PROPERTIES
  OneWriter
  NoSampleAfterStop
  PeriodAsAnnounced
VIEW LiveState
SYMMETRY MCSymmetry
CHECK_DEADLOCK FALSE
