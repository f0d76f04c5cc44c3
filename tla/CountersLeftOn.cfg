\* An Athlon, nothing but sessions with adaptation.
CONSTANTS
  c1 = c1
  c2 = c2
  k1 = k1
  k2 = k2
  CPUs <- MCCPUs
  Models = {"athlon"}
  Boot = c1
  Counters <- MCCounters
  Choices <- MCChoices
  Top = 7
  Factor = 3
  Firmware <- MCFirmware
  Garbage = {1}
  MaxAdapt = 2
  MaxChanges = 0
SPECIFICATION Spec
INVARIANT CountersOffUnlessLate
SYMMETRY MCSymmetry
CHECK_DEADLOCK FALSE
