CONSTANTS
  SeqSpace = 8
  MaxWindow = 3
  MinShrink = 2
  FileLen = 16
  Capacity = 4
  Depth = 1
  Faults = {"cut"}
  MaxFaults = 1
  MaxResent = 1
  Timely = TRUE
  fec_enable = FALSE
  GroupSize = 4
SPECIFICATION Spec
INVARIANTS
  Integrity
CHECK_DEADLOCK FALSE
