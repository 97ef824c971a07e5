CONSTANTS
  SeqSpace = 12
  MaxWindow = 3
  MinShrink = 2
  FileLen = 0
  Capacity = 3
  Depth = 1
  Faults = {}
  MaxFaults = 0
  MaxResent = 1
  Timely = TRUE
  fec_enable = FALSE
  GroupSize = 4
SPECIFICATION FairSpec
PROPERTIES
  Delivered
CHECK_DEADLOCK FALSE
