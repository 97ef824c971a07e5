CONSTANTS
  SeqSpace = 12
  MaxWindow = 3
  MinShrink = 2
  FileLen = 5
  Capacity = 3
  Depth = 1
  Faults = {"lose", "cut"}
  MaxFaults = 2
  MaxResent = 1
  Timely = TRUE
  fec_enable = FALSE
  GroupSize = 4
SPECIFICATION FairSpec
PROPERTIES
  SenderEnds
CHECK_DEADLOCK FALSE
