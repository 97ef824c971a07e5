CONSTANTS
  SeqSpace = 8
  MaxWindow = 3
  MinShrink = 2
  FileLen = 9
  Capacity = 4
  Depth = 1
  Faults = {"lose", "corrupt"}
  MaxFaults = 2
  MaxResent = 3
  Timely = TRUE
  fec_enable = TRUE
  GroupSize = 2
SPECIFICATION FairSpec
INVARIANTS
  Integrity
  RcvSorted
  NothingForgotten
  NoUB
PROPERTIES
  Delivered
  SenderEnds
CHECK_DEADLOCK FALSE
