CONSTANTS
  SeqSpace = 16
  MaxWindow = 5
  MinShrink = 4
  FileLen = 8
  Capacity = 6
  Depth = 1
  Faults = {"lose", "cut", "corrupt", "header"}
  MaxFaults = 2
  MaxResent = 1
  Timely = TRUE
  fec_enable = FALSE
  GroupSize = 4
SPECIFICATION Spec
INVARIANTS
  NothingForgotten
  FinalAfterData
  BufferBound
  SenderBound
  EofInList
  NoUB
CHECK_DEADLOCK FALSE
