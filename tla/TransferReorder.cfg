CONSTANTS
  SeqSpace = 12
  MaxWindow = 3
  MinShrink = 2
  FileLen = 3
  Capacity = 2
  Depth = 2
  Faults = {"lose", "cut", "socket"}
  MaxFaults = 1
  MaxResent = 1
  Timely = FALSE
  fec_enable = FALSE
  GroupSize = 4
SPECIFICATION Spec
INVARIANTS
  TypeOK
  Integrity
  Complete
  NothingForgotten
  AckedMeansWritten
  RcvSorted
PROPERTIES
  KeepsPromise
CHECK_DEADLOCK FALSE
