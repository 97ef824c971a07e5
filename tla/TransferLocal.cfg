CONSTANTS
  SeqSpace = 12
  MaxWindow = 3
  MinShrink = 2
  FileLen = 3
  Capacity = 2
  Depth = 1
  Faults = {"pread", "socket", "stdout", "timeout", "refused", "lose"}
  MaxFaults = 1
  MaxResent = 1
  Timely = FALSE
  fec_enable = TRUE
  GroupSize = 2
SPECIFICATION Spec
INVARIANTS
  Integrity
CONSTRAINT FewUncounted
CHECK_DEADLOCK FALSE
