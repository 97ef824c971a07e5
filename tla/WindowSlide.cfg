CONSTANTS
  SeqSpace = 256
  MaxWindow = 31
  MinShrink = 4
SPECIFICATION Spec
INVARIANTS
  TypeOK
  AcceptsExactly
  RefusesOldAcks
  ReleasesUnlessAsked
  NackRangeExact
  OrdersWindow
