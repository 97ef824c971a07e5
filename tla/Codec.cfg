CONSTANTS
  MaxPayload = 2
  Slack = 16
  Windows = {1}
  Numbers = {0}
  Cuts = {0, 5, 9}
SPECIFICATION Spec
INVARIANTS
  TypeOK
  RoundTrip
  NoForgery
  AgreesWithPacket
  StaleReadIsEmpty
  FitsBuffer
CHECK_DEADLOCK FALSE
