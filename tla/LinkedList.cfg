CONSTANTS
  Addr = {a1, a2, a3}
  NULL = NULL
  Number = {0, 1, 2}
SPECIFICATION Spec
INVARIANTS
  TypeOK
  NoStray
  Shape
PROPERTIES
  ImplementsList
CHECK_DEADLOCK FALSE
