SPECIFICATION Spec
CONSTANTS
  a = a
  b = b
  Byte = {a, b}
  BufSize = 2
  MaxSent = 5
INVARIANTS
  TypeOK
  NothingLost
PROPERTIES
  ImplementsChannel
CHECK_DEADLOCK FALSE
