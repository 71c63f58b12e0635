SPECIFICATION Spec
CONSTANTS
  Char <- MCChar
  MaxLen = 3
INVARIANTS
  TypeOK
  EncodeIsInjective
  IteratorKeepsStep
  FirstEscapeIsChecked
PROPERTIES
  Terminates
CHECK_DEADLOCK FALSE
