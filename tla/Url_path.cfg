SPECIFICATION Spec
CONSTANTS
  Letters = {"a", "b", "c"}
  Digits = {"1"}
  BigNumbers = {"65535"}
  Inputs <- MCInputs
  Segments <- MCSegments
  MaxOps = 2
INVARIANTS
  TypeOK
  PartsInOrder
  PartsAreClean
  PathIsWhole
  SlashAddsSegment
PROPERTIES
  ParentUndoesSlash
CHECK_DEADLOCK FALSE
