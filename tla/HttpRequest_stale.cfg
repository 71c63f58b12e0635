SPECIFICATION Spec
CONSTANTS
  GET = GET
  NoMethod = NoMethod
  s1 = s1
  Empty = Empty
  A = A
  B = B
  Long = Long
  Host = Host
  v1 = v1
  v2 = v2
  ContentLength = ContentLength
  NotANumber = NotANumber
  TooLong = TooLong
  Segments = {s1}
  Methods = {GET}
  OtherStandard = {Host}
  ShortNames = {A}
  LongNames = {Long}
  Texts = {v1}
  Paths <- MCPaths
  Tails <- MCTails
  MaxBody = 1
  MaxHeaders = 1
  MaxMessages = 2
INVARIANTS
  StandardHeadersAreOwn
CHECK_DEADLOCK FALSE
