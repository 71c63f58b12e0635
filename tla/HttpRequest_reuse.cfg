SPECIFICATION FairSpec
CONSTANTS
  GET = GET
  NoMethod = NoMethod
  s1 = s1
  Empty = Empty
  A = A
  B = B
  Long = Long
  Host = Host
  v1 = v1
  v2 = v2
  ContentLength = ContentLength
  NotANumber = NotANumber
  TooLong = TooLong
  Segments = {s1}
  Methods = {GET}
  OtherStandard = {Host}
  ShortNames = {A, B}
  LongNames = {Long}
  Texts = {v1, v2}
  Paths <- MCPaths
  Tails <- MCTails
  MaxBody = 1
  MaxHeaders = 3
  MaxMessages = 2
INVARIANTS
  TypeOK
  CustomHeadersAreOwn
  LostNamesAreShort
  BodyIsOwn
  FirstMessageExact
  RequestLineIsOwn
PROPERTIES
  FirstMessageReturns
CHECK_DEADLOCK FALSE
