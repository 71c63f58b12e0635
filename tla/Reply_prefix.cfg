SPECIFICATION ReplySpec
CONSTANTS
  t = t
  h = h
  v = v
  Zero = Zero
  Ones <- MCOnes
  Byte <- MCByte
  Responses <- MCResponses
  BufSize = 3
  MaxSyncs = 4
  MaxResponses = 2
INVARIANTS
  PeerGetsWhatWasPut
CHECK_DEADLOCK FALSE
