CONSTANTS
  Name <- MCName
  Size <- MCSize
  ByteValues = 4
  MaxProtoSize = 8
  InitialSize = 4
  Stray = {2}
  MaxNames = 3
  MaxOffer = 2
SPECIFICATION Spec
INVARIANT NoMatchDocumented
CHECK_DEADLOCK FALSE
