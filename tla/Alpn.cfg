CONSTANTS
  Name <- MCName
  Size <- MCSize
  ByteValues = 4
  MaxProtoSize = 8
  InitialSize = 4
  Stray = {0, 1, 3}
  MaxNames = 3
  MaxOffer = 2
SPECIFICATION Spec
INVARIANTS TypeOK ListSound SelectsPreferred
CHECK_DEADLOCK FALSE
