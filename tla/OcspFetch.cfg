CONSTANTS
  SendBuffer = 3
  BufferSize = 4
  MaxResponse = 37
  ReqLen = 7
SPECIFICATION FairSpec
INVARIANTS TypeOK BufferSafe RequestSent NothingHeld
PROPERTY Terminates
CHECK_DEADLOCK FALSE
