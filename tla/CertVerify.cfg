CONSTANTS
  MaxTop = 3
  MaxDepth = 2
  MaxUrls = 3
SPECIFICATION FairSpec
INVARIANTS TypeOK StrictModes RevokedRejected HardFailDefinitive
PROPERTY Decides
CHECK_DEADLOCK FALSE
