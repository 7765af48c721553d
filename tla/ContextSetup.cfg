CONSTANTS
  Thread = {t1, t2}
  Cipher = {"AES", "NULL"}
  Disabled = {"NULL"}
  Default = {"AES"}
  MaxInFile = 2
  MaxErrors = 3
  MaxCalls = 3
SPECIFICATION Spec
INVARIANTS TypeOK ChainSound TrueWhenClean OwnErrorReported PromisesKept
CHECK_DEADLOCK FALSE
