CONSTANTS
  Pool = {p1, p2}
  Ctx = {c1, c2}
  Conn = {s1, s2}
  MaxFailures = 1
  MaxSslInit = 2
SPECIFICATION Spec
INVARIANTS TypeOK MemorySafe RefsExact NothingLeft InitBalanced
PROPERTY SharedOwnership
CHECK_DEADLOCK FALSE
