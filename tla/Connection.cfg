CONSTANTS
  Conn = {s1, s2}
  InputLevels = {"UNSET", "REQUIRE"}
  MaxHandshakes = 2
  MaxVerifiers = 2
SYMMETRY ConnSymmetry
SPECIFICATION Spec
INVARIANTS TypeOK CountExact PendingInProgress VerifierHeld
CHECK_DEADLOCK FALSE
