CONSTANTS
  Ctx = {c1, c2}
  Password = {w1, w2}
  KeyType = {rsa, ec}
  MaxCalls = 3
SPECIFICATION Spec
INVARIANTS TypeOK ServesWhatWasSet FreedWhenUnused ReleaseConfined
SYMMETRY Symmetry
CHECK_DEADLOCK FALSE
