CONSTANTS
  Conf = {f1, f2}
  Ctx = {c1, c2}
  Checked = {"NO_OCSP_CHECK", "OCSP_TIMEOUT"}
  Command = {"CipherString"}
  Number = {3, 20}
  Half = 128
  Factor = 10
  Default = 15
  MaxCalls = 4
SPECIFICATION Spec
INVARIANTS TypeOK AssignDecides AppliedToAssigned
CHECK_DEADLOCK FALSE
