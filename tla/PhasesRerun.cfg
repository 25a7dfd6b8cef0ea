SPECIFICATION PhaseSpec
CONSTANTS
  Identities = {i1}
  Metas = {m1}
  Executions = {e1, e2}
  Codes <- MCCodes
  Size <- MCSize
  MaxBytes = 0
  NoValue = NoValue
  MaxOthers = 1
  MaxPosts = 4
  Jobs = {j1, j2}
  Operations = {"recipe"}
  Policy = {"publisher_identity", "recipe"}
  ControlReruns = TRUE
  InProcess = FALSE
  MaxRuns = 2
SYMMETRY MCSymmetry
INVARIANTS
  OneDispatch
CHECK_DEADLOCK FALSE
