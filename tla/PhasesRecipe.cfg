SPECIFICATION PhaseSpec
CONSTANTS
  Identities = {i1}
  Metas = {m1}
  Executions = {e1}
  Codes <- MCCodes
  Size <- MCSize
  MaxBytes = 0
  NoValue = NoValue
  MaxOthers = 1
  MaxPosts = 4
  Jobs = {j1, j2}
  Operations = {"recipe", "ledger", "audit"}
  Policy = {"publisher_identity", "recipe"}
  ControlReruns = FALSE
  InProcess = FALSE
  MaxRuns = 2
SYMMETRY MCSymmetry
INVARIANTS
  TypeOK
  OneDispatch
  RejectedHadNoEffect
  TerminalIsEvidenced
  HandoffsVerify
  OneGrantedBundle
CHECK_DEADLOCK FALSE
