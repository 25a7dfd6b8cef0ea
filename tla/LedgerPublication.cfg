SPECIFICATION Spec
CONSTANTS
  Identities = {i1}
  Metas = {m1}
  Executions = {e1}
  Codes <- MCCodes
  Size <- MCSize
  MaxBytes = 0
  NoValue = NoValue
  MaxOthers = 0
  MaxPosts = 5
  Jobs = {j1, j2}
  Operations = {"ledger"}
  Policy = {"publisher_identity", "ledger"}
  ControlReruns = TRUE
  InProcess = FALSE
  MaxRuns = 0
  Commits = {c1, c2}
  base = base
  Changes = {TRUE}
  Owners = {TRUE, FALSE}
  MaxForeign = 1
SYMMETRY MCSymmetry
INVARIANTS
  LedgerTypeOK
  OneCheckpointedEffect
  SuccessIsPublished
  RejectedWasNotSent
CHECK_DEADLOCK FALSE
