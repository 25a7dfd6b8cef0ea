SPECIFICATION FairPhaseSpec
CONSTANTS
  Identities = {i1}
  Metas = {m1}
  Executions = {e1, e2}
  Codes <- MCCodes
  Size <- MCSize
  MaxBytes = 0
  NoValue = NoValue
  MaxOthers = 0
  MaxPosts = 2
  Jobs = {j1, j2}
  Operations = {"inspect", "recipe", "ledger"}
  Policy = {"recipe"}
  ControlReruns = FALSE
  InProcess = TRUE
  MaxRuns = 2
INVARIANTS
  OneGrantedBundle
PROPERTIES
  RequestPromise
  ReceiptSettles
CHECK_DEADLOCK FALSE
