SPECIFICATION FairSpec
CONSTANTS
  Identities = {i1}
  Metas = {m1}
  Executions = {e1}
  Codes <- MCCodes
  Size <- MCSize
  MaxBytes = 0
  NoValue = NoValue
  MaxOthers = 0
  MaxPosts = 5
  Jobs = {j1}
  Operations = {"ledger"}
  Policy = {"publisher_identity", "ledger"}
  ControlReruns = TRUE
  InProcess = FALSE
  MaxRuns = 0
  Commits = {c1}
  base = base
  Changes = {TRUE, FALSE}
  Owners = {TRUE}
  MaxForeign = 0
PROPERTIES
  EffectIsRecorded
CHECK_DEADLOCK FALSE
