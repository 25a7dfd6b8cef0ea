SPECIFICATION Spec
CONSTANTS
  small = small
  bulky = bulky
  Identities = {small, bulky}
  Metas = {m1}
  Executions = {e1, e2}
  Codes = {c1}
  Size <- MCSize
  MaxBytes = 4
  NoValue = NoValue
  Requests = {r1}
  Stamps = {s1, s2}
  SameSecond = FALSE
  MaxCommits = 5
  Workers = {w1, w2}
SYMMETRY MCSymmetry
INVARIANTS
  AtMostOneGrant
  GrantIsDurable
  AcceptanceIsFrozen
  StoredRecordsReload
