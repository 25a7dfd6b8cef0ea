SPECIFICATION Spec
CONSTANTS
  small = small
  bulky = bulky
  Identities = {small}
  Metas = {m1}
  Executions = {e1}
  Codes = {c1}
  Size <- MCSize
  MaxBytes = 4
  NoValue = NoValue
  Requests = {r1}
  Stamps = {s1}
  SameSecond = TRUE
  MaxCommits = 5
  Workers = {w1, w2}
SYMMETRY MCSymmetry
INVARIANT AtMostOneGrant
