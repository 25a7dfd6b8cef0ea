SPECIFICATION Spec
CONSTANTS
  small = small
  bulky = bulky
  Identities = {small}
  Metas = {m1}
  Executions = {e1}
  Codes = {c1}
  Size <- MCSize
  MaxBytes = 4
  NoValue = NoValue
  Requests = {r1, r2}
  Stamps = {s1}
  SameSecond = FALSE
  MaxCommits = 5
  Workers = {w1, w2}
SYMMETRY MCSymmetry
INVARIANTS
  TypeOK
  OutcomeIsFinal
PROPERTIES
  HistoryOnlyGrows
  AtomicJournal
