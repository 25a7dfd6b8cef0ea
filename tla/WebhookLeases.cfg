SPECIFICATION Spec
CONSTANTS
  d1 = d1
  d2 = d2
  d3 = d3
  r1 = r1
  r2 = r2
  t1 = t1
  t2 = t2
  t3 = t3
  i1 = i1
  i2 = i2
  Digests = {d1}
  Requests = {r1}
  RequestOf <- MCRequestOf
  Issues = {issue1}
  Deliveries = {g1}
  Instances = {i1, i2}
  ExecutionLease = 1
  PublicationLease = 1
  MaxTime = 3
  NoValue = NoValue
  Threads = {t1, t2, t3}
  InstanceOf <- MCInstanceOf
  Created <- MCCreated
  Expires <- MCExpires
SYMMETRY MCSymmetry
INVARIANTS
  TypeOK
  ValidatedOnce
  OneTerminalPost
  PostedIsStored
  SentIsPublished
  LiveLeaseHolds
PROPERTIES
  LedgerPromise
