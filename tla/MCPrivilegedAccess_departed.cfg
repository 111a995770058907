\* One handler at a time: the requester leaves before the approval.
SPECIFICATION Spec
CONSTANTS
  None = None
  g1 = g1  g2 = g2
  m1 = m1  m2 = m2  m3 = m3
  a1 = a1  a2 = a2
  h1 = h1  h2 = h2
  p1 = p1  p2 = p2
  Grants = {g1}
  Members = {m1, m2}
  SubjectOf <- OneGrant
  Assets = {a1}
  AssetOf <- OneAsset
  Required = 1
  Handlers = {h1}
  Publishers = {}
  Reconciling = FALSE
  Batch = 1
  MaxTx = 4
  History = FALSE

INVARIANTS DepartedHoldsNothing
CHECK_DEADLOCK FALSE
