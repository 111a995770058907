\* Two approvers decide at the same time.
SPECIFICATION Spec
CONSTANTS
  None = None
  g1 = g1  g2 = g2
  m1 = m1  m2 = m2  m3 = m3
  a1 = a1  a2 = a2
  h1 = h1  h2 = h2
  p1 = p1  p2 = p2
  Grants = {g1}
  Members = {m1, m2, m3}
  SubjectOf <- OneGrant
  Assets = {a1}
  AssetOf <- OneAsset
  Required = 2
  Handlers = {h1, h2}
  Publishers = {p1}
  Reconciling = FALSE
  Batch = 2
  MaxTx = 5
  History = FALSE
INVARIANT QuorumActivates
CHECK_DEADLOCK FALSE
