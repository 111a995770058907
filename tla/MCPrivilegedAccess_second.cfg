\* One handler at a time: a second request for the same member and asset.
SPECIFICATION Spec
CONSTANTS
  None = None
  g1 = g1  g2 = g2
  m1 = m1  m2 = m2  m3 = m3
  a1 = a1  a2 = a2
  h1 = h1  h2 = h2
  p1 = p1  p2 = p2
  Grants = {g1, g2}
  Members = {m1, m2}
  SubjectOf <- TwoGrants
  Assets = {a1}
  AssetOf <- SameAsset
  Required = 1
  Handlers = {h1}
  Publishers = {p1}
  Reconciling = FALSE
  Batch = 2
  MaxTx = 4
  History = FALSE

INVARIANTS ActiveProjected
CHECK_DEADLOCK FALSE
