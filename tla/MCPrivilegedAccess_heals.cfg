\* The publisher and the reconciler run forever while two handlers race on a
\* grant that needs no approval (NewBreakglassPolicy permits it outside
\* production), so that most of the transactions can overlap.
SPECIFICATION FairSpec
CONSTANTS
  None = None
  g1 = g1  g2 = g2
  m1 = m1  m2 = m2  m3 = m3
  a1 = a1  a2 = a2
  h1 = h1  h2 = h2
  p1 = p1  p2 = p2
  Grants = {g1}
  Members = {m1}
  SubjectOf <- OneGrant
  Assets = {a1}
  AssetOf <- OneAsset
  Required = 0
  Handlers = {h1, h2}
  Publishers = {p1}
  Reconciling = TRUE
  Batch = 2
  MaxTx = 4
  History = FALSE

PROPERTIES EventuallyPublished StaleAccessHeals
CHECK_DEADLOCK FALSE
