\* Synchronous writers only: cascades over two organizations, a membership
\* revocation with two grants, a revocation of one of them, an operation
\* without an emitter.
CONSTANTS
  h1 = h1  h2 = h2  h3 = h3  d1 = d1  d2 = d2  x1 = x1  x2 = x2
  c1 = c1  c2 = c2  m1 = m1  v1 = v1  u1 = u1
  q1 = q1  q2 = q2  s1 = s1  s2 = s2
  i1 = i1  i2 = i2  n1 = n1  g1 = g1  g2 = g2
  None = None
  Orgs <- MCOrgs
  Rows = {i1, i2, n1, g1, g2}
  Script <- ScriptOf
  OrgOf <- MCOrgOf
  Batch = 2
  Handlers = {h1, h2, h3}
  QueueDrainers = {}
  OutboxDrainers = {}
  SyncOps = {c1, c2, m1, v1, u1}
  QueueOps = {}
  SwitchOps = {}
  MaxClock = 0
SPECIFICATION FairSpec
INVARIANTS ChainIntact AuditOrDeny NoHeadCycle
PROPERTIES TxEnds
CHECK_DEADLOCK FALSE
