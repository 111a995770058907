\* Two concurrent drainers of each table beside a handler.
CONSTANTS
  h1 = h1  h2 = h2  h3 = h3  d1 = d1  d2 = d2  x1 = x1  x2 = x2
  c1 = c1  c2 = c2  m1 = m1  v1 = v1  u1 = u1
  q1 = q1  q2 = q2  s1 = s1  s2 = s2
  i1 = i1  i2 = i2  n1 = n1  g1 = g1  g2 = g2
  None = None
  Orgs <- MCOrgs
  Rows = {i1, i2, n1, g1, g2}
  Script <- ScriptOf
  OrgOf <- MCOrgOf
  Batch = 2
  Handlers = {h1}
  QueueDrainers = {d1, d2}
  OutboxDrainers = {x1, x2}
  SyncOps = {c1}
  QueueOps = {q1, q2}
  SwitchOps = {s1}
  MaxClock = 4
SPECIFICATION Spec
INVARIANTS TypeOK ChainedOnce OwedOrChained
PROPERTIES AppendOnly ImplementsLog
SYMMETRY DrainerSymmetry
CHECK_DEADLOCK FALSE
