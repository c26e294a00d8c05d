SPECIFICATION CatalogOnly
CONSTANTS
  b1 = b1  b2 = b2  e1 = e1  e2 = e2  e3 = e3
  k1 = k1  k2 = k2  n1 = n1  n2 = n2
  refund = refund  lookup = lookup  pay = pay
  ledger = ledger  ledgers = ledgers  crm = crm
  skill = skill  pack = pack  acme = acme
  Clerks = {b1, b2}
  Emails = {e1, e2, e3}
  Roles = {"admin"}
  RosterCap = 1
  MaxAsks = 3
  MaxBlips = 1
  Desks = {k1, k2}
  Nodes = {n1, n2}
  NodeOf <- OnePerNode
  Aliases = {refund, lookup, pay}
  Targets = {ledger, ledgers, crm}
  Related <- MCRelated
  Config <- MCConfig
  Bodies <- MCBodies
  Submissions = {skill, pack}
  ManifestOf <- MCManifestOf
  Namespaces = {acme}
  OverlayCap = 2
  PendingCap = 2
  MaxRequests = 4
  MaxMishaps = 2
  v1 = v1  v2 = v2  aws = aws  s1 = s1  s2 = s2  m1 = m1  m2 = m2  hr = hr
  None = None
  Host = Host
  Callers = {v1, v2}
  Envs = {aws}
  Secrets = {s1, s2}
  Materials = {m1, m2}
  Compartments = {hr}
  EnvCap = 1
  VaultCap = 1
  MaxCalls = 4
  MaxFailures = 1
  o1 = o1  o2 = o2  root = root  aide = aide  q1 = q1  q2 = q2
  Orders = {o1, o2}
  Officers = {root, aide}
  Tools = {pay}
  Papers = {"policy", "directory"}
  Contents = {"valid"}
  NoPaper = NoPaper
  Queries = {q1, q2}
  MaxOrders = 2
  MaxHiccups = 1
  g1 = g1  g2 = g2  anyClass = anyClass
  Calls = {g1, g2}
  Kinds <- MCKinds
  RuleLists <- MCRuleLists
  NoDocument = NoDocument
  Damaged = Damaged
  MaxEdits = 2
  MaxOutages = 1
INVARIANTS RowKeepsItsPin
CHECK_DEADLOCK FALSE
