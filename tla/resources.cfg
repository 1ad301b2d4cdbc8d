\* One after the other, on small instances of each.
SPECIFICATION ResourcesSpec
CONSTANTS
  None = None
  j1 = j1
  g1 = g1
  g2 = g2
  api = api
  command = command
  a1 = a1
  a2 = a2
  Jobs = {j1}
  Groups = {g1, g2}
  Callers = {api}
  Commands = {command}
  Admins = {a1, a2}
  Amounts = {1}
  MaxRuntime = 2
  MaxAdmin = 4
  u1 = u1
  b1 = b1
  b2 = b2
  r1 = r1
  r2 = r2
  Users = {u1}
  Builds = {b1, b2}
  Requests = {r1, r2}
  MaxJobs = 1
  MaxRestarts = 1
  MaxCancels = 1
  j2 = j2
  q1 = q1
  q2 = q2
  PortJobs = {j1, j2}
  Ports = {q1, q2}
  MaxWanted = 2
  MaxRequeues = 1
  y1 = y1
  y2 = y2
  m1 = m1
  m2 = m2
  Payers = {y1, y2}
  Nights = {m1, m2}
  MaxPaths = 2
  MaxChanges = 1
  MaxNights = 2
  p1 = p1
  p2 = p2
  h1 = h1
  h2 = h2
  Projects = {p1, p2}
  Tools = {"notebook"}
  Environments = {"lico_env"}
  Handlers = {h1, h2}
  MaxSessions = 2
SYMMETRY Interchangeable
CHECK_DEADLOCK FALSE
INVARIANTS ResourcesTypeOK BilledOnce   WorkspacesFreed  PortsApart StorageOnce EnvironmentKept
PROPERTIES ImplementsAccount
