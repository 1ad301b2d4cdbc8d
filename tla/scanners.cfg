\* One service after the other, on small instances of each.
SPECIFICATION Spec
CONSTANTS
  None = None
  p1 = p1
  n1 = n1
  w1 = w1
  w2 = w2
  Policies = {p1}
  Nodes = {n1}
  Devices = {1}
  Workers = {w1, w2}
  Groups = {{}, {n1}}
  MaxQueue = 2
  MaxFailures = 1
  MaxRequests = 2
  i1 = i1
  c1 = c1
  c2 = c2
  c3 = c3
  Images = {i1}
  Copies = {c1, c2, c3}
  MaxEdits = 2
  MaxTriggers = 1
  MaxKills = 1
  o1 = o1
  Openers = {o1}
  MaxBoards = 2
CHECK_DEADLOCK FALSE
INVARIANTS TypeOK OneOpenAlert NoticePerAlert   
PROPERTIES LastingRaised ImageSettles DeletedStays OneOffServed IdleStopped
