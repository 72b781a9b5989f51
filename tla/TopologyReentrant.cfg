SPECIFICATION WholeSpec
CONSTANTS
  n1 = n1
  n2 = n2
  n3 = n3
  n4 = n4
  k1 = k1
  k2 = k2
  h1 = h1
  h2 = h2
  c1 = c1
  c2 = c2
  Nodes = {n1, n2, n3}
  Locks = {k1, k2}
  LockOf <- LockOfAll
  Holders = {h1}
  Calls = {c1}
  Costly = {}
  Modes = {TRUE}
  MaxEdges = 3
  MaxCount = 2
  NoHolder = NoHolder
  None = None
PROPERTY RollbackReleases
