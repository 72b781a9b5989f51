SPECIFICATION SceneSpec
CONSTANTS
  n1 = n1
  n2 = n2
  n3 = n3
  n4 = n4
  k1 = k1
  k2 = k2
  h1 = h1
  h2 = h2
  c1 = c1
  c2 = c2
  Nodes <- FourNodes
  Locks = {k1, k2}
  LockOf <- LockOfAll
  Holders = {h1, h2}
  Calls = {c1, c2}
  Costly = {n1}
  Modes = {FALSE, TRUE}
  MaxEdges = 6
  MaxCount = 2
  NoHolder = NoHolder
  None = None
SYMMETRY Symmetric
INVARIANTS
  OrderIsSound
  LeavesWithNothing
PROPERTIES
  KeepsPromise
