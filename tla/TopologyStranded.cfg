SPECIFICATION WholeSpec
CONSTANTS
  n1 = n1
  n2 = n2
  n3 = n3
  n4 = n4
  k1 = k1
  k2 = k2
  h1 = h1
  h2 = h2
  c1 = c1
  c2 = c2
  Nodes = {n1, n2}
  Locks = {k1, k2}
  LockOf <- LockOfAll
  Holders = {h1, h2}
  Calls = {c1, c2}
  Costly = {}
  Modes = {FALSE}
  MaxEdges = 1
  MaxCount = 1
  NoHolder = NoHolder
  None = None
PROPERTY NoWaitIsLeft
\* or, for the other counterexample: PROPERTY BooksWhatItHolds
