SPECIFICATION SceneSpec
CONSTANTS
  a = a
  ab = ab
  abc = abc
  h1 = h1
  h2 = h2
  i1 = i1
  i2 = i2
  c1 = c1
  c2 = c2
  k1 = k1
  k2 = k2
  p1 = p1
  p2 = p2
  Root = Root
  NoPolicy = NoPolicy
  None = None
  Paths <- Chain
  Parent <- ParentInChain
  Policies = {p1, p2}
  Calls = {k1, k2}
  MaxGeneration = 3
  Fenced = {a}
  Holders = {h1, h2}
  Issuers = {i1, i2}
  Checkers = {c1, c2}
  LeaseSecs = {1}
  MaxSequence = 3
  MaxNow = 1
INVARIANTS
  ControlConsistent
  RestartChangesNothing
PROPERTIES
  RetiredStaysRetired
  DeadStaysDead
  AcceptedInOrder
SYMMETRY Sym
