SPECIFICATION HandoverSpec
CONSTANTS
  a = a
  b = b
  c = c
  nobody = nobody
  l1 = l1
  l2 = l2
  t1 = t1
  r1 = r1
  r2 = r2
  root = root
  policy = policy
  Parties = {a, b, c}
  NoParty = nobody
  Locks = {l1, l2}
  Txs = {t1}
  Reservations = {r1, r2}
  Roots = {root}
  Subtree <- TheSubtree
  Policies = {policy}
  Firsts <- TheFirsts
  HandoverBounds <- TheBounds
INVARIANTS
  HandoverIsSound
PROPERTIES
  AllOrNothing
  OnlyTheGiverLoses
  HandoversEnd
