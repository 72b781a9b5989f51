SPECIFICATION BudgetSpec
CONSTANTS
  k1 = k1
  k2 = k2
  nobody = nobody
  l1 = l1
  l2 = l2
  Callers = {k1, k2}
  NoCaller = nobody
  Locks = {l1, l2}
  Gold = {k1}
  Bronze = {k2}
  None = None
  Bounds <- TheBounds
INVARIANTS
  BudgetIsSound
PROPERTIES
  AccountsAreSettled
