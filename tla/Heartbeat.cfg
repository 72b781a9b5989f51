SPECIFICATION HeartbeatSpec
CONSTANTS
  k1 = k1
  k2 = k2
  k3 = k3
  nobody = nobody
  l1 = l1
  l2 = l2
  t1 = t1
  g1 = g1
  g2 = g2
  g3 = g3
  nogroup = nogroup
  Callers = {k1, k2, k3}
  Nobody = nobody
  Locks = {l1, l2}
  Txs = {t1}
  TxLocks <- TheTxLocks
  Groups = {g1, g2, g3}
  NoGroup = nogroup
  Bounds <- TheBounds
INVARIANTS
  DisposalIsSound
PROPERTIES
  OnlyTheLostLose
  GroupsFollow
  ChangesAreNoticed
