SPECIFICATION QuotaSpec
CONSTANTS
  k1 = k1
  k2 = k2
  window = window
  Callers = {k1, k2}
  Policies = {window}
  Algorithm <- TheAlgorithm
  MaxTokens <- TheMaximum
  Bounds <- TheBounds
INVARIANTS
  QuotaIsSound
PROPERTIES
  PromisesAreKept
  QueueIsServed
CHECK_DEADLOCK FALSE
