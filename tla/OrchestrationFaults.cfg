SPECIFICATION Spec
CONSTANTS
  l1 = l1
  l2 = l2
  h1 = h1
  h2 = h2
  t1 = t1
  t2 = t2
  Locks <- OneLock
  Holders <- TwoHolders
  Txs <- OneTx
  LockLists <- JustOne
  TokenLists <- SomeTokens
  Quota = 5
  Saves = {TRUE, FALSE}
  MaxCount = 1
  MaxRestarts = 1
  NoHolder = NoHolder
  None = None
PROPERTY GivenUpMeansGivenUp
\* or, for the other counterexample: PROPERTY ObtainedIsRecorded
