SPECIFICATION FairSpec
CONSTANTS
  l1 = l1
  l2 = l2
  h1 = h1
  h2 = h2
  h3 = h3
  Locks <- OneLock
  Holders <- ThreeHolders
  Gold <- OneGold
  Modes = {TRUE, FALSE}
  LeaseSecs = {2}
  CooldownSecs = {1}
  WaitTimeout = 1
  NoHolder = NoHolder
  NoTimer = NoTimer
  MaxRemaining = 2
  MaxCount = 2
  MaxStray = 2
  MaxDowntime = 2
INVARIANTS
  LocksAreSound
PROPERTIES
  QueueIsFair
  LeasesAndWaitsEnd
