SPECIFICATION Spec
CONSTANTS
  l1 = l1
  l2 = l2
  h1 = h1
  h2 = h2
  h3 = h3
  Locks <- OneLock
  Holders <- TwoHolders
  Gold <- SecondGold
  Modes = {FALSE}
  LeaseSecs = {1, 2}
  CooldownSecs = {1}
  WaitTimeout = 1
  NoHolder = NoHolder
  NoTimer = NoTimer
  MaxRemaining = 2
  MaxCount = 1
  MaxStray = 2
  MaxDowntime = 1
PROPERTIES
  OnlyDeadLeasesExpire
