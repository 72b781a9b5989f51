SPECIFICATION SceneSpec
CONSTANTS
  l1 = l1
  l2 = l2
  h1 = h1
  h2 = h2
  h3 = h3
  n1 = n1
  n2 = n2
  n3 = n3
  n4 = n4
  Nodes <- FourNodes
  Locks <- TwoLocks
  Holders <- ThreeHolders
  Gold = {}
  Modes = {FALSE}
  LeaseSecs = {1}
  CooldownSecs = {}
  WaitTimeout = 1
  NoHolder = NoHolder
  NoTimer = NoTimer
  MaxRemaining = 1
  MaxCount = 1
  MaxStray = 1
  MaxDowntime = 0
INVARIANTS
  AnswerIsRight
PROPERTIES
  ImplementsLockService
  CyclesComeFromHandOff
  SearchEnds
SYMMETRY Sym
CHECK_DEADLOCK FALSE
