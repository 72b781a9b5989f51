SPECIFICATION Spec
CONSTANTS
  o1 = o1
  o2 = o2
  c1 = c1
  c2 = c2
  Controllers <- OneController
  Clients <- OneClient
  Boot = Boot
  Loop = o1
  Nobody = Nobody
  MaxRows = 1
  Restarts = FALSE
INVARIANT NobodyWaitsInACircle
CHECK_DEADLOCK FALSE
\* The counterexample of the boot: Clients = {} and Restarts = TRUE
