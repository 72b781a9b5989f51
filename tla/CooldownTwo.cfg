SPECIFICATION Spec
CONSTANTS
  o1 = o1
  o2 = o2
  c1 = c1
  c2 = c2
  Controllers <- TwoControllers
  Clients = {}
  Boot = Boot
  Loop = o1
  Nobody = Nobody
  MaxRows = 2
  Restarts = FALSE
INVARIANT AccelerationFollowsRow
CHECK_DEADLOCK FALSE
\* or, for the other counterexample: PROPERTY NeverRevived
