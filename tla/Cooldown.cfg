SPECIFICATION Spec
CONSTANTS
  o1 = o1
  o2 = o2
  c1 = c1
  c2 = c2
  Controllers <- TwoControllers
  Clients <- TwoClients
  Boot = Boot
  Loop = o1
  Nobody = Nobody
  MaxRows = 3
  Restarts = TRUE
INVARIANTS
  CooldownIsSound
PROPERTIES
  ResolvedStaysResolved
CHECK_DEADLOCK FALSE
