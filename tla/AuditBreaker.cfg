SPECIFICATION SceneSpec
CONSTANTS
  a = a
  default = default
  k1 = k1
  k2 = k2
  p1 = p1
  p2 = p2
  nobody = nobody
  Callers = {a}
  Default = default
  Clients = {k1, k2}
  RuleSet <- TheRules
  MaxFailures = 2
  CrashBounds = {1}
  Plans = {p1, p2}
  PlanClients = {k1, k2}
  Nobody = nobody
  PlanBounds <- ThePlanBounds
INVARIANTS
  BreakersAreSound
  PlansAreSound
PROPERTIES
  CooldownIsKept
  PlansEnd
