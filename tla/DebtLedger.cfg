SPECIFICATION Spec
CONSTANTS
  a = a
  b = b
  Callers = {a, b}
  System = System
  Debtors = {a}
  Rules <- TheRules
  Graces = {1}
  SystemGrace = 1
  DefaultRetries = 1
  DefaultProtection = 1
  Bounds <- TheBounds
  MaxCount = 2
  Window = 1
INVARIANTS
  LedgerIsSound
PROPERTIES
  DebtsAreSettled
  RestrictionsFollowDebts
CHECK_DEADLOCK FALSE
