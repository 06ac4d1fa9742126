SPECIFICATION Spec
CONSTANTS
  Auths = {a1}
  Insights = {}
  Requests = {r1, r2, r3}
  Autopilot = Autopilot
  None = None
  SelfSettled = TRUE
  Slots = 1
  Outages = TRUE
  MaxCrashes = 1
SYMMETRY RequestSymmetry
INVARIANTS
  TypeOK
  SlotsConserved
  OneSettleCall
PROPERTIES
  SettledIsFinal
CHECK_DEADLOCK FALSE
