SPECIFICATION Spec
CONSTANTS
  Auths = {a1}
  Insights = {}
  Requests = {r1}
  Autopilot = Autopilot
  None = None
  SelfSettled = TRUE
  Slots = 1
  Outages = FALSE
  MaxCrashes = 0
INVARIANTS
  FailedIsFree
CHECK_DEADLOCK FALSE
