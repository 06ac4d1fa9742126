SPECIFICATION FairSpec
CONSTANTS
  Auths = {a1}
  Insights = {a1}
  Requests = {r1}
  Autopilot = Autopilot
  None = None
  SelfSettled = FALSE
  Slots = 1
  Outages = FALSE
  MaxCrashes = 0
PROPERTIES
  OwnerEventuallyPaid
CHECK_DEADLOCK FALSE
