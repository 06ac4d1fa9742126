SPECIFICATION Spec
CONSTANTS
  Auths = {a1}
  Insights = {a1}
  Requests = {r1, r2}
  Autopilot = Autopilot
  None = None
  SelfSettled = FALSE
  Slots = 1
  Outages = FALSE
  MaxCrashes = 1
SYMMETRY RequestSymmetry
INVARIANTS
  OneSettleCall
  ContentIsPaid
  FailedIsFree
  SettledIsCharged
  OwnerPaidOnce
  MarkerIsBacked
PROPERTIES
  SettledIsFinal
  KeepsPromise
CHECK_DEADLOCK FALSE
