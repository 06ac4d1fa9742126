SPECIFICATION Spec
CONSTANTS
  Tasks = {t1, t2}
  Handlers = {h1}
  None = None
  Total = 1
  MaxRunning = 1
  RunBatch = 2
  DailyBudget = 1
  MaxAttempts = 2
  MaxFails = 2
  MaxCrashes = 0
SYMMETRY RunSymmetry
INVARIANTS
  StartedIsPaid
  BudgetNearlyKept
CHECK_DEADLOCK FALSE
