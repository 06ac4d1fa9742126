SPECIFICATION FairSpec
CONSTANTS
  Tasks = {t1}
  Handlers = {h1, h2}
  None = None
  Total = 1
  MaxRunning = 1
  RunBatch = 2
  DailyBudget = 3
  MaxAttempts = 2
  MaxFails = 2
  MaxCrashes = 1
INVARIANTS
  TypeOK
  DoneIsRecorded
  CallsAreBounded
  ExtraChecksAreBounded
  PaidRunStarts
PROPERTIES
  KeepsPromise
  EndedStaysEnded
  RunsEnd
CHECK_DEADLOCK FALSE
