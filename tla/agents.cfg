SPECIFICATION Spec
CONSTANTS
  Agents = {a}
  Platform = p
  Threads = {auto, hook}
  Autopilot = auto
  None = None
  MaxFails = 1
  MaxSends = 3
  MaxPays = 1
  MaxBumps = 2
  MaxFaults = 1
INVARIANTS
  TypeOK
  MintsAreExplained
  NonceIsFresh
  RecordedIsMinted
CHECK_DEADLOCK FALSE
