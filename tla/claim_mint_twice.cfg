SPECIFICATION Spec
CONSTANTS
  Agents = {a}
  Platform = p
  Threads = {auto, hook}
  Autopilot = auto
  None = None
  MaxFails = 1
  MaxSends = 2
  MaxPays = 0
  MaxBumps = 1
  MaxFaults = 0
INVARIANTS
  NeverMintsTwice
CHECK_DEADLOCK FALSE
