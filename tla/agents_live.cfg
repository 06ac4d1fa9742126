SPECIFICATION FairSpec
CONSTANTS
  Agents = {a, p}
  Platform = p
  Threads = {auto}
  Autopilot = auto
  None = None
  MaxFails = 2
  MaxSends = 4
  MaxPays = 0
  MaxBumps = 2
  MaxFaults = 1
PROPERTIES
  AgentsRegister
CHECK_DEADLOCK FALSE
