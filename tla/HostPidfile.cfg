CONSTANTS
  Pids = {1, 2, 3}
  Commands <- Routers
  Configs <- MCConfigs
  MaxLaunches = 2
  MaxCrashes = 0
  MaxFaults = 0
SPECIFICATION Spec
INVARIANTS
  AlwaysNamed
CHECK_DEADLOCK FALSE
