CONSTANTS
  Pids = {1, 2, 3}
  Commands <- MCCommands
  Configs <- MCConfigs
  MaxLaunches = 3
  MaxCrashes = 1
  MaxFaults = 1
SPECIFICATION Spec
INVARIANTS NoneLeftBehind SecretsKept SessionsReadable
CHECK_DEADLOCK FALSE
