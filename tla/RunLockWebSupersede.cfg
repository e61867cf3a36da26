SPECIFICATION Spec
CONSTANTS
  None = None
  Requests = {r1, r2, r3}
  Kinds = {"execute", "break"}
  Orchestrators = {r1, r2, r3}
  OrchestratorOf <- PerRequest
  FaultSites = {}
  MaxFaults = 0
  MaxCrashes = 0
  MaxDrops = 0
  MaxServing = 3
INVARIANTS OneUncancelled
