SPECIFICATION FairSpec
CONSTANTS
  None = None
  Requests = {r1, r2, r3}
  Kinds = {"execute", "tool_results", "break"}
  Orchestrators = {r1, r2, r3}
  OrchestratorOf <- PerRequest
  FaultSites = {}
  MaxFaults = 0
  MaxCrashes = 1
  MaxDrops = 0
  MaxServing = 2
PROPERTIES LockReleased BreakUnlocks
