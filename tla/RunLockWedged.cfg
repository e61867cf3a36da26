SPECIFICATION FairSpec
CONSTANTS
  None = None
  Requests = {r1, r2}
  Kinds = {"execute", "tool_results"}
  Orchestrators = {r1, r2}
  OrchestratorOf <- PerRequest
  FaultSites = {}
  MaxFaults = 0
  MaxCrashes = 1
  MaxDrops = 0
  MaxServing = 3
PROPERTIES NeverWedged
