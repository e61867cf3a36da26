SPECIFICATION Spec
CONSTANTS
  None = None
  Requests = {r1, r2, r3}
  Kinds = {"execute", "tool_results"}
  Orchestrators = {r1, r2, r3}
  OrchestratorOf <- PerRequest
  FaultSites = {}
  MaxFaults = 0
  MaxCrashes = 0
  MaxDrops = 0
  MaxServing = 2
INVARIANTS AlwaysAnswerable
