SPECIFICATION Spec
CONSTANTS
  None = None
  Requests = {r1, r2, r3}
  Kinds <- AllKinds
  Orchestrators = {r1, r2, r3}
  OrchestratorOf <- PerRequest
  FaultSites <- AllFaultSites
  MaxFaults = 1
  MaxCrashes = 1
  MaxDrops = 1
  MaxServing = 2
SYMMETRY Symmetry
INVARIANTS LockHasHolder CheckpointAnswerable
PROPERTIES DecisionsAreFinal
