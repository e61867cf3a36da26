CONSTANTS
    None = None
    Edits <- MCEdits
    Length <- MCLength
    Size <- MCSize
    Turns = {"a"}
    Workloads <- Sensitive
    Config <- Mixed
    Models <- MCModels
    Ttl = 1
    CatalogTimeout = 1
    MaxInternalTurns = 1
    MaxRounds = 0
    MaxItems = 1
    MaxCalls = 1
    MaxNow = 0
    MaxChanges = 0
SPECIFICATION Spec
INVARIANTS LocalStaysLocal
CHECK_DEADLOCK FALSE
