CONSTANTS
    None = None
    Edits <- MCEdits
    Length <- MCLength
    Size <- MCSize
    Turns = {"a"}
    Workloads <- Single
    Config <- Mixed
    Models <- MCModels
    Ttl = 1
    CatalogTimeout = 1
    MaxInternalTurns = 2
    MaxRounds = 1
    MaxItems = 3
    MaxCalls = 2
    MaxNow = 1
    MaxChanges = 1
SPECIFICATION FairSpec
INVARIANTS LocalFirst ContextFits TextKept OneVoice
PROPERTIES InvocationEnds
CHECK_DEADLOCK FALSE
