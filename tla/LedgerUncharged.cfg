SPECIFICATION LedgerSpec
CONSTANTS
    t1 = t1
    TurnIds = {t1}
    PlanTurns = {t1}
    Models = {"local", "cloud"}
    Routes <- OneRoute
    Rates <- MCRates
    Usages <- OneUsage
    Absent = Absent
    PageLimit = 2
    Encrypted = FALSE
    SharedOrchestrator = FALSE
    MaxInvocations <- PlanCallsTwice
    Sweeps = {1}
    MaxReads = 0
    MaxExtras = 0
INVARIANT EveryCallCharged
CHECK_DEADLOCK FALSE
