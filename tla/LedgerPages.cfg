SPECIFICATION LedgerSpec
CONSTANTS
    t1 = t1
    t2 = t2
    TurnIds = {t1, t2}
    PlanTurns = {t1}
    Models = {"local", "cloud"}
    Routes <- OneRoute
    Rates <- MCRates
    Usages <- OneUsage
    Absent = Absent
    PageLimit = 2
    Encrypted = FALSE
    SharedOrchestrator = FALSE
    MaxInvocations <- OnlyPlansCall
    Sweeps = {1, 4}
    MaxReads = 1
    MaxExtras = 1
INVARIANTS PagesComplete RepeatsAreLate
CHECK_DEADLOCK FALSE
