SPECIFICATION LedgerSpec
CONSTANTS
    t1 = t1
    t2 = t2
    TurnIds = {t1, t2}
    PlanTurns = {}
    Models = {"local", "cloud"}
    Routes <- MCRoutes
    Rates <- MCRates
    Usages <- MCUsages
    Absent = Absent
    PageLimit = 3
    Encrypted = TRUE
    SharedOrchestrator = FALSE
    MaxInvocations <- CallsEach
    Sweeps = {1, 4}
    MaxReads = 0
    MaxExtras = 0
SYMMETRY Turns
INVARIANTS ReportAddsUp ChargedOnce RouteCarried
CHECK_DEADLOCK FALSE
