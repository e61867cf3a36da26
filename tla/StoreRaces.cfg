CONSTANTS
    Requests = {"a", "b"}
    None = None
    Workloads <- Pairs
    Initial <- Found
    TokenTtl = 1
    SessionDays = 0
    ArchivedDays = 1
    TraceDays = 0
    MaxDay = 2
    MaxFaults = 1
SPECIFICATION Spec
INVARIANTS NoOrphans Paired
PROPERTIES DeletedStaysDeleted SignedOutStaysOut RetentionKeeps
