SPECIFICATION Spec
CONSTANTS
    Encryption = {TRUE, FALSE}
    Injects = TRUE
    Echoes = TRUE
    Omissions = {"message", "run_input", "tool_call", "plan"}
    MaxTexts = 4
    MaxMessages = 8
    None = None
INVARIANTS
    StoredSealed
    PlaceholderNeverParsed
    NoPlanAfterApproval
    ModelSeesResults
PROPERTIES
    SealedLeavesNothingClear
