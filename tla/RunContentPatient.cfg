SPECIFICATION FairSpec
CONSTANTS
    Encryption = {TRUE}
    Injects = FALSE
    Echoes = TRUE
    Omissions = {"message", "run_input", "tool_call", "plan"}
    MaxTexts = 4
    MaxMessages = 8
    None = None
INVARIANTS
    PauseAnswerable
    UserMessageFirst
PROPERTIES
    AskedIsEnough
    DecryptEnds
