SPECIFICATION Spec
CONSTANTS
    Encryption = {TRUE}
    Injects = FALSE
    Echoes = TRUE
    Omissions = {}
    MaxTexts = 2
    MaxMessages = 6
    None = None
INVARIANTS
    ResultsAlwaysSeen
