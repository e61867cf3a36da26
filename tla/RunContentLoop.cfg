SPECIFICATION FairSpec
CONSTANTS
    Encryption = {TRUE}
    Injects = TRUE
    Echoes = TRUE
    Omissions = {}
    MaxTexts = 3
    MaxMessages = 6
    None = None
PROPERTIES
    DecryptEnds
