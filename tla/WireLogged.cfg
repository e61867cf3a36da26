\* Two handles on one client, three requests, one streamed turn.
CONSTANTS
    Handles = {h1, h2}
    Built <- MCBuilt
    Ops <- MCOps
    TurnErrors <- MCTurnErrors
    MaxKeys = 2
    MaxTokens = 2
    MaxCalls = 3
    MaxSeeds = 1
    MaxDeltas = 1
    Burst = 1
SPECIFICATION WireSpec
INVARIANTS EveryAnswerLogged
SYMMETRY Symmetry
CHECK_DEADLOCK FALSE
