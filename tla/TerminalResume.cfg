SPECIFICATION TerminalSpec
CONSTANTS
  Letters = {"a", "b"}
  Names <- MCNames
  KindOf <- MCKindOf
  Listing <- MCEntries
  Models <- MCModels
  SessionIds <- MCSessionIds
  AutoName <- MCAuto
  Pastes <- MCPastes
  HistoryLimit = 1
  PageStep = 2
  MaxText = 4
  MaxKeys = 5
  MaxMsgs = 2
INVARIANTS
  ResumedShown
CHECK_DEADLOCK FALSE
