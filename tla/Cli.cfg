CONSTANTS
  Calls <- MCCalls
  Tool <- MCTool
  Needs <- MCNeeds
  Words <- MCWords
  MaxAsked = 2
  AutoApply = FALSE
  EncryptedSessions = {2, 3, 4}
  MsgCap = 1
  CmdCap = 2
  MaxInputs = 3
  MaxEvents = 1
  MaxFaults = 1
SPECIFICATION Spec
INVARIANTS ExecutedOnce AnswersFit TuiFollows PromptShown
PROPERTIES ApprovedOnly
CHECK_DEADLOCK FALSE
