CONSTANTS
  Calls <- MCCalls
  Tool <- MCTool
  Needs <- MCNeeds
  Words <- MCWords
  MaxAsked = 2
  AutoApply = FALSE
  EncryptedSessions = {}
  MsgCap = 1
  CmdCap = 2
  MaxInputs = 2
  MaxEvents = 1
  MaxFaults = 0
SPECIFICATION Spec
CHECK_DEADLOCK FALSE
INVARIANTS AnswersOneToOne
