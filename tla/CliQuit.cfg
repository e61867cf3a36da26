CONSTANTS
  Calls <- MCCalls
  Tool <- MCTool
  Needs <- MCNeeds
  Words <- MCWords
  MaxAsked = 2
  AutoApply = FALSE
  EncryptedSessions = {2, 3, 4}
  MsgCap = 1
  CmdCap = 1
  MaxInputs = 3
  MaxEvents = 1
  MaxFaults = 0
SPECIFICATION FairSpec
PROPERTIES QuitEnds
CHECK_DEADLOCK FALSE
