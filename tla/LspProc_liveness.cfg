SPECIFICATION FairSpec
CONSTANTS
  Clients = {c1}
  NoClient = NoClient
  Methods = {"request", "rename", "publish"}
  Chatter = {"configuration", "publish"}
  Faults = {"slow", "error", "exit", "close"}
  MaxCalls = 2
  MaxFrames = 2
  Budget = 1
  Slack = 1
PROPERTIES
  LoopsAdvance
CHECK_DEADLOCK FALSE
