SPECIFICATION Spec
CONSTANTS
  Clients = {c1, c2}
  NoClient = NoClient
  Methods = {"request", "publish"}
  Chatter = {"publish"}
  Faults = {"slow", "split", "error", "exit", "close"}
  MaxCalls = 2
  MaxFrames = 2
  Budget = 1
  Slack = 1
SYMMETRY MCSymmetry
INVARIANTS
  TypeOK
  CallsKeepTheirPlace
  HandledInOrder
CHECK_DEADLOCK FALSE
