SPECIFICATION FairSpec
CONSTANTS
  Shims = {a1, a2}
  None = None
  Faults = {"slow", "exec", "listener", "conn", "kill", "term"}
  MaxTrouble = 1
INVARIANTS TypeOK DaemonIsShared
PROPERTIES IdleMeansIdle AllSettle
CHECK_DEADLOCK FALSE
