SPECIFICATION FairSpec
CONSTANTS
  Requests = 4
  Notes = {2}
  Styles = {"batch", "serial", "http"}
  PipeSize = 3
  LogSize = 2
  Faults = {"crash", "torn"}
INVARIANTS
  TypeOK
  EveryLineArrives
PROPERTIES
  ServicePromise
CHECK_DEADLOCK FALSE
