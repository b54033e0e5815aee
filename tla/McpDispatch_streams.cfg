SPECIFICATION FairSpec
CONSTANTS
  c1 = c1
  c2 = c2
  Conns = {c1, c2}
  StdioConn = c1
  Transports = {"stdio", "daemon"}
  Lines <- MCLines
  Leavers = {c1}
  NoLine = NoLine
  Anonymous = Anonymous
  Eof = Eof
  OverLong = OverLong
  Faults = {"crash", "hang", "long"}
INVARIANTS
  TypeOK
  CancelsStayHome
  NothingLostAtExit
  RequestsAreTracked
PROPERTIES
  RequestsEnd
CHECK_DEADLOCK FALSE
