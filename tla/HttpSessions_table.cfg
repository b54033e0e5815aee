SPECIFICATION FairSpec
CONSTANTS
  Clients = {c1}
  Streams = {s1, s2}
  NoStream = NoStream
  MaxSessions = 2
  IdleTimeout = 2
  Interval = 1
  Faults = {"crash", "drop"}
INVARIANTS
  TypeOK
  LivesWhileUsed
  DeadStreamsAreDropped
PROPERTIES
  ExchangesEnd
