SPECIFICATION Spec
CONSTANTS
  k1 = k1
  k2 = k2
  Keys = {k1, k2}
  Groups <- MCGroups
  Selections <- MCSelections
  Unprobed = {k2}
  Callers = {c1, c2}
  Docs = {}
  Pids = {p1, p2}
  Workers = {w1, w2}
  Faults = {"proc_crash", "worker_crash", "pool_crash"}
  NoPid = NoPid
SYMMETRY MCSymmetry
INVARIANTS
  TypeOK
  WaitersHaveASpawner
  CallersServed
  FlightsApart
  CachedIsMonitored
PROPERTY
  ServiceSpec
