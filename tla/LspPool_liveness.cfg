SPECIFICATION FairSpec
CONSTANTS
  k1 = k1
  k2 = k2
  Keys = {k1}
  Groups <- MCGroups
  Selections <- MCSelections
  Unprobed = {}
  Callers = {c1}
  Docs = {u1}
  Pids = {p1, p2}
  Workers = {w1, w2}
  Faults = {"proc_crash", "worker_crash", "dyn_sup_down", "pool_crash", "shutdown"}
  NoPid = NoPid
PROPERTIES
  ServiceLiveness
  DeadProcIsDropped
INVARIANTS
  OpenedAtCachedProc
