SPECIFICATION Spec
CONSTANTS
  k1 = k1
  k2 = k2
  Keys = {k1}
  Groups <- MCGroups
  Selections <- MCSelections
  Unprobed = {}
  Callers = {c1, c2}
  Docs = {}
  Pids = {p1, p2}
  Workers = {w1, w2}
  Faults = {}
  NoPid = NoPid
PROPERTY
  RespawnsAfterExit
