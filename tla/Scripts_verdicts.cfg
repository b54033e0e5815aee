SPECIFICATION Spec
CONSTANTS
  Programs = {"suite", "adr029", "adr032"}
  Languages <- Specs
  SuiteTools = {"hover", "document_symbols", "workspace_symbols", "get_diagnostics", "position"}
  Locks <- MCLocks
  Projects <- MCProjects
  Forests <- MCForests
  MaxBroken = 2
  MaxLate = 1
INVARIANTS
  TypeOK
  RegressionsAreCaught
CHECK_DEADLOCK FALSE
