SPECIFICATION FairSpec
CONSTANTS
  Options <- MCOptions
  TARGETS <- MCTargets
  PER_LANG_TOOLS <- MCPerLang
  GLOBAL_TOOLS <- MCGlobal
  DEFAULT_FILTERED_TOOLS = {"lsp_request_raw", "runtime_processes"}
  MemoryCells <- MCMemory
  BROKEN_LSP_THRESHOLD = 2
  MaxOdd = 1
INVARIANTS
  TypeOK
  RowsAreEarned
  CallsAreSettled
  MatrixIsHonest
PROPERTIES
  PassEnds
CHECK_DEADLOCK FALSE
