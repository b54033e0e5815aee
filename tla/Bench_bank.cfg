SPECIFICATION Spec
CONSTANTS
  Worlds <- MCWorlds
  KINDS <- MCKinds
  Modes <- MCModes
  Target = 3
  Arms <- MCArms
  Trials = 2
  Limit = 2
  Harnesses <- MCHarnesses
  Outcomes <- MCOutcomes
  basename <- MCbasename
  Identifiers <- MCIdentifiers
  MaxFail = 1
INVARIANTS TypeOK QuestionsAreSound ComparisonIsFair
\* A pass ends, and may abort.
CHECK_DEADLOCK FALSE
