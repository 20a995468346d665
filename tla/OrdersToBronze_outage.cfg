SPECIFICATION Spec
CONSTANTS
  Queries = {"bronze"}
  Kinds = {"valid"}
  MaxOffset = 2
  MaxBatch = 1
  MaxTaskFailures = 1
  MaxRuns = 2
  MaxResets = 0
INVARIANTS
  NoRecordLost
CHECK_DEADLOCK FALSE
