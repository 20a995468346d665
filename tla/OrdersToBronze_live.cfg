SPECIFICATION FairSpec
CONSTANTS
  Queries = {"bronze", "realtime"}
  Kinds = {"valid"}
  MaxOffset = 2
  MaxBatch = 1
  MaxTaskFailures = 1
  MaxRuns = 1
  MaxResets = 1
PROPERTIES
  NoHalfJob
  RunningJobCatchesUp
CHECK_DEADLOCK FALSE
