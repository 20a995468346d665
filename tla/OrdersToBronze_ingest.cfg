SPECIFICATION StudySpec
CONSTANTS
  Queries = {"bronze", "realtime"}
  Kinds = {"valid", "invalid", "foreign"}
  MaxOffset = 3
  MaxBatch = 2
  MaxTaskFailures = 2
  MaxRuns = 2
  MaxResets = 1
INVARIANTS
  TypeOK
  WriteAheadOrder
  BronzeAtMostOncePerEpoch
  BronzeAccounted
  RealtimeAccounted
  RealtimeCopiesBounded
PROPERTIES
  ReplaySameRange
  ImplementsOrderedIngest
CHECK_DEADLOCK FALSE
