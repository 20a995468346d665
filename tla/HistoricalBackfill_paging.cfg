SPECIFICATION FairSpec
CONSTANTS
  Rows = {"a", "b", "c", "d", "e", "u"}
  TableOf <- Table
  CreatedAt <- Created
  Confs <- Requests
  YearOf <- Year
  ChunkSize = 2
  MaxDays = 1
  MaxRuns = 2
INVARIANTS
  TypeOK
  ExportAccounted
  RepeatedOnlyByRace
  KeptUnlessRedone
PROPERTIES
  ExportEnds
CHECK_DEADLOCK FALSE
