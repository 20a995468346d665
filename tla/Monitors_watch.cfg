SPECIFICATION WatchSpec
CONSTANTS
  Watched <- Samples
  Suites = {0, 1}
INVARIANTS
  TypeOK
  ReportAgreesWithAlerts
  NoSilentCheck
  GateTruthful
PROPERTIES
  MonitorRunsEnd
CHECK_DEADLOCK FALSE
