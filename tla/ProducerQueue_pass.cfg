SPECIFICATION FairSpec
CONSTANTS
  Topics = {"orders", "pageviews"}
  QueueLimit = 3
  Attempts = 3
  Timed = {1}
  Rounds = 2
INVARIANTS
  TypeOK
PROPERTIES
  FullUntilFlush
  StopTerminates
  StreamsUnlessWedged
CHECK_DEADLOCK FALSE
