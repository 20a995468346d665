SPECIFICATION Spec
CONSTANTS
  MaxRecent = 2
  MaxOrders = 3
  QueueLimit = 2
  Quantities = {0, 1, 3, 500}
INVARIANTS
  TypeOK
  GapsOnlyByLoss
PROPERTIES
  StatusesMoveForward
CHECK_DEADLOCK FALSE
