SPECIFICATION FairSpec
CONSTANTS
  Sims = {s1, s2}
  Orders = {}
  Products = {p1, p2}
  NoSim = NoSim
  NoRow = NoRow
  InitialStock = 2
  InsertLimit = 2
  OrderLimit = 2
  SellLimit = 2
  RestockLimit = 1
  SellAbove = 1
  SellMax = 2
  RestockBelow = 1
  RestockMin = 1
  RestockMax = 1
INVARIANTS
  StockNeverNegative
  StockBounded
PROPERTIES
  CyclesEnd
  StopEndsThread
