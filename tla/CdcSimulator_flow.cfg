SPECIFICATION Spec
CONSTANTS
  Sims = {s1}
  Orders = {o1, o2, o3}
  Products = {}
  NoSim = NoSim
  NoRow = NoRow
  InitialStock = 3
  InsertLimit = 2
  OrderLimit = 2
  SellLimit = 2
  RestockLimit = 1
  SellAbove = 2
  SellMax = 2
  RestockBelow = 4
  RestockMin = 3
  RestockMax = 3
SYMMETRY Symmetry
INVARIANTS
  TypeOK
PROPERTIES
  StatusesFollowFlow
