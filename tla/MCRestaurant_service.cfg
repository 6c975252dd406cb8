SPECIFICATION Spec
CONSTANTS
  o1 = o1
  o2 = o2
  s1 = s1
  s2 = s2
  m1 = m1
  k1 = k1
  k2 = k2
  y1 = y1
  y2 = y2
  None = None
  Orders <- MCOrders
  Sessions <- MCSessions
  Items <- MCItems
  Clients <- MCClients
  Keys <- MCKeys
  MaxTable = 3
  MaxItem = 1
  Workloads <- MCWorkloads
SYMMETRY Symmetry
CHECK_DEADLOCK FALSE
INVARIANTS
  TypeOK
  StockAccounted
  ReservationMatchesOrder
  PaidOnceAndCooked
  ClosedTableIsEmpty
  OneCartPerKey
PROPERTY
  ImplementsFlow
