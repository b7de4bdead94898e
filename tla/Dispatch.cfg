\* Two drivers and an order, or a driver and two orders, late, double and failing answers, crashes.
SPECIFICATION LaneSpec
CONSTANTS
  d1 = d1  d2 = d2  d3 = d3  o1 = o1  o2 = o2  o3 = o3  r1 = r1  r2 = r2
  None = None
  Drivers <- TwoDrivers
  Orders <- OneOrder
  Reqs <- TwoReqs
  MaxRounds = 2
  Env <- Calm
  Drivers2 <- OneDriver
  Orders2 <- TwoOrders
  MaxRounds2 = 1
  Env2 <- Unruly
SYMMETRY Symmetry
INVARIANTS IInv OneDriverPerOrder UnrulyIsLocked
PROPERTY MatchFinal
CHECK_DEADLOCK FALSE
