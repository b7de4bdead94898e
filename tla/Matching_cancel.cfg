\* A dispatch is cancelled while its candidate claims orders.
SPECIFICATION Spec
CONSTANTS
  d1 = d1  d2 = d2   o1 = o1  o2 = o2  r1 = r1  r2 = r2
  None = None
  Drivers <- OneDriver
  Orders <- TwoOrders
  Reqs <- TwoReqs
  MaxRounds = 1
  Env <- Cancels
SYMMETRY Symmetry
INVARIANT NoDoubleAssignment
CHECK_DEADLOCK FALSE
