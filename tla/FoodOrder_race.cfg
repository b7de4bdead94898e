\* One order and any two handlers at once; statements and calls may fail, handlers may die.
SPECIFICATION Spec
CONSTANTS
  o1 = o1  u1 = u1  d1 = d1  d2 = d2  r1 = r1  r2 = r2
  None = None
  Orders <- OneOrder
  Users <- OneUser
  Drivers <- OneDriver
  Reqs <- TwoReqs
  Faults = TRUE
SYMMETRY Symmetry
INVARIANTS IInv Stages EventsTruthful DriverCarries
CHECK_DEADLOCK FALSE
