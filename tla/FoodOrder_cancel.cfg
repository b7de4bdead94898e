\* A cancel granted while the order was pending is written after the kitchen has started.
SPECIFICATION Spec
CONSTANTS
  o1 = o1  u1 = u1  d1 = d1  d2 = d2  r1 = r1  r2 = r2
  None = None
  Orders <- OneOrder
  Users <- OneUser
  Drivers <- OneDriver
  Reqs <- TwoReqs
  Faults = FALSE
PROPERTIES NoLateUserCancel
CHECK_DEADLOCK FALSE
