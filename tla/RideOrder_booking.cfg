\* Two creations at once for one user: the check and the insert are not atomic.
SPECIFICATION Spec
CONSTANTS
  o1 = o1  o2 = o2  u1 = u1  d1 = d1  d2 = d2  r1 = r1  r2 = r2  c1 = c1  c2 = c2
  None = None
  Orders <- TwoOrders
  Users <- OneUser
  Drivers <- TwoDrivers
  Reqs <- TwoReqs
  Codes <- TwoCodes
  InternalTargets <- NoInternal
  Faults <- NoFaults
SYMMETRY Symmetry
INVARIANT OneActiveOrder
CHECK_DEADLOCK FALSE
