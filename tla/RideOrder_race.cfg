\* One order, two drivers, two handlers at a time, every fault.
SPECIFICATION Spec
CONSTANTS
  o1 = o1  o2 = o2  u1 = u1  d1 = d1  d2 = d2  r1 = r1  r2 = r2  c1 = c1  c2 = c2
  None = None
  Orders <- OneOrder
  Users <- OneUser
  Drivers <- TwoDrivers
  Reqs <- TwoReqs
  Codes <- TwoCodes
  InternalTargets <- ResetOrEnd
  Faults <- AllFaults
SYMMETRY Symmetry
CONSTRAINT NoLogYet
INVARIANTS IInv UpdateByHolder EffectsOfCompletion
PROPERTIES ImplementsLifecycle UserCancelsBeforeTrip
CHECK_DEADLOCK FALSE
