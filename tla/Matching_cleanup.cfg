\* A dispatch is cancelled while its loop is about to write the session.
SPECIFICATION Spec
CONSTANTS
  d1 = d1  d2 = d2   o1 = o1  o2 = o2  r1 = r1  r2 = r2
  None = None
  Drivers <- TwoDrivers
  Orders <- OneOrder
  Reqs <- TwoReqs
  MaxRounds = 2
  Env <- Cancels
SYMMETRY Symmetry
INVARIANT CancelCleans
CHECK_DEADLOCK FALSE
