\* A caller that repeats a debit with the same reference.
SPECIFICATION Spec
CONSTANTS
  u1 = u1  u2 = u2  r1 = r1  r2 = r2  f1 = f1  f2 = f2
  None = None
  Users <- TwoUsers
  Reqs <- TwoReqs
  Refs <- TwoRefs
  Amounts <- OneTwo
  Faults <- NoFaults
SYMMETRY Symmetry
INVARIANT DebitIdempotent
CHECK_DEADLOCK FALSE
