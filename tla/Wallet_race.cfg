\* Two handlers: statements may fail, and the process may die between any two transactions.
SPECIFICATION Spec
CONSTANTS
  u1 = u1  u2 = u2  r1 = r1  r2 = r2  f1 = f1  f2 = f2
  None = None
  Users <- TwoUsers
  Reqs <- TwoReqs
  Refs <- TwoRefs
  Amounts <- OfBothSigns
  Faults <- Crashes
SYMMETRY Symmetry
CONSTRAINT FewRows
INVARIANTS IInv LedgerChain NoOverdraft TransferSettled TransferBacked
CHECK_DEADLOCK FALSE
