\* Rides, dispatches, deliveries and events, each by itself, with its fairness.
SPECIFICATION FairSpec
CONSTANTS
  r1 = r1  r2 = r2  o1 = o1  u1 = u1  d1 = d1  d2 = d2  c1 = c1
  None = None
PROPERTIES CompletedSettles OrderIsDispatched SearchEnds DeliverySettles CatchesUp
CHECK_DEADLOCK FALSE
