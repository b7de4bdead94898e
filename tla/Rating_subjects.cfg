\* One submission names the driver and the merchant of an order.
SPECIFICATION Spec
CONSTANTS Reqs = {r1}  Orders = {o1}  Raters = {u1}  Subjects = {driver, merchant}  MaxRequests = 1  Faults = FALSE
INVARIANT RefusedOnlyIfRated
CHECK_DEADLOCK FALSE
