----------------------------- MODULE MCRideOrder -----------------------------
(* Small instances of RideOrder for TLC. *)
EXTENDS RideOrder, TLC

CONSTANTS o1, o2, u1, d1, d2, r1, r2, c1, c2

OneOrder  == {o1}
TwoOrders == {o1, o2}
OneUser   == {u1}
TwoDrivers == {d1, d2}
TwoReqs   == {r1, r2}
TwoCodes  == {c1, c2}

NoFaults  == {}
AllFaults == {"db", "net", "crash"}
ResetOrEnd == {"finding_driver", "cancelled"}
NoInternal == {}

(* Bound: a state with a log row is checked and not explored further.  A log  *)
(* row is best effort and nothing reads it, so the runs in which it was lost   *)
(* reach everything else, and a row that is true stays true.                   *)
NoLogYet == log = {}

Symmetry == Permutations(Orders) \cup Permutations(TwoDrivers)
              \cup Permutations(TwoReqs) \cup Permutations(TwoCodes)
=============================================================================
