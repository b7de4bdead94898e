----------------------------- MODULE MCDispatch -----------------------------
(***************************************************************************)
(* Small instances of Dispatch for TLC.  In the first lane two drivers,    *)
(* one order, two rounds, drivers who go offline and keys that expire; in  *)
(* the second one driver and two orders offered to her at once, late,      *)
(* double and failing answers, crashes.                                    *)
(***************************************************************************)
EXTENDS Dispatch, TLC

CONSTANTS d1, d2, d3, o1, o2, o3, r1, r2
TwoDrivers == {d1, d2}
OneOrder   == {o1}
OneDriver  == {d3}
TwoOrders  == {o2, o3}
TwoReqs    == {r1, r2}
Calm       == {"offline", "expiry"}
Unruly     == {"slow", "twice", "free", "error", "crash"}
Symmetry   == Permutations(TwoDrivers) \cup Permutations({o2, o3}) \cup Permutations(TwoReqs)
=============================================================================
