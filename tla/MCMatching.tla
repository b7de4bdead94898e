----------------------------- MODULE MCMatching -----------------------------
(* Small instances of Matching for TLC. *)
EXTENDS Matching, TLC

CONSTANTS d1, d2, o1, o2, r1, r2

OneDriver  == {d1}
TwoDrivers == {d1, d2}
OneOrder   == {o1}
TwoOrders  == {o1, o2}
TwoReqs    == {r1, r2}

Cancels    == {"cancel"}

Symmetry == Permutations(Drivers) \cup Permutations(Orders) \cup Permutations(Reqs)
=============================================================================
