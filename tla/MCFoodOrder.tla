---------------------------- MODULE MCFoodOrder ----------------------------
(* Small instances of FoodOrder. *)
EXTENDS FoodOrder, TLC

CONSTANTS o1, u1, d1, d2, r1, r2
OneOrder == {o1}
OneUser == {u1}
OneDriver == {d1}
TwoReqs == {r1, r2}
Symmetry == Permutations(TwoReqs)
=============================================================================
