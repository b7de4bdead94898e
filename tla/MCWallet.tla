------------------------------ MODULE MCWallet ------------------------------
(* Small instances of Wallet for TLC. *)
EXTENDS Wallet, TLC

CONSTANTS u1, u2, r1, r2, f1, f2

TwoUsers == {u1, u2}
TwoReqs  == {r1, r2}
TwoRefs  == {f1, f2}
OneTwo   == {1, 2}
OfBothSigns == {-1, 1}

NoFaults == {}
Crashes  == {"db", "crash"}

(* Bound: a debit of a negative amount can be repeated for ever.  A state with  *)
(* more rows than this is checked and not explored further.                  *)
MaxRows == 3
FewRows == Len(ledger[u1]) + Len(ledger[u2]) <= MaxRows

Symmetry == Permutations(TwoUsers) \cup Permutations(TwoReqs) \cup Permutations(Refs)
=============================================================================
