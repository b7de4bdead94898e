------------------------------ MODULE Dispatch ------------------------------
(***************************************************************************)
(* Two instances of Matching in one specification: the first on Matching's *)
(* own constants and variables, the second on constants and variables of   *)
(* its own, so that one can have orderly answers and the other late,       *)
(* double and failing ones.  They share nothing; lane names the one that   *)
(* moves in a behaviour.                                                   *)
(***************************************************************************)
EXTENDS Matching

CONSTANTS Drivers2, Orders2, MaxRounds2, Env2

VARIABLES lane, hash2, geo2, lock2, rejected2, session2, lapsed2, task2, req2,
          held2, rounds2, dropped2
vars2 == <<hash2, geo2, lock2, rejected2, session2, lapsed2, task2, req2,
           held2, rounds2, dropped2>>

(* MatchingProofs extends Matching: its theorems are theorems of Other.      *)
Other == INSTANCE MatchingProofs
           WITH Drivers <- Drivers2, Orders <- Orders2, MaxRounds <- MaxRounds2, Env <- Env2,
                hash <- hash2, geo <- geo2, lock <- lock2,
                rejected <- rejected2, session <- session2, lapsed <- lapsed2, task <- task2,
                req <- req2, held <- held2, rounds <- rounds2, dropped <- dropped2

ASSUME DispatchAssumption == Other!MatchingAssumption

LaneInit == lane \in {"search", "lock"} /\ Init /\ Other!Init
LaneNext == \/ lane = "search" /\ Next /\ UNCHANGED <<lane, vars2>>
            \/ lane = "lock" /\ Other!Next /\ UNCHANGED <<lane, vars>>
LaneSpec == LaneInit /\ [][LaneNext]_<<lane, vars, vars2>>

(* HeldIsLocked, which Matching explains, of the second instance: a driver   *)
(* an order has claimed stays locked to it until she is released.            *)
UnrulyIsLocked == Other!HeldIsLocked
=============================================================================
