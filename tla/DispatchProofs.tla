--------------------------- MODULE DispatchProofs ---------------------------
(***************************************************************************)
(* Each lane of Dispatch behaves as Matching, so what MatchingProofs shows *)
(* holds in it, for any drivers, orders, rounds and disturbances.          *)
(***************************************************************************)
EXTENDS Dispatch, TLAPS

LEMMA LaneMoves ==
  ASSUME [LaneNext]_<<lane, vars, vars2>>
  PROVE  [Next]_vars /\ [Other!Next]_(Other!vars)
  BY DEF LaneNext, vars, vars2, presence, offers, history,
         Other!vars, Other!presence, Other!offers, Other!history

(* A claimed driver stays locked to her order whatever callers, time and     *)
(* faults do, as long as no dispatch is cancelled.                           *)
THEOREM UnrulySafe == LaneSpec => []UnrulyIsLocked
  <1>1. LaneInit => Other!Init
    BY DEF LaneInit
  <1>2. LaneSpec => Other!Spec
    BY <1>1, LaneMoves, PTL DEF LaneSpec, Other!Spec
  <1>3. Other!Spec => []Other!HeldIsLocked
    BY DispatchAssumption, Other!LocksSafe
  <1> QED
    BY <1>2, <1>3, PTL DEF UnrulyIsLocked
=============================================================================
