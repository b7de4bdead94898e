------------------------------ MODULE MCServices ------------------------------
(* Small instances of the services for TLC. *)
EXTENDS Services, TLC

CONSTANTS r1, r2, o1, o2, o3, u1, u2, m1, m2, h1, d1, d2

Symmetry == Permutations({r1, r2}) \cup Permutations({d1, d2})

(* Bound: internal callers send an order back for another driver once, and   *)
(* out of the hands of the one who has the package.                          *)
SentBack == {x \in took : x[3] = "finding_driver" /\ x[2] # "none"}
SentBackOnce == Cardinality(SentBack) <= 1 /\ \A x \in SentBack : x[2] \in {"picked_up", "on_delivery"}

(* A ride of either vehicle and a delivery, cheap and with a high minimum. *)
FareRow(service, vehicle, base, min) ==
    [service |-> service, vehicle |-> vehicle, base |-> base, perKm |-> 2500, perMin |-> 100,
     booking |-> 1000, feePct |-> 3, min |-> min, perKg |-> 1000, threshold |-> 0, small |-> 0]
FareRows == {FareRow("ride", "motor", 3000, 20000), FareRow("ride", "car", 9000, 0),
             [FareRow("delivery", "none", 8000, 15000) EXCEPT !.feePct = 0, !.perMin = 0]}

(* The requests of each service: enough for a third handler to meet what two *)
(* have left behind.                                                         *)
Requests == [f \in ServiceNames |->
    CASE f \in {"cod", "security"} -> 5
      [] f \in {"payment", "otp", "sms", "email", "chat", "gateway", "mode"} -> 4
      [] OTHER -> 3]
=============================================================================
