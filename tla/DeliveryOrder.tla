---------------------------- MODULE DeliveryOrder ----------------------------
(***************************************************************************)
(* delivery-order-service.  The handlers have the shape of ride-order's: a *)
(* read, then a conditional UPDATE, then best-effort statements.  There is *)
(* no pickup code and no call to matching; instead the driver's photos and *)
(* the fare are written after the status they belong to, each by a         *)
(* statement of its own that may fail or come late.                        *)
(***************************************************************************)
EXTENDS Naturals, FiniteSets

CONSTANTS Orders, Users, Drivers, Reqs, None,
          InternalTargets,  \* the statuses internal callers ask for
          Faults            \* TRUE: statements and calls fail, the process dies

VARIABLES refs, gopay, debited,          \* as in RideOrder
          status, owner, driver, cancelledBy,
          proof,    \* proof[o]: the photos the row holds
          fare,     \* fare[o]: which of the breakdown row and fare_final exist
          req,      \* the handler in each slot
          took      \* history: the status changes that did happen

money == <<refs, gopay, debited>>
extras == <<proof, fare>>
vars  == <<money, status, owner, driver, cancelledBy, extras, req, took>>

Statuses == {"pending", "finding_driver", "assigned", "on_pickup", "picked_up",
             "on_delivery", "delivered", "cancelled"}
Terminal == {"delivered", "cancelled"}
cancellableStates == {"pending", "finding_driver", "assigned", "on_pickup"}
driverTransitions == {<<"assigned", "on_pickup">>, <<"on_pickup", "picked_up">>,
                      <<"picked_up", "on_delivery">>, <<"on_delivery", "delivered">>}

Idle == [op |-> "none", pc |-> "idle", order |-> None, who |-> None,
         from |-> "none", to |-> "none"]
Pcs == {"idle", "debit", "insert", "write", "log", "proof", "breakdown", "total"}
Requests == [op : {"none", "create", "cancel", "assign", "advance", "internal", "reject"},
             pc : Pcs, order : Orders \cup {None}, who : Users \cup Drivers \cup {None},
             from : Statuses \cup {"none"}, to : Statuses \cup {"none"}]

TypeOK ==
    /\ refs \subseteq Orders /\ gopay \subseteq refs /\ debited \subseteq gopay
    /\ status \in [Orders -> Statuses \cup {"none"}]
    /\ owner \in [Orders -> Users \cup {None}]
    /\ driver \in [Orders -> Drivers \cup {None}]
    /\ cancelledBy \in [Orders -> {"none", "user"}]
    /\ proof \in [Orders -> SUBSET {"pickup", "delivery"}]
    /\ fare \in [Orders -> SUBSET {"breakdown", "total"}]
    /\ took \subseteq Orders \X (Statuses \cup {"none"}) \X Statuses
    /\ req \in [Reqs -> Requests]

Init ==
    /\ refs = {} /\ gopay = {} /\ debited = {} /\ took = {}
    /\ status = [o \in Orders |-> "none"]
    /\ owner = [o \in Orders |-> None] /\ driver = [o \in Orders |-> None]
    /\ cancelledBy = [o \in Orders |-> "none"]
    /\ proof = [o \in Orders |-> {}] /\ fare = [o \in Orders |-> {}]
    /\ req = [r \in Reqs |-> Idle]

Goto(r, pc) == req' = [req EXCEPT ![r].pc = pc]
End(r)      == req' = [req EXCEPT ![r] = Idle]
Start(r, op, pc, o, w, from, to) ==
    /\ req[r] = Idle
    /\ req' = [req EXCEPT ![r] = [op |-> op, pc |-> pc, order |-> o, who |-> w,
                                  from |-> from, to |-> to]]
Move(o, s) == /\ status' = [status EXCEPT ![o] = s]
              /\ took' = took \cup {<<o, status[o], s>>}
Reads == UNCHANGED <<money, status, owner, driver, cancelledBy, extras, took>>

-----------------------------------------------------------------------------
(* What a handler reads and checks before its first write. *)

Active(u) == {o \in Orders : owner[o] = u /\ status[o] \notin Terminal \cup {"none"}}

CreateOrder(r, u, o, pay) ==
    /\ o \notin refs
    /\ Active(u) = {} \/ Faults         \* an error of the check is ignored
    /\ Start(r, "create", IF pay = "gopay" THEN "debit" ELSE "insert",
             o, u, "none", "finding_driver")
    /\ refs' = refs \cup {o}
    /\ gopay' = IF pay = "gopay" THEN gopay \cup {o} ELSE gopay
    /\ UNCHANGED <<debited, status, owner, driver, cancelledBy, extras, took>>

CancelOrder(r, u, o) ==
    /\ owner[o] = u /\ status[o] \in cancellableStates
    /\ Start(r, "cancel", "write", o, u, status[o], "cancelled")
    /\ Reads

DriverAcceptOrder(r, d, o) ==
    /\ status[o] = "finding_driver"
    /\ Start(r, "assign", "write", o, d, "finding_driver", "assigned")
    /\ Reads

(* What matching would call; the row does not tell the two apart. *)
InternalAssignDriver(r, d, o) == DriverAcceptOrder(r, d, o)

(* Only a log row, which repeats the status read. *)
DriverRejectOrder(r, d, o) ==
    /\ status[o] # "none"
    /\ Start(r, "reject", "log", o, d, status[o], status[o])
    /\ Reads

DriverUpdateOrderStatus(r, d, o, e) ==
    /\ driver[o] = d /\ status[o] = e[1]
    /\ Start(r, "advance", "write", o, d, e[1], e[2])
    /\ Reads

InternalUpdateStatus(r, o, s) ==
    /\ status[o] \in Statuses \ Terminal
    /\ Start(r, "internal", "write", o, None, status[o], s)
    /\ Reads

-----------------------------------------------------------------------------
(* Mutant: a refused debit is only logged. *)
Ignored(r) == Goto(r, "insert")
DebitRefused(r) == End(r)

DebitWallet(r) ==
    /\ req[r].pc = "debit"
    /\ \/ debited' = debited \cup {req[r].order} /\ Goto(r, "insert")
       \/ UNCHANGED debited /\ DebitRefused(r)
    /\ UNCHANGED <<refs, gopay, status, owner, driver, cancelledBy, extras, took>>

(* Order and package in one transaction. *)
InsertOrder(r) ==
    /\ req[r].pc = "insert"
    /\ Move(req[r].order, "finding_driver")
    /\ owner' = [owner EXCEPT ![req[r].order] = req[r].who]
    /\ Goto(r, "log")
    /\ UNCHANGED <<money, driver, cancelledBy, extras>>

(* Mutants: UPDATEs without their condition. *)
CancelUnlessOver(o) == status[o] \notin Terminal
UpdateAnyStatus(o, from) == status[o] # "none"

SetCancelledMatches(o) == status[o] \notin {"none", "picked_up", "on_delivery", "delivered", "cancelled"}
AssignDriverMatches(o) == status[o] = "finding_driver"
UpdateStatusMatches(o, from) == status[o] = from

Matches(q) == CASE q.op = "cancel" -> SetCancelledMatches(q.order)
                [] q.op = "assign" -> AssignDriverMatches(q.order)
                [] OTHER           -> UpdateStatusMatches(q.order, q.from)

SetCancelled(r) ==
    LET o == req[r].order IN
    /\ req[r].op = "cancel" /\ req[r].pc = "write" /\ Matches(req[r])
    /\ Move(o, "cancelled")
    /\ cancelledBy' = [cancelledBy EXCEPT ![o] = "user"]
    /\ Goto(r, "log")
    /\ UNCHANGED <<money, owner, driver, extras>>

AssignDriver(r) ==
    LET o == req[r].order IN
    /\ req[r].op = "assign" /\ req[r].pc = "write" /\ Matches(req[r])
    /\ Move(o, "assigned")
    /\ driver' = [driver EXCEPT ![o] = req[r].who]
    /\ Goto(r, "log")
    /\ UNCHANGED <<money, owner, cancelledBy, extras>>

UpdateStatus(r) ==
    /\ req[r].op \in {"advance", "internal"} /\ req[r].pc = "write" /\ Matches(req[r])
    /\ Move(req[r].order, req[r].to)
    /\ Goto(r, "log")
    /\ UNCHANGED <<money, owner, driver, cancelledBy, extras>>

WriteRefused(r) ==
    /\ req[r].pc = "write" /\ ~Matches(req[r])
    /\ End(r)
    /\ Reads

-----------------------------------------------------------------------------
(* Best-effort statements after the write: each may fail, none is retried.
   Nothing reads the log back, so its row is not kept. *)

(* Mutants: the internal endpoint runs the driver's side effects too; the    *)
(* delivery has none.                                                        *)
ByAnyone(q) == IF q.to \in {"picked_up", "delivered"} THEN "proof" ELSE "idle"
PickupOnly(q) == IF q.op = "advance" /\ q.to = "picked_up" THEN "proof" ELSE "idle"
SideEffects(q) == IF q.op = "advance" THEN ByAnyone(q) ELSE "idle"

InsertStateLog(r) ==
    LET q == req[r] IN
    /\ q.pc = "log"
    /\ IF SideEffects(q) = "idle" THEN End(r) ELSE Goto(r, "proof")
    /\ Reads

(* SetPickupProof, SetDeliveryDetails *)
SetProof(r) ==
    LET q == req[r] IN
    /\ q.pc = "proof"
    /\ \/ proof' = [proof EXCEPT ![q.order] =
                      @ \cup {IF q.to = "picked_up" THEN "pickup" ELSE "delivery"}]
       \/ Faults /\ UNCHANGED proof
    /\ IF q.to = "picked_up" THEN End(r) ELSE Goto(r, "breakdown")
    /\ UNCHANGED <<money, status, owner, driver, cancelledBy, fare, took>>

(* UpsertFareBreakdown, then SetFareFinal. *)
SetFare(r) ==
    LET q == req[r] IN
    /\ q.pc \in {"breakdown", "total"}
    /\ \/ fare' = [fare EXCEPT ![q.order] = @ \cup {q.pc}]
       \/ Faults /\ UNCHANGED fare
    /\ IF q.pc = "breakdown" THEN Goto(r, "total") ELSE End(r)
    /\ UNCHANGED <<money, status, owner, driver, cancelledBy, proof, took>>

(* A statement fails, its acknowledgement is lost, or the process dies. *)
Die(r) == /\ Faults /\ req[r] # Idle
          /\ End(r)
          /\ Reads

-----------------------------------------------------------------------------
(* The routes: the gateway's X-User-ID is the user or the driver who calls. *)
UserRequests(r) ==
    \E u \in Users, o \in Orders : \/ \E pay \in {"gopay", "cash"} : CreateOrder(r, u, o, pay)
                                   \/ CancelOrder(r, u, o)
DriverRequests(r) ==
    \E d \in Drivers, o \in Orders : \/ DriverAcceptOrder(r, d, o)
                                     \/ DriverRejectOrder(r, d, o)
                                     \/ \E e \in driverTransitions :
                                          DriverUpdateOrderStatus(r, d, o, e)
InternalRequests(r) ==
    \E o \in Orders : \/ \E d \in Drivers : InternalAssignDriver(r, d, o)
                      \/ \E s \in InternalTargets : InternalUpdateStatus(r, o, s)

Handle(r) == \/ DebitWallet(r) \/ InsertOrder(r) \/ SetCancelled(r) \/ AssignDriver(r)
             \/ UpdateStatus(r) \/ WriteRefused(r)
             \/ InsertStateLog(r) \/ SetProof(r) \/ SetFare(r)

Next == \E r \in Reqs : \/ UserRequests(r) \/ DriverRequests(r) \/ InternalRequests(r)
                        \/ Handle(r) \/ Die(r)

Spec == Init /\ [][Next]_vars
Fairness == \A r \in Reqs : WF_vars(Handle(r))

-----------------------------------------------------------------------------
(* Properties *)

(* The lifecycle of a ride, with picked_up and on_delivery as two halves of  *)
(* on_trip and delivered as completed: every step of every handler is one of *)
(* its transitions or none.                                                  *)
RideStatus(s) == IF s \in {"picked_up", "on_delivery"} THEN "on_trip"
                 ELSE IF s = "delivered" THEN "completed" ELSE s
Lifecycle == INSTANCE RideLifecycle
                 WITH status <- [o \in Orders |-> RideStatus(status[o])],
                      driver <- driver,
                      InternalTargets <- {RideStatus(s) : s \in InternalTargets}
DeliveryLifecycle == Lifecycle!Spec

(* A photo, a breakdown and a final fare are evidence: they exist only for   *)
(* an order whose driver made the step they belong to, even when internal    *)
(* callers move orders about.                                                *)
EvidenceTruthful ==
    \A o \in Orders :
      /\ "pickup" \in proof[o] => <<o, "on_pickup", "picked_up">> \in took
      /\ "delivery" \in proof[o] \/ fare[o] # {} => <<o, "on_delivery", "delivered">> \in took

(* A user's cancel takes effect before the package is with the driver, or    *)
(* not at all, and is then final.  It meets the photo of a pickup only when  *)
(* an internal caller had sent the order back from the driver's hands        *)
(* (InternalUpdateStatus takes any status), and never that of a delivery.    *)
Reopened(o) == \E s \in {"picked_up", "on_delivery"}, t \in cancellableStates : <<o, s, t>> \in took
CancelBeforePickup ==
    \A o \in Orders : cancelledBy[o] = "user" =>
        /\ status[o] = "cancelled"
        /\ \E s \in cancellableStates : <<o, s, "cancelled">> \in took
        /\ "delivery" \notin proof[o] /\ fare[o] = {}
        /\ proof[o] = {} \/ Reopened(o)

(* No delivery paid from the wallet is on its way without the debit.         *)
DeliveryPaid == \A o \in gopay : status[o] # "none" => o \in debited

(* Together: photos and fares only of what a driver did, a user's cancel     *)
(* before the pickup and for good, and no delivery without its debit.        *)
DeliverySafe == TypeOK /\ EvidenceTruthful /\ CancelBeforePickup /\ DeliveryPaid

(* Without faults a delivery completed by its driver gets photo and fare.    *)
DeliverySettles ==
    "delivered" \notin InternalTargets =>
      \A o \in Orders : status[o] = "delivered"
          ~> ("delivery" \in proof[o] /\ fare[o] = {"breakdown", "total"})
=============================================================================
