----------------------------- MODULE FoodOrder -----------------------------
(***************************************************************************)
(* food-order-service: three actors move an order, the user, the merchant  *)
(* and the driver.  Every handler reads the row, checks it, and later      *)
(* writes it with an UPDATE that names only the order's id: whatever       *)
(* another handler wrote in between is overwritten.  Redis keys and Kafka  *)
(* events follow the write, best effort, one after the other.              *)
(***************************************************************************)
EXTENDS Sequences

CONSTANTS Orders, Users, Drivers,
          Reqs,     \* slots for handlers in flight
          None,
          Faults    \* statements and calls may fail, handlers may die

VARIABLES status, driver, owner,  \* columns of food_orders
          by,          \* cancelled_by
          late,        \* orders whose cancel_deadline has passed
          rated,       \* rating_submitted
          byWallet,    \* orders whose payment method is the wallet
          debited,     \* orders the wallet was debited for
          active,      \* Redis user:active_food:{u}
          queue,       \* Redis merchant:pending_orders
          sent,        \* the event published or dispatch received last, <<name, order>>
          outbox,      \* goroutines calling the matching service
          had,         \* every status an order has held (history)
          req          \* req[r]: the handler in slot r
row  == <<status, driver, owner, by, rated>>
side == <<active, queue, sent, outbox>>
vars == <<row, late, byWallet, debited, side, had, req>>

Statuses == {"pending", "confirmed", "preparing", "ready", "picked_up",
             "on_delivery", "delivered", "cancelled"}
Carried  == {"picked_up", "on_delivery", "delivered"}
ASSUME FoodOrderAssumption ==
    /\ None \notin Orders \cup Users \cup Drivers \cup Statuses
    /\ Faults \in BOOLEAN

Ops == {"create", "cancel", "reject", "confirm", "prepare", "ready", "pickup",
        "onway", "deliver", "assign", "unassign", "rate"}
DriverOps == {"pickup", "onway", "deliver", "unassign"}
EffectNames == {"set", "clear", "enqueue", "dequeue", "dispatch",
                "created", "confirmed", "cancelled", "completed"}
Events == {"created", "confirmed", "cancelled", "completed", "dispatch"}
Pcs == {"idle", "debit", "write", "effects"}

(* The status checks of the handlers, and what they write. *)
From(op) == CASE op = "cancel"   -> {"pending", "confirmed"}
              [] op = "confirm"  -> {"pending"}
              [] op = "reject"   -> {"pending"}
              [] op = "prepare"  -> {"confirmed"}
              [] op = "ready"    -> {"preparing"}
              [] op = "pickup"   -> {"ready"}
              [] op = "unassign" -> {"ready"}
              [] op = "onway"    -> {"picked_up"}
              [] op = "deliver"  -> {"picked_up", "on_delivery"}
              [] op = "rate"     -> {"delivered"}
              [] OTHER           -> Statuses
To(op) == CASE op = "create"   -> "pending"
            [] op = "cancel"   -> "cancelled"
            [] op = "reject"   -> "cancelled"
            [] op = "confirm"  -> "confirmed"
            [] op = "prepare"  -> "preparing"
            [] op = "ready"    -> "ready"
            [] op = "unassign" -> "ready"
            [] op = "pickup"   -> "picked_up"
            [] op = "onway"    -> "on_delivery"
            [] OTHER           -> "delivered"
Effects(op) == CASE op = "create"  -> <<"set", "enqueue", "created">>
                 [] op = "cancel"  -> <<"clear", "dequeue", "cancelled">>
                 [] op = "reject"  -> <<"clear", "dequeue", "cancelled">>
                 [] op = "confirm" -> <<"dequeue", "confirmed">>
                 [] op = "ready"   -> <<"dispatch">>
                 [] op = "deliver" -> <<"clear", "completed">>
                 [] OTHER          -> <<>>

Slot(op, pc, o, who, todo) ==
    [op |-> op, pc |-> pc, order |-> o, who |-> who, todo |-> todo]
Idle == Slot("create", "idle", None, None, <<>>)
Requests == [op : Ops, pc : Pcs, order : Orders \cup {None},
             who : Users \cup Drivers \cup {None}, todo : Seq(EffectNames)]

TypeOK == /\ status \in [Orders -> Statuses \cup {None}]
          /\ driver \in [Orders -> Drivers \cup {None}]
          /\ owner \in [Orders -> Users \cup {None}]
          /\ by \in [Orders -> {"user", "merchant", None}]
          /\ late \subseteq Orders /\ rated \subseteq Orders
          /\ byWallet \subseteq Orders /\ debited \subseteq Orders
          /\ queue \subseteq Orders /\ outbox \subseteq Orders
          /\ active \in [Users -> Orders \cup {None}]
          /\ sent \in (Events \X Orders) \cup {<<>>}
          /\ had \in [Orders -> SUBSET Statuses]
          /\ req \in [Reqs -> Requests]

Init == /\ status = [o \in Orders |-> None] /\ driver = [o \in Orders |-> None]
        /\ owner = [o \in Orders |-> None]  /\ by = [o \in Orders |-> None]
        /\ late = {} /\ rated = {} /\ byWallet = {} /\ debited = {}
        /\ queue = {} /\ outbox = {} /\ sent = <<>>
        /\ active = [u \in Users |-> None]
        /\ had = [o \in Orders |-> {}]
        /\ req = [r \in Reqs |-> Idle]

Become(r, slot) == req' = [req EXCEPT ![r] = slot]
End(r) == Become(r, Idle)

-----------------------------------------------------------------------------
(* The reading half of each handler, early returns included. *)

CreateOrder(r, u, o, wallet) ==
    /\ req[r] = Idle /\ active[u] = None
    /\ status[o] = None /\ \A q \in Reqs : req[q].order # o
    /\ o \notin debited    \* uuid.New: an id is used once
    /\ Become(r, Slot("create", IF wallet THEN "debit" ELSE "write", o, u, <<>>))
    /\ byWallet' = IF wallet THEN byWallet \cup {o} ELSE byWallet \ {o}
    /\ UNCHANGED <<row, late, debited, side, had>>

(* Mutant: a driver may pick the food up while it is being prepared. *)
AllowedEarly(op, o) == \/ status[o] \in From(op)
                       \/ op = "pickup" /\ status[o] = "preparing"
Allowed(op, o) == status[o] \in From(op)

Read(r, op, o, who) ==
    /\ req[r] = Idle /\ status[o] # None /\ Allowed(op, o)
    /\ Become(r, Slot(op, "write", o, who, <<>>))
    /\ UNCHANGED <<row, late, byWallet, debited, side, had>>

CancelOrder(r, u, o) == /\ owner[o] = u
                        /\ status[o] = "confirmed" => o \notin late
                        /\ Read(r, "cancel", o, u)
MerchantConfirmOrder(r, o) == Read(r, "confirm", o, None)
MerchantRejectOrder(r, o)  == Read(r, "reject", o, None)
MerchantUpdateStatus(r, o) == \E op \in {"prepare", "ready"} : Read(r, op, o, None)
DriverPickup(r, d, o)       == driver[o] = d /\ Read(r, "pickup", o, d)
DriverUpdateStatus(r, d, o) == driver[o] = d /\ \E op \in {"pickup", "onway"} : Read(r, op, o, d)
DriverDeliver(r, d, o)      == driver[o] = d /\ Read(r, "deliver", o, d)
DriverRejectOrder(r, d, o)  == driver[o] = d /\ Read(r, "unassign", o, d)
AssignDriver(r, d, o)       == Read(r, "assign", o, d)
SubmitRating(r, u, o)       == owner[o] = u /\ o \notin rated /\ Read(r, "rate", o, u)

-----------------------------------------------------------------------------
(* Mutant: the refusal of the wallet is only logged. *)
RefusalLogged(r) == Become(r, [req[r] EXCEPT !.pc = "write"])
DebitRefused(r) == End(r)

(* debitWallet; the answer may be lost after the money was taken. *)
DebitWallet(r) ==
    /\ req[r].pc = "debit"
    /\ \/ debited' = debited \cup {req[r].order}
          /\ Become(r, Slot("create", "write", req[r].order, req[r].who, <<>>))
       \/ DebitRefused(r) /\ UNCHANGED debited
       \/ Faults /\ debited' = debited \cup {req[r].order} /\ End(r)
    /\ UNCHANGED <<row, late, byWallet, side, had>>

(* After the write come the effects, if the handler has any. *)
Written(r) == Become(r, IF Effects(req[r].op) = <<>> THEN Idle
                        ELSE Slot(req[r].op, "effects", req[r].order, req[r].who,
                                  Effects(req[r].op)))

(* Create, UpdateConfirmed, UpdateCancelled, UpdateDelivered, UpdateStatus.  *)
(* UpdateStatus drops the columns its caller passes in `updates`: the        *)
(* driver_id DriverRejectOrder wants to clear stays.                         *)
ClearedOnReject(op, o) == IF op = "unassign" THEN None ELSE driver[o]
DriverAfter(op, o) == driver[o]

UpdateStatus(r) ==
    LET q == req[r] o == q.order IN
    /\ q.pc = "write" /\ q.op \notin {"assign", "rate"}
    /\ status' = [status EXCEPT ![o] = To(q.op)]
    /\ had' = [had EXCEPT ![o] = @ \cup {To(q.op)}]
    /\ driver' = [driver EXCEPT ![o] = DriverAfter(q.op, o)]
    /\ owner' = IF q.op = "create" THEN [owner EXCEPT ![o] = q.who] ELSE owner
    /\ by' = CASE q.op = "cancel" -> [by EXCEPT ![o] = "user"]
               [] q.op = "reject" -> [by EXCEPT ![o] = "merchant"]
               [] OTHER           -> by
    /\ late' = IF q.op = "confirm" THEN late \ {o} ELSE late
    /\ Written(r)
    /\ UNCHANGED <<rated, byWallet, debited, side>>

(* The other two UPDATEs. *)
SetDriver(r) ==
    /\ req[r].pc = "write" /\ req[r].op = "assign"
    /\ driver' = [driver EXCEPT ![req[r].order] = req[r].who]
    /\ Written(r)
    /\ UNCHANGED <<status, owner, by, rated, late, byWallet, debited, side, had>>
MarkRatingSubmitted(r) ==
    /\ req[r].pc = "write" /\ req[r].op = "rate"
    /\ rated' = rated \cup {req[r].order}
    /\ Written(r)
    /\ UNCHANGED <<status, owner, by, driver, late, byWallet, debited, side, had>>

(* Mutant: the handler goes on although its UPDATE failed. *)
FailureLogged(r) == Written(r)
WriteFailed(r) == End(r)

WriteFails(r) == /\ Faults /\ req[r].pc = "write" /\ WriteFailed(r)
                 /\ UNCHANGED <<row, late, byWallet, debited, side, had>>

(* One best-effort statement after the write. *)
Effect(r) ==
    LET q == req[r]
        o == q.order
        e == Head(q.todo)
        rest == Tail(q.todo) IN
    /\ q.pc = "effects"
    /\ Become(r, IF rest = <<>> THEN Idle ELSE Slot(q.op, "effects", o, q.who, rest))
    /\ \/ /\ active' = CASE e = "set"   -> [active EXCEPT ![owner[o]] = o]
                         [] e = "clear" -> [active EXCEPT ![owner[o]] = None]
                         [] OTHER       -> active
          /\ queue' = CASE e = "enqueue" -> queue \cup {o}
                        [] e = "dequeue" -> queue \ {o}
                        [] OTHER         -> queue
          /\ outbox' = IF e = "dispatch" THEN outbox \cup {o} ELSE outbox
          /\ sent' = IF e \in Events \ {"dispatch"}
                     THEN <<e, o>> ELSE sent
       \/ Faults /\ UNCHANGED side
    /\ UNCHANGED <<row, late, byWallet, debited, had>>

(* triggerDispatch, in its goroutine: one attempt. *)
TriggerDispatch(o) ==
    /\ o \in outbox /\ outbox' = outbox \ {o}
    /\ sent' = <<"dispatch", o>> \/ (Faults /\ sent' = sent)
    /\ UNCHANGED <<row, late, byWallet, debited, active, queue, had, req>>

Die(r) == /\ Faults /\ req[r] # Idle /\ End(r)
          /\ UNCHANGED <<row, late, byWallet, debited, side, had>>

(* Time: two minutes after the confirmation, three hours after the creation. *)
DeadlinePasses(o) == /\ "confirmed" \in had[o] /\ o \notin late
                     /\ late' = late \cup {o}
                     /\ UNCHANGED <<row, byWallet, debited, side, had, req>>
KeyExpires(u) == /\ Faults /\ active[u] # None
                 /\ active' = [active EXCEPT ![u] = None]
                 /\ UNCHANGED <<row, late, byWallet, debited, queue, sent, outbox, had, req>>

-----------------------------------------------------------------------------
ByUser(r, u, o) == \/ \E wallet \in BOOLEAN : CreateOrder(r, u, o, wallet)
                   \/ CancelOrder(r, u, o)
                   \/ SubmitRating(r, u, o)
ByMerchant(r, o) == \/ MerchantConfirmOrder(r, o)
                    \/ MerchantRejectOrder(r, o)
                    \/ MerchantUpdateStatus(r, o)
ByDriver(r, d, o) == \/ DriverPickup(r, d, o)
                     \/ DriverUpdateStatus(r, d, o)
                     \/ DriverDeliver(r, d, o)
                     \/ DriverRejectOrder(r, d, o)
                     \/ AssignDriver(r, d, o)
Handle(r) == \/ DebitWallet(r) \/ UpdateStatus(r) \/ SetDriver(r) \/ MarkRatingSubmitted(r)
             \/ WriteFails(r) \/ Effect(r) \/ Die(r)
Next == \/ \E r \in Reqs, o \in Orders :
              \/ \E u \in Users : ByUser(r, u, o)
              \/ ByMerchant(r, o)
              \/ \E d \in Drivers : ByDriver(r, d, o)
        \/ \E r \in Reqs : Handle(r)
        \/ \E o \in Orders : TriggerDispatch(o) \/ DeadlinePasses(o)
        \/ \E u \in Users : KeyExpires(u)
Spec == Init /\ [][Next]_vars

-----------------------------------------------------------------------------
(* Properties *)

(* Although handlers overwrite one another, no stage the handlers ask for is *)
(* skipped: food is delivered only after it was picked up, picked up only    *)
(* after it was ready, and so on back to the order; only what was delivered  *)
(* is rated.  The stage they do not ask for is on_delivery: DriverDeliver    *)
(* takes an order that is merely picked up, where openapi.yaml:14 and :844   *)
(* have on_delivery in between, so nothing is said of it here.               *)
Before(s) == CASE s = "confirmed"   -> "pending"
               [] s = "preparing"   -> "confirmed"
               [] s = "ready"       -> "preparing"
               [] s = "picked_up"   -> "ready"
               [] s = "on_delivery" -> "picked_up"
               [] s = "delivered"   -> "picked_up"
               [] OTHER             -> "pending"
Stages == \A o \in Orders : /\ \A s \in had[o] : Before(s) \in had[o]
                            /\ o \in rated => "delivered" \in had[o]

(* What other services are told about an order was true of it at some time:  *)
(* completed only if delivered, dispatched only if ready, and so on.         *)
StatusOf(e) == CASE e = "created"   -> "pending"
                 [] e = "confirmed" -> "confirmed"
                 [] e = "cancelled" -> "cancelled"
                 [] e = "dispatch"  -> "ready"
                 [] OTHER           -> "delivered"
EventsTruthful == /\ sent # <<>> => StatusOf(sent[1]) \in had[sent[2]]
                  /\ \A o \in outbox : "ready" \in had[o]

(* Food on its way always has a driver on the row, whatever assignments and  *)
(* rejections race with the pickup.                                          *)
DriverCarries == \A o \in Orders : status[o] \in Carried => driver[o] # None

(* An order paid from the wallet is in the table only if the debit was made. *)
PaidBeforeInserted == \A o \in byWallet : status[o] # None => o \in debited

(* The inductive invariant: a pending write remembers a status the order has *)
(* held, even if it no longer holds it.                                      *)
HandlerOK(r) ==
    LET q == req[r] o == q.order IN
    /\ q.pc = "idle" => q = Idle
    /\ q.pc # "idle" => /\ o \in Orders
                        /\ q.op \in DriverOps => driver[o] # None
                        /\ q.op = "assign" => q.who \in Drivers
                        /\ q.op = "create" => q.who \in Users
    /\ q.pc = "debit" => q.op = "create"
    /\ q.pc = "write" /\ q.op # "create" => \E s \in had[o] : s \in From(q.op)
    /\ q.pc = "write" /\ q.op = "create" /\ o \in byWallet => o \in debited
    /\ q.pc = "effects" => q.todo # <<>> /\ To(q.op) \in had[o] /\ owner[o] \in Users
    /\ q.pc = "effects" => \A i \in DOMAIN q.todo :
                              q.todo[i] \in Events => StatusOf(q.todo[i]) \in had[o]
History == \A o \in Orders :
    /\ status[o] = None <=> had[o] = {}
    /\ status[o] # None => status[o] \in had[o] /\ owner[o] \in Users
    /\ Carried \cap had[o] # {} => driver[o] # None
    /\ o \in late => "confirmed" \in had[o]
(* GetActiveOrder never finds a key without its row.                         *)
KeyNamesRow == \A u \in Users : active[u] # None => status[active[u]] # None
IInv == /\ TypeOK /\ \A r \in Reqs : HandlerOK(r)
        /\ History /\ KeyNamesRow
        /\ Stages /\ EventsTruthful /\ PaidBeforeInserted

(* Claim of openapi.yaml:41: "once `preparing`, no user cancel".             *)
NoLateUserCancel ==
    [][\A o \in Orders : status[o] \in {"preparing", "ready"} \cup Carried =>
          ~(status'[o] = "cancelled" /\ by'[o] = "user" /\ status[o] # status'[o])]_vars
=============================================================================
