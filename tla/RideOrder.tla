------------------------------ MODULE RideOrder ------------------------------
(***************************************************************************)
(* ride-order-service: the ride_orders table, the HTTP handlers that read  *)
(* a row and then write it with a conditional UPDATE, the state log, and   *)
(* the calls a handler leaves to a goroutine.                              *)
(*                                                                         *)
(* A request slot r runs one handler at a time.  Every repository call is  *)
(* one SQL statement and so one step; between two steps of a handler any   *)
(* other handler may run.  A handler's first step is its read together     *)
(* with the checks it makes on what it read.                               *)
(***************************************************************************)
EXTENDS Naturals, FiniteSets

CONSTANTS Orders,           \* creation attempts, each the id of at most one row
          Users, Drivers,
          Reqs,             \* slots for handlers in flight
          Codes,            \* pickup codes
          None,             \* SQL NULL
          InternalTargets,  \* the statuses internal callers ask for
          Faults            \* which of "db", "net", "crash" may happen

VARIABLES refs,         \* attempts whose handler has started
          gopay,        \* attempts paid from the wallet
          debited,      \* attempts whose reference the wallet has debited
          status, owner, driver, otp, cancelledBy, fare,  \* the row's columns
          log,          \* order_state_logs: <<order, from, to, actor type>>
          req,          \* req[r]: the handler running in slot r
          outbox,       \* calls left to goroutines: <<"dispatch" | "free", order, driver>>
          delivered,    \* calls the matching service has received
          took,         \* history: the status changes that did happen
          crossed       \* history: <<o, d>>, d's update was pending when o was
                        \* given back to finding_driver

columns == <<owner, driver, otp, cancelledBy, fare>>
money   == <<refs, gopay, debited>>
calls   == <<outbox, delivered>>
history == <<took, crossed>>
vars    == <<money, status, columns, log, req, calls, history>>

Statuses == {"pending", "finding_driver", "assigned", "on_pickup", "on_trip",
             "completed", "cancelled"}
Terminal == {"completed", "cancelled"}
cancellableStates == {"pending", "finding_driver", "assigned", "on_pickup"}
driverTransitions == {<<"assigned", "on_pickup">>, <<"on_pickup", "on_trip">>,
                      <<"on_trip", "completed">>}

ASSUME RideOrderAssumption ==
    /\ None \notin Users \cup Drivers \cup Codes \cup Orders
    /\ InternalTargets \subseteq Statuses
    /\ Faults \subseteq {"db", "net", "crash"}

Pcs == {"idle", "debit", "insert", "write", "log", "effects"}
Ops == {"none", "create", "cancel", "assign", "advance", "internal", "reject"}
Requests == [op : Ops, pc : Pcs, order : Orders \cup {None},
             who : Users \cup Drivers \cup {None},
             actor : {"none", "user", "driver", "system"},
             from : Statuses \cup {"none", "same"}, to : Statuses \cup {"none", "same"},
             code : Codes \cup {None}]
Idle == [op |-> "none", pc |-> "idle", order |-> None, who |-> None,
         actor |-> "none", from |-> "none", to |-> "none", code |-> None]

TypeOK ==
    /\ refs \subseteq Orders /\ gopay \subseteq refs /\ debited \subseteq gopay
    /\ status \in [Orders -> Statuses \cup {"none"}]
    /\ owner \in [Orders -> Users \cup {None}]
    /\ driver \in [Orders -> Drivers \cup {None}]
    /\ otp \in [Orders -> Codes \cup {None}]
    /\ cancelledBy \in [Orders -> {"none", "user"}]
    /\ fare \in [Orders -> BOOLEAN]
    /\ log \subseteq Orders \X (Statuses \cup {"none", "same"})
                     \X (Statuses \cup {"same"}) \X {"user", "driver", "system"}
    /\ req \in [Reqs -> Requests]
    /\ outbox \subseteq {"dispatch", "free"} \X Orders \X (Drivers \cup {None})
    /\ delivered \subseteq {"dispatch", "free"} \X Orders \X (Drivers \cup {None})
    /\ took \subseteq Orders \X (Statuses \cup {"none"}) \X Statuses
    /\ crossed \subseteq Orders \X Drivers

Init ==
    /\ refs = {} /\ gopay = {} /\ debited = {}
    /\ status = [o \in Orders |-> "none"]
    /\ owner = [o \in Orders |-> None]
    /\ driver = [o \in Orders |-> None]
    /\ otp = [o \in Orders |-> None]
    /\ cancelledBy = [o \in Orders |-> "none"]
    /\ fare = [o \in Orders |-> FALSE]
    /\ log = {} /\ took = {} /\ crossed = {}
    /\ req = [r \in Reqs |-> Idle]
    /\ outbox = {} /\ delivered = {}

-----------------------------------------------------------------------------
(* Requests *)

Start(r, q) == req[r] = Idle /\ req' = [req EXCEPT ![r] = q]
Goto(r, pc) == req' = [req EXCEPT ![r].pc = pc]
End(r)      == req' = [req EXCEPT ![r] = Idle]

(* A database call that fails ends the handler; one whose acknowledgement is
   lost has written and still ends it. *)
DBError == "db" \in Faults
WrittenThen(r, pc) == Goto(r, pc) \/ (DBError /\ End(r))

(* The drivers whose update of o has read the row and not yet written. *)
Pending(o) == {d \in Drivers : \E r \in Reqs : /\ req[r].op = "advance" /\ req[r].pc = "write"
                                               /\ req[r].order = o /\ req[r].who = d}

Move(o, s) == /\ status' = [status EXCEPT ![o] = s]
              /\ took' = took \cup {<<o, status[o], s>>}
              /\ crossed' = IF s = "finding_driver" THEN crossed \cup ({o} \X Pending(o))
                                                   ELSE crossed

(* GetActiveOrderByUserID *)
Active(u) == {o \in Orders : owner[o] = u /\ status[o] \notin Terminal \cup {"none"}}

-----------------------------------------------------------------------------
(* CreateOrder: check for an active order, debit the wallet, insert, log,
   leave the dispatch to a goroutine.  An error of the check is ignored. *)

(* Mutant: the wallet is debited whatever the payment method. *)
AlwaysDebit(pay) == "debit"
FirstStep(pay) == IF pay = "gopay" THEN "debit" ELSE "insert"

CreateOrder(r, u, o, pay) ==
    /\ o \notin refs
    /\ Active(u) = {} \/ DBError
    /\ Start(r, [Idle EXCEPT !.op = "create", !.order = o, !.who = u, !.actor = "user",
                             !.to = "finding_driver", !.pc = FirstStep(pay)])
    /\ refs' = refs \cup {o}
    /\ gopay' = IF pay = "gopay" THEN gopay \cup {o} ELSE gopay
    /\ UNCHANGED <<debited, status, columns, log, calls, history>>

(* Mutant: a refused debit is only logged. *)
Ignored(r) == Goto(r, "insert")
DebitRefused(r) == End(r)

(* The wallet debits, refuses (balance), or debits and the answer is lost. *)
DebitWallet(r) ==
    /\ req[r].pc = "debit"
    /\ \/ debited' = debited \cup {req[r].order} /\ Goto(r, "insert")
       \/ UNCHANGED debited /\ DebitRefused(r)
       \/ /\ "net" \in Faults
          /\ debited' = debited \cup {req[r].order} /\ End(r)
    /\ UNCHANGED <<refs, gopay, status, columns, log, calls, history>>

InsertOrder(r) ==
    LET o == req[r].order IN
    /\ req[r].pc = "insert"
    /\ Move(o, "finding_driver")
    /\ owner' = [owner EXCEPT ![o] = req[r].who]
    /\ WrittenThen(r, "log")
    /\ UNCHANGED <<money, driver, otp, cancelledBy, fare, log, calls>>

-----------------------------------------------------------------------------
(* The reading half of the handlers that change a row. *)

CancelOrder(r, u, o) ==
    /\ owner[o] = u /\ status[o] \in cancellableStates
    /\ Start(r, [Idle EXCEPT !.op = "cancel", !.pc = "write", !.order = o, !.who = u,
                             !.actor = "user", !.from = status[o], !.to = "cancelled"])
    /\ UNCHANGED <<money, status, columns, log, calls, history>>

(* The same reading and writing for a driver and for the dispatcher. *)
AcceptOrder(r, d, o, actor) ==
    /\ status[o] = "finding_driver"
    /\ \E c \in Codes :
         Start(r, [Idle EXCEPT !.op = "assign", !.pc = "write", !.order = o, !.who = d,
                               !.actor = actor, !.from = "finding_driver",
                               !.to = "assigned", !.code = c])
    /\ UNCHANGED <<money, status, columns, log, calls, history>>

DriverAcceptOrder(r, d, o) == AcceptOrder(r, d, o, "driver")
InternalAssignDriver(r, d, o) == AcceptOrder(r, d, o, "system")

(* Only a log row, which repeats the status read as both from and to: the
   model keeps that there is such a row, not which status it repeats. *)
DriverRejectOrder(r, d, o) ==
    /\ status[o] # "none"
    /\ Start(r, [Idle EXCEPT !.op = "reject", !.pc = "log", !.order = o, !.who = d,
                             !.actor = "driver", !.from = "same", !.to = "same"])
    /\ UNCHANGED <<money, status, columns, log, calls, history>>

(* complete_trip's distance and duration are taken as given. *)
DriverUpdateOrderStatus(r, d, o, e, c) ==
    /\ driver[o] = d /\ status[o] = e[1]
    /\ e[2] = "on_trip" => otp[o] # None /\ c = otp[o]
    /\ Start(r, [Idle EXCEPT !.op = "advance", !.pc = "write", !.order = o, !.who = d,
                             !.actor = "driver", !.from = e[1], !.to = e[2],
                             !.code = IF e[2] = "on_trip" THEN c ELSE None])
    /\ UNCHANGED <<money, status, columns, log, calls, history>>

InternalUpdateStatus(r, o, s) ==
    /\ status[o] \in Statuses \ Terminal
    /\ Start(r, [Idle EXCEPT !.op = "internal", !.pc = "write", !.order = o,
                             !.actor = "system", !.from = status[o], !.to = s])
    /\ UNCHANGED <<money, status, columns, log, calls, history>>

-----------------------------------------------------------------------------
(* The conditional UPDATEs of the repository: rows matched or not. *)

(* Mutants: UPDATEs that have lost their condition on the status. *)
CancelEvenOnTrip(o) == status[o] \notin Terminal
AssignUnlessOver(o) == status[o] \notin Terminal
UpdateAnyStatus(o, from) == TRUE

SetCancelledMatches(o)   == status[o] \notin {"completed", "cancelled", "on_trip"}
AssignDriverMatches(o)   == status[o] = "finding_driver"
UpdateStatusMatches(o, from) == status[o] = from

SetCancelled(r) ==
    LET o == req[r].order IN
    /\ req[r].op = "cancel" /\ req[r].pc = "write" /\ SetCancelledMatches(o)
    /\ Move(o, "cancelled")
    /\ cancelledBy' = [cancelledBy EXCEPT ![o] = "user"]
    /\ WrittenThen(r, "log")
    /\ UNCHANGED <<money, owner, driver, otp, fare, log, calls>>

AssignDriver(r) ==
    LET o == req[r].order IN
    /\ req[r].op = "assign" /\ req[r].pc = "write" /\ AssignDriverMatches(o)
    /\ Move(o, "assigned")
    /\ driver' = [driver EXCEPT ![o] = req[r].who]
    /\ otp' = [otp EXCEPT ![o] = req[r].code]
    /\ WrittenThen(r, "log")
    /\ UNCHANGED <<money, owner, cancelledBy, fare, log, calls>>

UpdateStatus(r) ==
    LET o == req[r].order IN
    /\ req[r].op \in {"advance", "internal"} /\ req[r].pc = "write"
    /\ UpdateStatusMatches(o, req[r].from)
    /\ Move(o, req[r].to)
    /\ WrittenThen(r, "log")
    /\ UNCHANGED <<money, columns, log, calls>>

(* No row matched, or the statement failed: the handler answers an error. *)
WriteRefused(r) ==
    LET o == req[r].order IN
    /\ req[r].pc \in {"write", "insert"}
    /\ \/ DBError
       \/ req[r].op = "cancel" /\ ~SetCancelledMatches(o)
       \/ req[r].op = "assign" /\ ~AssignDriverMatches(o)
       \/ req[r].op \in {"advance", "internal"} /\ ~UpdateStatusMatches(o, req[r].from)
    /\ End(r)
    /\ UNCHANGED <<money, status, columns, log, calls, history>>

-----------------------------------------------------------------------------
(* After the write: the log row (best effort), then what the handler leaves
   behind. *)

(* Mutants: effects for wallet orders only, dispatch of wallet orders only. *)
EffectsIfPaid(q) == q.op = "advance" /\ q.to = "completed" /\ q.order \in gopay
DispatchIfPaid(q) == q.op = "create" /\ q.order \in gopay
HasEffects(q) == q.op = "advance" /\ q.to = "completed"
Dispatches(q) == q.op = "create"

InsertStateLog(r) ==
    LET q == req[r] IN
    /\ q.pc = "log"
    /\ \/ log' = log \cup {<<q.order, q.from, q.to, q.actor>>}
       \/ DBError /\ UNCHANGED log
    /\ IF HasEffects(q) THEN Goto(r, "effects") ELSE End(r)
    /\ outbox' = IF Dispatches(q) THEN outbox \cup {<<"dispatch", q.order, None>>}
                                  ELSE outbox
    /\ UNCHANGED <<money, status, columns, delivered, history>>

(* complete_trip: SetFareFinal (best effort) and the FreeDriver goroutine. *)
CompleteTripEffects(r) ==
    LET q == req[r] IN
    /\ q.pc = "effects"
    /\ \/ fare' = [fare EXCEPT ![q.order] = TRUE]
       \/ DBError /\ UNCHANGED fare
    /\ outbox' = outbox \cup {<<"free", q.order, q.who>>}
    /\ End(r)
    /\ UNCHANGED <<money, status, owner, driver, otp, cancelledBy, log, delivered, history>>

(* A goroutine's call to the matching service: received, or given up. *)
Deliver(c) ==
    /\ c \in outbox
    /\ outbox' = outbox \ {c}
    /\ \/ delivered' = delivered \cup {c}
       \/ "net" \in Faults /\ UNCHANGED delivered
    /\ UNCHANGED <<money, status, columns, log, req, history>>

(* The process dies: handlers in flight and goroutines are lost, rows stay. *)
Crash ==
    /\ "crash" \in Faults
    /\ req' = [r \in Reqs |-> Idle] /\ outbox' = {}
    /\ UNCHANGED <<money, status, columns, log, delivered, history>>

-----------------------------------------------------------------------------
Arrive(r) ==
    \E o \in Orders :
      \/ \E u \in Users : \/ \E pay \in {"gopay", "cash"} : CreateOrder(r, u, o, pay)
                          \/ CancelOrder(r, u, o)
      \/ \E d \in Drivers : \/ DriverAcceptOrder(r, d, o) \/ InternalAssignDriver(r, d, o)
                            \/ DriverRejectOrder(r, d, o)
                            \/ \E e \in driverTransitions, c \in Codes :
                                 DriverUpdateOrderStatus(r, d, o, e, c)
      \/ \E s \in InternalTargets : InternalUpdateStatus(r, o, s)

Handle(r) == \/ DebitWallet(r) \/ InsertOrder(r)
             \/ SetCancelled(r) \/ AssignDriver(r) \/ UpdateStatus(r) \/ WriteRefused(r)
             \/ InsertStateLog(r) \/ CompleteTripEffects(r)

Next == \/ \E r \in Reqs : Arrive(r) \/ Handle(r)
        \/ \E c \in outbox : Deliver(c)
        \/ Crash

Spec == Init /\ [][Next]_vars

(* A handler that has started runs on, a goroutine's call is made. *)
Fairness == /\ \A r \in Reqs : WF_vars(Handle(r))
            /\ WF_vars(\E c \in outbox : Deliver(c))

-----------------------------------------------------------------------------
(* Properties *)

(* The handlers implement the lifecycle: however requests interleave, and    *)
(* whatever they read before, each step is one transition of the table, and  *)
(* an order is given to a driver only out of finding_driver.                 *)
Lifecycle == INSTANCE RideLifecycle
ImplementsLifecycle == Lifecycle!Spec

(* A driver's update that will still match its row is that of the driver who *)
(* holds the order now, and a trip starts only on the order's current code:  *)
(* the UPDATE asks for neither, so this rests on the status alone.  The one  *)
(* way round it is an internal caller that sends the order back to           *)
(* finding_driver (InternalUpdateStatus takes any status) while the update   *)
(* is pending; without that, no interleaving of assignments, cancels, other  *)
(* internal updates and faults reaches it.                                   *)
UpdateByHolder ==
    \A r \in Reqs : LET q == req[r] IN
        q.op = "advance" /\ q.pc = "write" /\ UpdateStatusMatches(q.order, q.from)
        /\ <<q.order, q.who>> \notin crossed
          => /\ driver[q.order] = q.who
             /\ q.to = "on_trip" => q.code = otp[q.order]

(* An order the user cancelled stays cancelled.                              *)
UserCancelFinal == \A o \in Orders : cancelledBy[o] = "user" => status[o] = "cancelled"

(* A user's cancel never ends a trip under way, even one that started after  *)
(* the cancel handler read the order.                                        *)
UserCancelsBeforeTrip ==
    [][\A o \in Orders : cancelledBy'[o] # cancelledBy[o] => status[o] \in cancellableStates]_vars

(* No row paid from the wallet without the debit.                            *)
PaidBeforeInserted == \A o \in gopay : status[o] # "none" => o \in debited

(* FreeDriver is asked for, and the fare set, only for a completed order, and *)
(* the driver freed is the one the order names, but for an update that the    *)
(* order was taken from while it was pending (UpdateByHolder).                *)
EffectsOfCompletion ==
    /\ \A o \in Orders : fare[o] => status[o] = "completed"
    /\ \A c \in outbox \cup delivered : c[1] = "free" =>
         /\ status[c[2]] = "completed"
         /\ driver[c[2]] = c[3] \/ <<c[2], c[3]>> \in crossed

(* A log row of a driver or of the system that changes the status tells of a *)
(* change that took place.                                                   *)
LogTruthful == \A l \in log : l[4] # "user" /\ l[2] # l[3] => <<l[1], l[2], l[3]>> \in took

(* Without faults, a completed trip gets its fare and its driver is freed,   *)
(* and every order that waits for a driver is dispatched.                    *)
CompletedSettles ==
    \A o \in Orders :
      (status[o] = "completed") ~> (fare[o] /\ <<"free", o, driver[o]>> \in delivered)
OrderIsDispatched ==
    \A o \in Orders : (status[o] = "finding_driver") ~> (<<"dispatch", o, None>> \in delivered)

(* The inductive invariant: what a handler read is still true, or what it is *)
(* about to do cannot match.                                                 *)
ReqOK(q) ==
    /\ q.pc # "idle" => q.order \in Orders /\ q.actor # "none"
    /\ q.pc \in {"debit", "insert"} =>
         /\ q.op = "create" /\ q.to = "finding_driver" /\ q.actor = "user"
         /\ q.order \in refs /\ q.who \in Users /\ status[q.order] = "none"
         /\ q.pc = "debit" => q.order \in gopay
         /\ q.pc = "insert" /\ q.order \in gopay => q.order \in debited
    /\ q.pc = "write" =>
         /\ q.op \in {"cancel", "assign", "advance", "internal"}
         /\ status[q.order] # "none"
         /\ q.op = "cancel" => q.actor = "user" /\ q.to = "cancelled"
         /\ q.op = "assign" => /\ q.who \in Drivers /\ q.code \in Codes
                               /\ q.from = "finding_driver" /\ q.to = "assigned"
         /\ q.op = "advance" => /\ q.who \in Drivers /\ driver[q.order] # None
                                /\ <<q.from, q.to>> \in driverTransitions
                                /\ <<q.order, q.who>> \notin crossed =>
                                     /\ driver[q.order] = q.who
                                     /\ status[q.order] # "finding_driver"
                                     /\ q.to = "on_trip" => q.code = otp[q.order]
         /\ q.op = "internal" => q.from \in Statuses \ Terminal /\ q.to \in InternalTargets
    /\ q.pc = "log" =>
         /\ q.to \in Statuses \cup {"same"}
         /\ q.actor # "user" /\ q.from # q.to => <<q.order, q.from, q.to>> \in took
    /\ q.pc = "effects" \/ (q.pc = "log" /\ HasEffects(q)) =>
         /\ q.who \in Drivers /\ status[q.order] = "completed"
         /\ driver[q.order] = q.who \/ <<q.order, q.who>> \in crossed
RowOK(o) ==
    /\ o \notin refs => status[o] = "none"
    /\ status[o] = "none" => driver[o] = None
    /\ cancelledBy[o] = "user" => status[o] = "cancelled"
    /\ fare[o] => status[o] = "completed"
    /\ o \in gopay /\ status[o] # "none" => o \in debited
CreatesApart ==
    \A r, s \in Reqs :
      r # s /\ req[r].pc \in {"debit", "insert"} /\ req[s].pc \in {"debit", "insert"}
        => req[r].order # req[s].order
CallOK(c) == c[1] = "free" => /\ status[c[2]] = "completed"
                              /\ driver[c[2]] = c[3] \/ <<c[2], c[3]>> \in crossed
IInv == /\ TypeOK
        /\ \A r \in Reqs : ReqOK(req[r])
        /\ \A o \in Orders : RowOK(o)
        /\ CreatesApart
        /\ \A c \in outbox \cup delivered : CallOK(c)
        /\ LogTruthful

(* Claims of the documentation. *)

(* A user has at most one active order: "User must not have an active order" *)
OneActiveOrder == \A u \in Users : Cardinality(Active(u)) <= 1
=============================================================================
