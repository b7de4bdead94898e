-------------------------- MODULE RideOrderProofs --------------------------
(***************************************************************************)
(* Proofs about RideOrder for every value of its constants: the inductive  *)
(* invariant IInv, the safety properties it implies, and the refinement of *)
(* RideLifecycle.                                                          *)
(***************************************************************************)
EXTENDS RideOrder, TLAPS

(* An idle slot promises nothing. *)
LEMMA IdleSlot == Idle \in Requests /\ Idle.pc = "idle" /\ Idle.op = "none" /\ Idle.order = None
  BY DEF Idle, Requests, Pcs, Ops, Statuses

LEMMA InitIInv == Init => IInv
  BY RideOrderAssumption, SMTT(30)
  DEF Init, IInv, TypeOK, ReqOK, HasEffects, RowOK, CreatesApart, CallOK, LogTruthful, Requests, Idle,
      Pcs, Ops, Statuses, Terminal

(* A slot that takes a request whose promises hold, and no other change: the *)
(* reading half of every handler but CreateOrder, and every early return.    *)
LEMMA SlotStep ==
  ASSUME IInv, NEW r \in Reqs, NEW q \in Requests, ReqOK(q), q.pc \notin {"debit", "insert"},
         req' = [req EXCEPT ![r] = q],
         UNCHANGED <<money, status, columns, log, calls, history>>
  PROVE  IInv'
  <1> USE DEF IInv, money, columns, calls, history
  <1>1. TypeOK'
    BY DEF TypeOK
  <1>2. \A s \in Reqs : ReqOK(req[s])'
    <2>1. \A s \in Reqs : req'[s] = IF s = r THEN q ELSE req[s]
      BY DEF TypeOK
    <2>2. \A s \in Reqs : ReqOK(req'[s])
      BY <2>1
    <2>3. \A x : ReqOK(x) => ReqOK(x)'
      BY DEF ReqOK, HasEffects
    <2> QED
      BY <2>2 DEF ReqOK, HasEffects
  <1>3. \A o \in Orders : RowOK(o)'
    BY DEF RowOK
  <1>4. CreatesApart'
    BY DEF TypeOK, CreatesApart
  <1>5. \A c \in (outbox \cup delivered)' : CallOK(c)'
    BY DEF CallOK
  <1>6. LogTruthful'
    BY DEF LogTruthful
  <1> QED
    BY <1>1, <1>2, <1>3, <1>4, <1>5, <1>6

LEMMA CreateOrderStep ==
  ASSUME IInv, NEW r \in Reqs, NEW u \in Users, NEW o \in Orders, NEW pay \in {"gopay", "cash"},
         CreateOrder(r, u, o, pay)
  PROVE  IInv'
  <1> DEFINE q == [Idle EXCEPT !.op = "create", !.order = o, !.who = u, !.actor = "user",
                               !.to = "finding_driver",
                               !.pc = IF pay = "gopay" THEN "debit" ELSE "insert"]
  <1> USE RideOrderAssumption DEF IInv, CreateOrder, FirstStep, Start, columns, calls, history
  <1>1. /\ q \in Requests /\ q.order = o /\ q.op = "create" /\ q.who = u
        /\ q.actor = "user" /\ q.to = "finding_driver"
        /\ q.pc = IF pay = "gopay" THEN "debit" ELSE "insert"
    BY DEF Requests, Idle, Pcs, Ops, Statuses
  <1>2. req' = [req EXCEPT ![r] = q]
    OBVIOUS
  <1> HIDE DEF q
  <1>3. TypeOK'
    BY <1>1, <1>2 DEF TypeOK
  <1>4. \A s \in Reqs : ReqOK(req[s])'
    BY <1>1, <1>2 DEF TypeOK, ReqOK, HasEffects, RowOK
  <1>5. \A p \in Orders : RowOK(p)'
    BY DEF TypeOK, RowOK
  <1>6. CreatesApart'
    <2> SUFFICES ASSUME NEW s \in Reqs, NEW t \in Reqs, s # t,
                        req'[s].pc \in {"debit", "insert"}, req'[t].pc \in {"debit", "insert"}
                 PROVE  req'[s].order # req'[t].order
      BY DEF CreatesApart
    <2>1. \A x \in Reqs : req[x].pc \in {"debit", "insert"} => req[x].order # o
      BY DEF ReqOK, HasEffects
    <2> QED
      BY <1>1, <1>2, <2>1 DEF TypeOK, CreatesApart
  <1>7. \A c \in (outbox \cup delivered)' : CallOK(c)'
    BY DEF CallOK
  <1>8. LogTruthful'
    BY DEF LogTruthful
  <1> QED
    BY <1>3, <1>4, <1>5, <1>6, <1>7, <1>8

LEMMA ReadStep ==
  ASSUME IInv, NEW r \in Reqs, NEW o \in Orders,
         \/ \E u \in Users : CancelOrder(r, u, o)
         \/ \E d \in Drivers, a \in {"driver", "system"} : AcceptOrder(r, d, o, a)
         \/ \E d \in Drivers : DriverRejectOrder(r, d, o)
         \/ \E d \in Drivers, e \in driverTransitions, c \in Codes :
              DriverUpdateOrderStatus(r, d, o, e, c)
         \/ \E s \in InternalTargets : InternalUpdateStatus(r, o, s)
  PROVE  IInv'
  <1> USE RideOrderAssumption DEF Start
  <1>1. CASE \E u \in Users : CancelOrder(r, u, o)
    <2> PICK u \in Users : CancelOrder(r, u, o)
      BY <1>1
    <2> DEFINE q == [Idle EXCEPT !.op = "cancel", !.pc = "write", !.order = o, !.who = u,
                                 !.actor = "user", !.from = status[o], !.to = "cancelled"]
    <2>1. q \in Requests
      BY DEF CancelOrder, Requests, Idle, Pcs, Ops, Statuses, cancellableStates
    <2>2. q.pc = "write" /\ q.order = o /\ q.op = "cancel" /\ q.to = "cancelled" /\ q.actor = "user"
      BY DEF Idle
    <2>3. req' = [req EXCEPT ![r] = q] /\ UNCHANGED <<money, status, columns, log, calls, history>>
      BY DEF CancelOrder
    <2> HIDE DEF q
    <2>4. ReqOK(q)
      BY <2>2 DEF CancelOrder, ReqOK, HasEffects, cancellableStates
    <2> QED
      BY <2>1, <2>2, <2>3, <2>4, SlotStep
  <1>2. CASE \E d \in Drivers, a \in {"driver", "system"} : AcceptOrder(r, d, o, a)
    <2> PICK d \in Drivers, a \in {"driver", "system"}, c \in Codes :
               /\ AcceptOrder(r, d, o, a)
               /\ req' = [req EXCEPT ![r] =
                            [Idle EXCEPT !.op = "assign", !.pc = "write", !.order = o,
                               !.who = d, !.actor = a, !.from = "finding_driver",
                               !.to = "assigned", !.code = c]]
      BY <1>2 DEF AcceptOrder
    <2> DEFINE q == [Idle EXCEPT !.op = "assign", !.pc = "write", !.order = o,
                                 !.who = d, !.actor = a, !.from = "finding_driver",
                                 !.to = "assigned", !.code = c]
    <2>1. q \in Requests /\ ReqOK(q) /\ q.pc = "write"
      BY DEF AcceptOrder, Requests, Idle, Pcs, Ops, Statuses, ReqOK, HasEffects
    <2>2. req' = [req EXCEPT ![r] = q] /\ UNCHANGED <<money, status, columns, log, calls, history>>
      BY DEF AcceptOrder
    <2> HIDE DEF q
    <2> QED
      BY <2>1, <2>2, SlotStep
  <1>3. CASE \E d \in Drivers : DriverRejectOrder(r, d, o)
    <2> PICK d \in Drivers : DriverRejectOrder(r, d, o)
      BY <1>3
    <2> DEFINE q == [Idle EXCEPT !.op = "reject", !.pc = "log", !.order = o, !.who = d,
                                 !.actor = "driver", !.from = "same", !.to = "same"]
    <2>1. q \in Requests /\ ReqOK(q) /\ q.pc = "log"
      BY DEF Requests, Idle, Pcs, Ops, Statuses, ReqOK, HasEffects
    <2>2. req' = [req EXCEPT ![r] = q] /\ UNCHANGED <<money, status, columns, log, calls, history>>
      BY DEF DriverRejectOrder
    <2> HIDE DEF q
    <2> QED
      BY <2>1, <2>2, SlotStep
  <1>4. CASE \E d \in Drivers, e \in driverTransitions, c \in Codes :
               DriverUpdateOrderStatus(r, d, o, e, c)
    <2> PICK d \in Drivers, e \in driverTransitions, c \in Codes :
               DriverUpdateOrderStatus(r, d, o, e, c)
      BY <1>4
    <2> DEFINE q == [Idle EXCEPT !.op = "advance", !.pc = "write", !.order = o, !.who = d,
                                 !.actor = "driver", !.from = e[1], !.to = e[2],
                                 !.code = IF e[2] = "on_trip" THEN c ELSE None]
    <2>0. e = <<e[1], e[2]>> /\ e[1] \in Statuses \ Terminal /\ e[2] \in Statuses
          /\ e[1] # "finding_driver"
      BY DEF driverTransitions, Statuses, Terminal
    <2>1. q \in Requests
      BY <2>0 DEF Requests, Idle, Pcs, Ops
    <2>2. /\ q.pc = "write" /\ q.order = o /\ q.op = "advance" /\ q.who = d
          /\ q.from = e[1] /\ q.to = e[2] /\ q.actor = "driver"
          /\ q.code = IF e[2] = "on_trip" THEN c ELSE None
      BY DEF Idle
    <2>3. req' = [req EXCEPT ![r] = q] /\ UNCHANGED <<money, status, columns, log, calls, history>>
      BY DEF DriverUpdateOrderStatus
    <2> HIDE DEF q
    <2>4. ReqOK(q)
      <3>1. status[o] = e[1] /\ driver[o] = d
        BY DEF DriverUpdateOrderStatus
      <3>2. q.to = "on_trip" => q.code = otp[o]
        BY <2>2 DEF DriverUpdateOrderStatus
      <3> QED
        BY <2>0, <2>2, <3>1, <3>2 DEF ReqOK, HasEffects, Statuses
    <2> QED
      BY <2>1, <2>2, <2>3, <2>4, SlotStep
  <1>5. CASE \E s \in InternalTargets : InternalUpdateStatus(r, o, s)
    <2> PICK s \in InternalTargets : InternalUpdateStatus(r, o, s)
      BY <1>5
    <2> DEFINE q == [Idle EXCEPT !.op = "internal", !.pc = "write", !.order = o,
                                 !.actor = "system", !.from = status[o], !.to = s]
    <2>1. q \in Requests /\ ReqOK(q) /\ q.pc = "write"
      BY DEF InternalUpdateStatus, Requests, Idle, Pcs, Ops, Statuses, ReqOK, HasEffects
    <2>2. req' = [req EXCEPT ![r] = q] /\ UNCHANGED <<money, status, columns, log, calls, history>>
      BY DEF InternalUpdateStatus
    <2> HIDE DEF q
    <2> QED
      BY <2>1, <2>2, SlotStep
  <1> QED
    BY <1>1, <1>2, <1>3, <1>4, <1>5

-----------------------------------------------------------------------------
(* The slot after a write that was acknowledged, or whose answer was lost. *)
LEMMA WrittenSlot ==
  ASSUME TypeOK, NEW r \in Reqs, WrittenThen(r, "log")
  PROVE  \E p \in Requests :
           /\ req' = [req EXCEPT ![r] = p]
           /\ \/ p = Idle
              \/ /\ p.pc = "log" /\ p.order = req[r].order /\ p.op = req[r].op
                 /\ p.who = req[r].who /\ p.actor = req[r].actor
                 /\ p.from = req[r].from /\ p.to = req[r].to
  <1>1. CASE Goto(r, "log")
    <2> DEFINE p == [req[r] EXCEPT !.pc = "log"]
    <2>0. req[r] \in Requests
      BY DEF TypeOK
    <2>1. p \in Requests /\ p.pc = "log" /\ p.order = req[r].order /\ p.op = req[r].op
          /\ p.who = req[r].who /\ p.actor = req[r].actor
          /\ p.from = req[r].from /\ p.to = req[r].to
      BY <2>0 DEF Requests, Pcs
    <2>2. req' = [req EXCEPT ![r] = p]
      BY <1>1 DEF Goto
    <2> QED
      BY <2>1, <2>2
  <1>2. CASE End(r)
    BY <1>2, IdleSlot DEF End
  <1> QED
    BY <1>1, <1>2 DEF WrittenThen

LEMMA DebitWalletStep ==
  ASSUME IInv, NEW r \in Reqs, DebitWallet(r)
  PROVE  IInv'
  <1> USE DEF IInv, DebitWallet, DebitRefused, columns, calls, history
  <1>1. PICK p \in Requests :
               /\ req' = [req EXCEPT ![r] = p]
               /\ \/ p = Idle
                  \/ /\ p.pc = "insert" /\ p.order = req[r].order /\ p.op = req[r].op
                     /\ p.who = req[r].who /\ p.actor = req[r].actor /\ p.to = req[r].to
                     /\ req[r].order \in debited'
    <2>1. CASE End(r)
      BY <2>1, IdleSlot DEF End
    <2>2. CASE Goto(r, "insert") /\ debited' = debited \cup {req[r].order}
      <3> DEFINE p == [req[r] EXCEPT !.pc = "insert"]
      <3>0. req[r] \in Requests
        BY DEF TypeOK
      <3>1. p \in Requests /\ p.pc = "insert" /\ p.order = req[r].order /\ p.op = req[r].op
            /\ p.who = req[r].who /\ p.actor = req[r].actor /\ p.to = req[r].to
        BY <3>0 DEF Requests, Pcs
      <3>2. req' = [req EXCEPT ![r] = p]
        BY <2>2 DEF Goto
      <3> QED
        BY <2>2, <3>1, <3>2
    <2> QED
      BY <2>1, <2>2
  <1>2. req[r].order \in gopay /\ debited \subseteq debited' /\ debited' \subseteq gopay
    BY DEF ReqOK, HasEffects, TypeOK
  <1>3. TypeOK'
    BY <1>1, <1>2 DEF TypeOK
  <1>4. \A s \in Reqs : ReqOK(req[s])'
    <2>1. \A s \in Reqs \ {r} : ReqOK(req[s])'
      BY <1>1, <1>2 DEF TypeOK, ReqOK, HasEffects
    <2>2. ReqOK(req[r])'
      <3>1. CASE p = Idle
        BY <1>1, <3>1, IdleSlot DEF TypeOK, ReqOK, HasEffects
      <3>2. CASE p # Idle
        BY <1>1, <3>2 DEF TypeOK, ReqOK, HasEffects
      <3> QED
        BY <3>1, <3>2
    <2> QED
      BY <2>1, <2>2
  <1>5. \A o \in Orders : RowOK(o)'
    BY <1>2 DEF RowOK
  <1>6. CreatesApart'
    BY <1>1, IdleSlot DEF TypeOK, CreatesApart
  <1>7. \A c \in (outbox \cup delivered)' : CallOK(c)'
    BY DEF CallOK
  <1>8. LogTruthful'
    BY DEF LogTruthful
  <1> QED
    BY <1>3, <1>4, <1>5, <1>6, <1>7, <1>8

(* A status change leaves no pending update of the order uncrossed when it   *)
(* gives the order back, and crosses none otherwise.                         *)
LEMMA MoveCrosses ==
  ASSUME TypeOK, NEW o \in Orders, NEW s, Move(o, s)
  PROVE  /\ crossed \subseteq crossed' /\ crossed' \subseteq Orders \X Drivers
         /\ s # "finding_driver" => crossed' = crossed
         /\ s = "finding_driver" =>
              \A r \in Reqs : req[r].op = "advance" /\ req[r].pc = "write" /\ req[r].order = o
                              /\ req[r].who \in Drivers
                                => <<o, req[r].who>> \in crossed'
  BY DEF Move, Pending, TypeOK

LEMMA InsertOrderStep ==
  ASSUME IInv, NEW r \in Reqs, InsertOrder(r)
  PROVE  IInv'
  <1> DEFINE o == req[r].order
  <1> USE DEF IInv
  <1>0. /\ status' = [status EXCEPT ![o] = "finding_driver"]
        /\ took' = took \cup {<<o, status[o], "finding_driver">>}
        /\ owner' = [owner EXCEPT ![o] = req[r].who]
        /\ WrittenThen(r, "log")
        /\ UNCHANGED <<refs, gopay, debited, driver, otp, cancelledBy, fare, log, outbox, delivered>>
    BY DEF InsertOrder, Move, money, calls
  <1>1. PICK p \in Requests :
           /\ req' = [req EXCEPT ![r] = p]
           /\ \/ p = Idle
              \/ /\ p.pc = "log" /\ p.order = o /\ p.op = req[r].op
                 /\ p.who = req[r].who /\ p.actor = req[r].actor
                 /\ p.from = req[r].from /\ p.to = req[r].to
    BY <1>0, WrittenSlot
  <1>2. /\ o \in Orders /\ o \in refs /\ status[o] = "none" /\ driver[o] = None
        /\ req[r].who \in Users /\ req[r].op = "create" /\ req[r].actor = "user"
        /\ req[r].to = "finding_driver" /\ (o \in gopay => o \in debited)
        /\ req[r].pc = "insert" /\ fare[o] = FALSE /\ cancelledBy[o] # "user"
    BY DEF InsertOrder, ReqOK, HasEffects, RowOK, TypeOK
  <1>2a. crossed \subseteq crossed' /\ crossed' \subseteq Orders \X Drivers
    BY <1>2, MoveCrosses DEF InsertOrder
  <1>3. TypeOK'
    BY <1>0, <1>1, <1>2, <1>2a DEF TypeOK, Statuses
  <1>4. \A s \in Reqs : ReqOK(req[s])'
    <2>1. \A s \in Reqs \ {r} : req[s].pc \in {"debit", "insert"} => req[s].order # o
      BY <1>2 DEF CreatesApart
    <2> HIDE DEF o
    <2>2. CASE p = Idle
      BY <1>0, <1>1, <1>2, <1>2a, <2>1, <2>2, IdleSlot DEF TypeOK, ReqOK, HasEffects
    <2>3. CASE p # Idle
      BY <1>0, <1>1, <1>2, <1>2a, <2>1, <2>3 DEF TypeOK, ReqOK, HasEffects, Statuses
    <2> QED
      BY <2>2, <2>3
  <1>5. \A x \in Orders : RowOK(x)'
    BY <1>0, <1>2 DEF RowOK, TypeOK
  <1>6. CreatesApart'
    BY <1>0, <1>1, IdleSlot DEF TypeOK, CreatesApart
  <1>7. \A c \in (outbox \cup delivered)' : CallOK(c)'
    BY <1>0, <1>2, <1>2a DEF CallOK, TypeOK
  <1>8. LogTruthful'
    BY <1>0 DEF LogTruthful
  <1> QED
    BY <1>3, <1>4, <1>5, <1>6, <1>7, <1>8

LEMMA SetCancelledStep ==
  ASSUME IInv, NEW r \in Reqs, SetCancelled(r)
  PROVE  IInv'
  <1> DEFINE o == req[r].order
  <1> USE DEF IInv
  <1>0. /\ status' = [status EXCEPT ![o] = "cancelled"]
        /\ took' = took \cup {<<o, status[o], "cancelled">>}
        /\ cancelledBy' = [cancelledBy EXCEPT ![o] = "user"]
        /\ WrittenThen(r, "log")
        /\ UNCHANGED <<refs, gopay, debited, driver, otp, owner, fare, log, outbox, delivered>>
    BY DEF SetCancelled, Move, money, calls
  <1>1. PICK p \in Requests :
           /\ req' = [req EXCEPT ![r] = p]
           /\ \/ p = Idle
              \/ /\ p.pc = "log" /\ p.order = o /\ p.op = req[r].op
                 /\ p.who = req[r].who /\ p.actor = req[r].actor
                 /\ p.from = req[r].from /\ p.to = req[r].to
    BY <1>0, WrittenSlot
  <1>2. /\ o \in Orders /\ status[o] \in Statuses \ {"completed"} /\ o \in refs
        /\ req[r].op = "cancel" /\ req[r].actor = "user" /\ req[r].to = "cancelled"
        /\ req[r].pc = "write" /\ fare[o] = FALSE
    BY DEF SetCancelled, SetCancelledMatches, ReqOK, HasEffects, RowOK, TypeOK
  <1>2a. crossed' = crossed
    BY <1>2, MoveCrosses DEF SetCancelled
  <1>3. TypeOK'
    BY <1>0, <1>1, <1>2, <1>2a DEF TypeOK, Statuses
  <1>4. \A s \in Reqs : ReqOK(req[s])'
    <2> HIDE DEF o
    <2>1. \A s \in Reqs \ {r} : ReqOK(req[s])'
      BY <1>0, <1>1, <1>2, <1>2a DEF TypeOK, ReqOK, HasEffects, Statuses
    <2>2. ReqOK(req[r])'
      <3>1. CASE p = Idle
        BY <1>1, <3>1, IdleSlot DEF TypeOK, ReqOK, HasEffects
      <3>2. CASE p # Idle
        BY <1>0, <1>1, <1>2, <3>2 DEF TypeOK, ReqOK, HasEffects, Statuses
      <3> QED
        BY <3>1, <3>2
    <2> QED
      BY <2>1, <2>2
  <1>5. \A x \in Orders : RowOK(x)'
    BY <1>0, <1>2 DEF RowOK, TypeOK, Statuses
  <1>6. CreatesApart'
    BY <1>0, <1>1, IdleSlot DEF TypeOK, CreatesApart
  <1>7. \A c \in (outbox \cup delivered)' : CallOK(c)'
    BY <1>0, <1>2, <1>2a DEF CallOK, TypeOK
  <1>8. LogTruthful'
    BY <1>0 DEF LogTruthful
  <1> QED
    BY <1>3, <1>4, <1>5, <1>6, <1>7, <1>8

LEMMA AssignDriverStep ==
  ASSUME IInv, NEW r \in Reqs, AssignDriver(r)
  PROVE  IInv'
  <1> DEFINE o == req[r].order
  <1> USE RideOrderAssumption DEF IInv
  <1>0. /\ status' = [status EXCEPT ![o] = "assigned"]
        /\ took' = took \cup {<<o, "finding_driver", "assigned">>}
        /\ driver' = [driver EXCEPT ![o] = req[r].who]
        /\ otp' = [otp EXCEPT ![o] = req[r].code]
        /\ WrittenThen(r, "log")
        /\ UNCHANGED <<refs, gopay, debited, cancelledBy, owner, fare, log, outbox, delivered>>
    BY DEF AssignDriver, AssignDriverMatches, Move, money, calls
  <1>1. PICK p \in Requests :
           /\ req' = [req EXCEPT ![r] = p]
           /\ \/ p = Idle
              \/ /\ p.pc = "log" /\ p.order = o /\ p.op = req[r].op
                 /\ p.who = req[r].who /\ p.actor = req[r].actor
                 /\ p.from = req[r].from /\ p.to = req[r].to
    BY <1>0, WrittenSlot
  <1>2. /\ o \in Orders /\ status[o] = "finding_driver" /\ o \in refs
        /\ req[r].op = "assign" /\ req[r].who \in Drivers /\ req[r].code \in Codes
        /\ req[r].from = "finding_driver" /\ req[r].to = "assigned" /\ req[r].actor # "none"
        /\ req[r].pc = "write" /\ fare[o] = FALSE /\ cancelledBy[o] # "user"
    <2>1. /\ req[r].op = "assign" /\ req[r].pc = "write" /\ status[o] = "finding_driver"
          /\ ReqOK(req[r])
      BY DEF AssignDriver, AssignDriverMatches
    <2>2. o \in Orders /\ req[r].who \in Drivers /\ req[r].code \in Codes
          /\ req[r].from = "finding_driver" /\ req[r].to = "assigned" /\ req[r].actor # "none"
      BY <2>1 DEF ReqOK, HasEffects
    <2>3. RowOK(o)
      BY <2>2
    <2> QED
      BY <2>1, <2>2, <2>3 DEF RowOK, TypeOK
  <1>2a. crossed' = crossed
    BY <1>2, MoveCrosses DEF AssignDriver
  <1>3. TypeOK'
    BY <1>0, <1>1, <1>2, <1>2a DEF TypeOK, Statuses
  <1>4. \A s \in Reqs : ReqOK(req[s])'
    <2> HIDE DEF o
    <2>1. \A s \in Reqs \ {r} : ReqOK(req[s])'
      BY <1>0, <1>1, <1>2, <1>2a DEF TypeOK, ReqOK, HasEffects, Statuses
    <2>2. ReqOK(req[r])'
      <3>1. CASE p = Idle
        BY <1>1, <3>1, IdleSlot DEF TypeOK, ReqOK, HasEffects
      <3>2. CASE p # Idle
        BY <1>0, <1>1, <1>2, <3>2 DEF TypeOK, ReqOK, HasEffects, Statuses
      <3> QED
        BY <3>1, <3>2
    <2> QED
      BY <2>1, <2>2
  <1>5. \A x \in Orders : RowOK(x)'
    BY <1>0, <1>2 DEF RowOK, TypeOK, Statuses
  <1>6. CreatesApart'
    BY <1>0, <1>1, IdleSlot DEF TypeOK, CreatesApart
  <1>7. \A c \in (outbox \cup delivered)' : CallOK(c)'
    BY <1>0, <1>2, <1>2a DEF CallOK, TypeOK
  <1>8. LogTruthful'
    BY <1>0 DEF LogTruthful
  <1> QED
    BY <1>3, <1>4, <1>5, <1>6, <1>7, <1>8

LEMMA UpdateStatusStep ==
  ASSUME IInv, NEW r \in Reqs, UpdateStatus(r)
  PROVE  IInv'
  <1> DEFINE o == req[r].order
             t == req[r].to
  <1> USE RideOrderAssumption DEF IInv
  <1>0. /\ status' = [status EXCEPT ![o] = t]
        /\ took' = took \cup {<<o, status[o], t>>}
        /\ WrittenThen(r, "log")
        /\ UNCHANGED <<refs, gopay, debited, driver, otp, cancelledBy, owner, fare, log,
                       outbox, delivered>>
    BY DEF UpdateStatus, Move, money, columns, calls
  <1>1. PICK p \in Requests :
           /\ req' = [req EXCEPT ![r] = p]
           /\ \/ p = Idle
              \/ /\ p.pc = "log" /\ p.order = o /\ p.op = req[r].op
                 /\ p.who = req[r].who /\ p.actor = req[r].actor
                 /\ p.from = req[r].from /\ p.to = t
    BY <1>0, WrittenSlot
  <1>2. /\ o \in Orders /\ o \in refs /\ req[r].pc = "write" /\ req[r].actor # "none"
        /\ status[o] = req[r].from /\ status[o] \in Statuses \ Terminal /\ t \in Statuses
        /\ (req[r].op = "advance" => /\ req[r].who \in Drivers
                                     /\ driver[o] = req[r].who \/ <<o, req[r].who>> \in crossed)
    BY DEF UpdateStatus, UpdateStatusMatches, ReqOK, HasEffects, RowOK, TypeOK, Statuses, Terminal,
           driverTransitions
  <1>2a. /\ crossed \subseteq crossed' /\ crossed' \subseteq Orders \X Drivers
         /\ t # "finding_driver" => crossed' = crossed
         /\ t = "finding_driver" =>
              \A s \in Reqs : req[s].op = "advance" /\ req[s].pc = "write" /\ req[s].order = o
                              /\ req[s].who \in Drivers
                                => <<o, req[s].who>> \in crossed'
    BY <1>2, MoveCrosses DEF UpdateStatus
  <1>3. fare[o] = FALSE /\ cancelledBy[o] # "user"
    BY <1>2 DEF RowOK, TypeOK, Terminal
  <1> HIDE DEF o, t
  <1>4. TypeOK'
    BY <1>0, <1>1, <1>2, <1>2a DEF TypeOK
  <1>5. \A s \in Reqs : ReqOK(req[s])'
    <2>1. \A s \in Reqs \ {r} : ReqOK(req[s])'
      BY <1>0, <1>1, <1>2, <1>2a DEF TypeOK, ReqOK, HasEffects, Statuses, Terminal
    <2>2. ReqOK(req[r])'
      <3>1. CASE p = Idle
        BY <1>1, <3>1, IdleSlot DEF TypeOK, ReqOK, HasEffects
      <3>2. CASE p # Idle
        <4>1. p.pc = "log" /\ p.order = o /\ p.to = t /\ req'[r] = p /\ p.actor # "none"
              /\ p.who = req[r].who /\ p.from = status[o] /\ p.op = req[r].op
          BY <1>1, <1>2, <3>2 DEF TypeOK
        <4>2. <<o, status[o], t>> \in took' /\ status'[o] = t /\ driver' = driver
          BY <1>0, <1>2 DEF TypeOK
        <4>3. HasEffects(p) => p.who \in Drivers /\ (driver[o] = p.who \/ <<o, p.who>> \in crossed')
          BY <1>2, <1>2a, <4>1 DEF HasEffects
        <4> QED
          BY <1>2, <4>1, <4>2, <4>3 DEF ReqOK, HasEffects
      <3> QED
        BY <3>1, <3>2
    <2> QED
      BY <2>1, <2>2
  <1>6. \A x \in Orders : RowOK(x)'
    BY <1>0, <1>2, <1>3 DEF RowOK, TypeOK, Statuses
  <1>7. CreatesApart'
    BY <1>0, <1>1, IdleSlot DEF TypeOK, CreatesApart
  <1>8. \A c \in (outbox \cup delivered)' : CallOK(c)'
    BY <1>0, <1>2, <1>2a DEF CallOK, TypeOK, Terminal
  <1>9. LogTruthful'
    BY <1>0 DEF LogTruthful
  <1> QED
    BY <1>4, <1>5, <1>6, <1>7, <1>8, <1>9

LEMMA WriteRefusedStep ==
  ASSUME IInv, NEW r \in Reqs, WriteRefused(r)
  PROVE  IInv'
  <1>1. req' = [req EXCEPT ![r] = Idle] /\ UNCHANGED <<money, status, columns, log, calls, history>>
    BY DEF WriteRefused, End
  <1>2. ReqOK(Idle)
    BY IdleSlot DEF ReqOK, HasEffects
  <1> QED
    BY <1>1, <1>2, IdleSlot, SlotStep

LEMMA InsertStateLogStep ==
  ASSUME IInv, NEW r \in Reqs, InsertStateLog(r)
  PROVE  IInv'
  <1> USE DEF IInv, money, columns, history
  <1>1. PICK p \in Requests :
           /\ req' = [req EXCEPT ![r] = p]
           /\ \/ p = Idle
              \/ /\ p.pc = "effects" /\ p.order = req[r].order /\ p.who = req[r].who
                 /\ p.actor = req[r].actor /\ req[r].op = "advance" /\ req[r].to = "completed"
    <2>1. CASE End(r)
      BY <2>1, IdleSlot DEF End
    <2>2. CASE Goto(r, "effects") /\ req[r].op = "advance" /\ req[r].to = "completed"
      <3> DEFINE p == [req[r] EXCEPT !.pc = "effects"]
      <3>0. req[r] \in Requests
        BY DEF TypeOK
      <3>1. p \in Requests /\ p.pc = "effects" /\ p.order = req[r].order /\ p.who = req[r].who
            /\ p.actor = req[r].actor
        BY <3>0 DEF Requests, Pcs
      <3>2. req' = [req EXCEPT ![r] = p]
        BY <2>2 DEF Goto
      <3> QED
        BY <2>2, <3>1, <3>2
    <2> QED
      BY <2>1, <2>2 DEF InsertStateLog, HasEffects, Dispatches
  <1>2. /\ req[r] \in Requests /\ req[r].pc = "log" /\ req[r].order \in Orders
        /\ req[r].to \in Statuses \cup {"same"} /\ req[r].actor # "none"
        /\ (req[r].actor # "user" /\ req[r].from # req[r].to
              => <<req[r].order, req[r].from, req[r].to>> \in took)
    BY DEF InsertStateLog, Dispatches, ReqOK, HasEffects, TypeOK
  <1>3. /\ log' \subseteq log \cup {<<req[r].order, req[r].from, req[r].to, req[r].actor>>}
        /\ outbox' \subseteq outbox \cup {<<"dispatch", req[r].order, None>>}
        /\ UNCHANGED <<refs, gopay, debited, status, owner, driver, otp, cancelledBy, fare,
                       delivered, took, crossed>>
    BY DEF InsertStateLog, HasEffects, Dispatches
  <1>4. TypeOK'
    BY <1>1, <1>2, <1>3 DEF TypeOK, Requests
  <1>5. \A s \in Reqs : ReqOK(req[s])'
    <2>1. \A s \in Reqs \ {r} : ReqOK(req[s])'
      BY <1>1, <1>3 DEF TypeOK, ReqOK, HasEffects
    <2>2. ReqOK(req[r])'
      <3>1. CASE p = Idle
        BY <1>1, <3>1, IdleSlot DEF TypeOK, ReqOK, HasEffects
      <3>2. CASE p # Idle
        BY <1>1, <1>2, <1>3, <3>2 DEF TypeOK, ReqOK, HasEffects
      <3> QED
        BY <3>1, <3>2
    <2> QED
      BY <2>1, <2>2
  <1>6. \A o \in Orders : RowOK(o)'
    BY <1>3 DEF RowOK
  <1>7. CreatesApart'
    BY <1>1, IdleSlot DEF TypeOK, CreatesApart
  <1>8. \A c \in (outbox \cup delivered)' : CallOK(c)'
    BY <1>3 DEF CallOK
  <1>9. LogTruthful'
    BY <1>2, <1>3 DEF LogTruthful
  <1> QED
    BY <1>4, <1>5, <1>6, <1>7, <1>8, <1>9

LEMMA CompleteTripEffectsStep ==
  ASSUME IInv, NEW r \in Reqs, CompleteTripEffects(r)
  PROVE  IInv'
  <1> DEFINE o == req[r].order
  <1> USE DEF IInv, money, history
  <1>1. /\ o \in Orders /\ status[o] = "completed" /\ req[r].who \in Drivers
        /\ driver[o] = req[r].who \/ <<o, req[r].who>> \in crossed
    BY DEF CompleteTripEffects, ReqOK, HasEffects
  <1>2. /\ req' = [req EXCEPT ![r] = Idle]
        /\ fare' = [fare EXCEPT ![o] = TRUE] \/ UNCHANGED fare
        /\ outbox' = outbox \cup {<<"free", o, req[r].who>>}
        /\ UNCHANGED <<refs, gopay, debited, status, owner, driver, otp, cancelledBy, log,
                       delivered, took, crossed>>
    BY DEF CompleteTripEffects, End
  <1> HIDE DEF o
  <1>3. TypeOK'
    <2>1. req' \in [Reqs -> Requests] /\ fare' \in [Orders -> BOOLEAN]
      BY <1>2, IdleSlot DEF TypeOK
    <2>2. outbox' \subseteq {"dispatch", "free"} \X Orders \X (Drivers \cup {None})
      BY <1>1, <1>2 DEF TypeOK
    <2> QED
      BY <1>2, <2>1, <2>2 DEF TypeOK
  <1>4. \A s \in Reqs : ReqOK(req[s])'
    BY <1>2, IdleSlot DEF TypeOK, ReqOK, HasEffects
  <1>5. \A x \in Orders : RowOK(x)'
    BY <1>1, <1>2 DEF RowOK, TypeOK
  <1>6. CreatesApart'
    BY <1>2, IdleSlot DEF TypeOK, CreatesApart
  <1>7. \A c \in (outbox \cup delivered)' : CallOK(c)'
    BY <1>1, <1>2 DEF CallOK
  <1>8. LogTruthful'
    BY <1>2 DEF LogTruthful
  <1> QED
    BY <1>3, <1>4, <1>5, <1>6, <1>7, <1>8

LEMMA BackgroundStep ==
  ASSUME IInv, (\E c \in outbox : Deliver(c)) \/ Crash
  PROVE  IInv'
  <1> USE DEF IInv, money, columns, Deliver, Crash, history
  <1>1. /\ \A s \in Reqs : req'[s] = req[s] \/ req'[s] = Idle
        /\ req' \in [Reqs -> Requests]
        /\ (outbox \cup delivered)' \subseteq outbox \cup delivered
        /\ UNCHANGED <<refs, gopay, debited, status, owner, driver, otp, cancelledBy, fare,
                       log, took, crossed>>
    BY IdleSlot DEF TypeOK
  <1>2. TypeOK'
    BY <1>1 DEF TypeOK
  <1>3. \A s \in Reqs : ReqOK(req[s])'
    BY <1>1, IdleSlot DEF ReqOK, HasEffects
  <1>4. \A o \in Orders : RowOK(o)'
    BY <1>1 DEF RowOK
  <1>5. CreatesApart'
    BY <1>1, IdleSlot DEF CreatesApart
  <1>6. \A c \in (outbox \cup delivered)' : CallOK(c)'
    BY <1>1 DEF CallOK
  <1>7. LogTruthful'
    BY <1>1 DEF LogTruthful
  <1> QED
    BY <1>2, <1>3, <1>4, <1>5, <1>6, <1>7

LEMMA NextIInv == IInv /\ [Next]_vars => IInv'
  <1> SUFFICES ASSUME IInv, [Next]_vars PROVE IInv'
    OBVIOUS
  <1>1. ASSUME NEW r \in Reqs, Arrive(r) PROVE IInv'
    BY <1>1, CreateOrderStep, ReadStep DEF Arrive, DriverAcceptOrder, InternalAssignDriver
  <1>2. ASSUME NEW r \in Reqs, Handle(r) PROVE IInv'
    BY <1>2, DebitWalletStep, InsertOrderStep, SetCancelledStep, AssignDriverStep,
       UpdateStatusStep, WriteRefusedStep, InsertStateLogStep, CompleteTripEffectsStep
    DEF Handle
  <1>3. CASE (\E c \in outbox : Deliver(c)) \/ Crash
    BY <1>3, BackgroundStep
  <1>4. CASE UNCHANGED vars
    BY <1>4 DEF vars, money, columns, calls, history, IInv, TypeOK, ReqOK, HasEffects, RowOK, CreatesApart, CallOK,
                LogTruthful
  <1> QED
    BY <1>1, <1>2, <1>3, <1>4 DEF Next

THEOREM Invariance == Spec => []IInv
  BY InitIInv, NextIInv, PTL DEF Spec

-----------------------------------------------------------------------------
(* The state variables always have their types.                              *)
THEOREM TypeCorrect == Spec => []TypeOK
  <1>1. IInv => TypeOK
    BY DEF IInv
  <1> QED
    BY <1>1, Invariance, PTL

(* A driver's update that will match its row is made by the driver who holds *)
(* the order, and a trip starts only on the order's current code, whatever   *)
(* internal callers ask for: only an update that was pending when its order  *)
(* was sent back to finding_driver may land on another driver's order.       *)
THEOREM HolderSafe == Spec => []UpdateByHolder
  <1>1. IInv => UpdateByHolder
    BY DEF IInv, UpdateByHolder, ReqOK, HasEffects
  <1> QED
    BY <1>1, Invariance, PTL

(* A user's cancellation is final.                                           *)
THEOREM CancelFinal == Spec => []UserCancelFinal
  <1>1. IInv => UserCancelFinal
    BY DEF IInv, UserCancelFinal, RowOK
  <1> QED
    BY <1>1, Invariance, PTL

(* No row paid from the wallet exists without its debit.                     *)
THEOREM PaidFirst == Spec => []PaidBeforeInserted
  <1>1. IInv => PaidBeforeInserted
    BY DEF IInv, TypeOK, PaidBeforeInserted, RowOK
  <1> QED
    BY <1>1, Invariance, PTL

(* Fares and FreeDriver calls exist only for completed orders, and for the   *)
(* driver the order names or one whose pending update it was taken from.     *)
THEOREM EffectsSafe == Spec => []EffectsOfCompletion
  <1>1. IInv => EffectsOfCompletion
    BY DEF IInv, EffectsOfCompletion, RowOK, CallOK
  <1> QED
    BY <1>1, Invariance, PTL

(* The log tells, for drivers and the system, only of changes that happened. *)
THEOREM LogSafe == Spec => []LogTruthful
  <1>1. IInv => LogTruthful
    BY DEF IInv
  <1> QED
    BY <1>1, Invariance, PTL

(* Only the four writing statements change the status, the driver or         *)
(* cancelledBy of an order.                                                  *)
LEMMA OnlyWriters ==
  ASSUME [Next]_vars,
         \A r \in Reqs : ~InsertOrder(r) /\ ~SetCancelled(r) /\ ~AssignDriver(r) /\ ~UpdateStatus(r)
  PROVE  UNCHANGED <<status, driver, cancelledBy>>
  <1> USE DEF columns
  <1>1. ASSUME NEW r \in Reqs, Arrive(r) PROVE UNCHANGED <<status, driver, cancelledBy>>
    BY <1>1 DEF Arrive, CreateOrder, FirstStep, CancelOrder, DriverAcceptOrder, InternalAssignDriver,
                AcceptOrder, DriverRejectOrder, DriverUpdateOrderStatus, InternalUpdateStatus
  <1>2. ASSUME NEW r \in Reqs, Handle(r) PROVE UNCHANGED <<status, driver, cancelledBy>>
    <2>1. DebitWallet(r) \/ WriteRefused(r) \/ InsertStateLog(r) \/ CompleteTripEffects(r)
      BY <1>2 DEF Handle
    <2> QED
      BY <2>1 DEF DebitWallet, DebitRefused, WriteRefused, InsertStateLog, CompleteTripEffects
  <1>3. ASSUME (\E c \in outbox : Deliver(c)) \/ Crash PROVE UNCHANGED <<status, driver, cancelledBy>>
    BY <1>3 DEF Deliver, Crash
  <1>4. CASE UNCHANGED vars
    BY <1>4 DEF vars
  <1> QED
    BY <1>1, <1>2, <1>3, <1>4 DEF Next

(* A user's cancel never ends a trip that has started.                       *)
THEOREM CancelBeforeTrip == Spec => UserCancelsBeforeTrip
  <1>1. IInv /\ [Next]_vars
          => [\A o \in Orders : cancelledBy'[o] # cancelledBy[o]
                                  => status[o] \in cancellableStates]_vars
    <2> SUFFICES ASSUME IInv, Next, NEW o \in Orders, cancelledBy'[o] # cancelledBy[o]
                 PROVE  status[o] \in cancellableStates
      BY DEF vars
    <2>1. PICK r \in Reqs : SetCancelled(r)
      BY OnlyWriters DEF InsertOrder, AssignDriver, UpdateStatus, columns
    <2>2. req[r].order = o /\ SetCancelledMatches(o) /\ req[r].pc = "write"
      BY <2>1 DEF SetCancelled, IInv, TypeOK
    <2>3. status[o] \in Statuses
      BY <2>2 DEF IInv, TypeOK, ReqOK, HasEffects
    <2> QED
      BY <2>2, <2>3 DEF SetCancelledMatches, Statuses, cancellableStates
  <1> QED
    BY <1>1, Invariance, PTL DEF Spec, UserCancelsBeforeTrip

-----------------------------------------------------------------------------
(* The handlers implement the lifecycle: the refinement mapping is the       *)
(* identity on status and driver, and requests, log and calls are hidden.    *)
LEMMA LifecycleStep == IInv /\ IInv' /\ [Next]_vars => [Lifecycle!Next]_(Lifecycle!vars)
  <1> SUFFICES ASSUME IInv, [Next]_vars
               PROVE  Lifecycle!Next \/ UNCHANGED <<status, driver>>
    BY DEF Lifecycle!vars
  <1> USE DEF Lifecycle!Next
  <1>1. ASSUME NEW r \in Reqs, InsertOrder(r) PROVE Lifecycle!Next
    <2>1. req[r].order \in Orders /\ status[req[r].order] = "none"
      BY <1>1 DEF IInv, ReqOK, HasEffects, InsertOrder
    <2>2. Lifecycle!Create(req[r].order)
      BY <1>1, <2>1 DEF InsertOrder, Move, Lifecycle!Create
    <2> QED
      BY <2>1, <2>2
  <1>2. ASSUME NEW r \in Reqs, SetCancelled(r) PROVE Lifecycle!Next
    <2>1. req[r].order \in Orders /\ status[req[r].order] # "none"
      BY <1>2 DEF IInv, ReqOK, HasEffects, SetCancelled
    <2>2. Lifecycle!Cancel(req[r].order)
      BY <1>2, <2>1 DEF SetCancelled, SetCancelledMatches, Move, Lifecycle!Cancel, IInv, TypeOK,
                        Statuses, Lifecycle!Cancellable
    <2> QED
      BY <2>1, <2>2
  <1>3. ASSUME NEW r \in Reqs, AssignDriver(r) PROVE Lifecycle!Next
    <2>1. req[r].order \in Orders /\ req[r].who \in Drivers
      BY <1>3 DEF IInv, ReqOK, HasEffects, AssignDriver
    <2>2. Lifecycle!Assign(req[r].order, req[r].who)
      BY <1>3, <2>1 DEF AssignDriver, AssignDriverMatches, Move, Lifecycle!Assign
    <2> QED
      BY <2>1, <2>2
  <1>4. ASSUME NEW r \in Reqs, UpdateStatus(r) PROVE Lifecycle!Next
    <2> DEFINE o == req[r].order
    <2>1. /\ o \in Orders /\ status[o] = req[r].from
          /\ status' = [status EXCEPT ![o] = req[r].to] /\ UNCHANGED driver
      BY <1>4 DEF IInv, ReqOK, HasEffects, UpdateStatus, UpdateStatusMatches, Move, columns
    <2>2. CASE req[r].op = "advance"
      <3>1. driver[o] # None /\ <<req[r].from, req[r].to>> \in Lifecycle!DriverEdges
        BY <1>4, <2>2 DEF IInv, ReqOK, HasEffects, UpdateStatus, driverTransitions, Lifecycle!DriverEdges
      <3>2. Lifecycle!Advance(o)
        BY <2>1, <3>1 DEF Lifecycle!Advance
      <3> QED
        BY <2>1, <3>2
    <2>3. CASE req[r].op = "internal"
      <3>1. req[r].from \in Lifecycle!Statuses \ Lifecycle!Terminal /\ req[r].to \in InternalTargets
        BY <1>4, <2>3 DEF IInv, ReqOK, HasEffects, UpdateStatus, Statuses, Terminal, Lifecycle!Statuses,
                          Lifecycle!Terminal
      <3>2. Lifecycle!Internal(o)
        BY <2>1, <3>1 DEF Lifecycle!Internal
      <3> QED
        BY <2>1, <3>2
    <2> QED
      BY <1>4, <2>2, <2>3 DEF UpdateStatus
  <1> QED
    BY <1>1, <1>2, <1>3, <1>4, OnlyWriters

(* Every behaviour of the handlers is a behaviour of the lifecycle.          *)
THEOREM Refinement == Spec => ImplementsLifecycle
  <1>1. Init => Lifecycle!Init
    BY DEF Init, Lifecycle!Init
  <1> QED
    BY <1>1, LifecycleStep, Invariance, PTL DEF Spec, ImplementsLifecycle, Lifecycle!Spec
=============================================================================
