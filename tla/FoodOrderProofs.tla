-------------------------- MODULE FoodOrderProofs --------------------------
(***************************************************************************)
(* Proofs about FoodOrder for every value of its constants.  The UPDATEs   *)
(* are unconditional, so a pending write says nothing of the row as it is; *)
(* it remembers a status the order has held, and what was held stays held. *)
(***************************************************************************)
EXTENDS FoodOrder, Integers, TLAPS

(* What a handler does after its write fits the status it wrote.             *)
LEMMA EffectsFit ==
  ASSUME NEW op \in Ops
  PROVE  /\ Effects(op) \in Seq(EffectNames)
         /\ \A i \in DOMAIN Effects(op) :
              Effects(op)[i] \in Events => StatusOf(Effects(op)[i]) = To(op)
  <1>1. CASE op = "create"
    BY <1>1 DEF Effects, EffectNames, Events, StatusOf, To
  <1>2. CASE op = "cancel"
    BY <1>2 DEF Effects, EffectNames, Events, StatusOf, To
  <1>7. CASE op = "reject"
    BY <1>7 DEF Effects, EffectNames, Events, StatusOf, To
  <1>3. CASE op = "confirm"
    BY <1>3 DEF Effects, EffectNames, Events, StatusOf, To
  <1>4. CASE op = "ready"
    BY <1>4 DEF Effects, EffectNames, Events, StatusOf, To
  <1>5. CASE op = "deliver"
    BY <1>5 DEF Effects, EffectNames, Events, StatusOf, To
  <1>6. CASE op \in {"prepare", "pickup", "onway", "assign", "unassign", "rate"}
    BY <1>6 DEF Effects, EffectNames
  <1> QED
    BY <1>1, <1>2, <1>3, <1>4, <1>5, <1>6, <1>7 DEF Ops

LEMMA NoEffects == <<>> \in Seq(EffectNames)
  OBVIOUS

LEMMA SlotType ==
  ASSUME NEW op \in Ops, NEW pc \in Pcs, NEW o \in Orders,
         NEW who \in Users \cup Drivers \cup {None}, NEW todo \in Seq(EffectNames)
  PROVE  Slot(op, pc, o, who, todo) \in Requests
  BY DEF Slot, Requests

LEMMA IdleSlot == Idle \in Requests /\ Idle.pc = "idle"
  BY DEF Idle, Slot, Requests, Ops, Pcs

LEMMA InitIInv == Init => IInv
  BY IdleSlot DEF Init, IInv, TypeOK, HandlerOK, History, KeyNamesRow, Stages,
                  EventsTruthful, PaidBeforeInserted

(* Nothing the other slots remember is ever unmade.                          *)
Grows == /\ \A o \in Orders : had[o] \subseteq had'[o]
         /\ \A o \in Orders : driver[o] # None => driver'[o] # None
         /\ \A o \in Orders : owner[o] \in Users => owner'[o] \in Users
         /\ debited \subseteq debited'

LEMMA OthersOK ==
  ASSUME IInv, Grows, NEW s \in Reqs, req'[s] = req[s],
         req[s].order \in byWallet' => req[s].order \in byWallet
  PROVE  HandlerOK(s)'
  BY DEF IInv, TypeOK, HandlerOK, Grows

(* A step that changes one slot and leaves the rows alone.                   *)
LEMMA SlotStep ==
  ASSUME IInv, NEW r \in Reqs, NEW q \in Requests, req' = [req EXCEPT ![r] = q],
         HandlerOK(r)', UNCHANGED <<row, late, byWallet, had>>,
         debited \subseteq debited', debited' \subseteq Orders,
         active' \in [Users -> Orders \cup {None}], queue' \subseteq Orders,
         sent' \in (Events \X Orders) \cup {<<>>}, outbox' \subseteq Orders,
         KeyNamesRow', EventsTruthful'
  PROVE  IInv'
  <1>1. TypeOK'
    BY DEF IInv, TypeOK, row
  <1>2. \A s \in Reqs : HandlerOK(s)'
    BY OthersOK DEF IInv, TypeOK, Grows, row
  <1>3. History' /\ Stages' /\ PaidBeforeInserted'
    BY DEF IInv, History, Stages, PaidBeforeInserted, row
  <1> QED
    BY <1>1, <1>2, <1>3 DEF IInv

LEMMA QuietStep ==
  ASSUME IInv, NEW r \in Reqs, NEW q \in Requests, req' = [req EXCEPT ![r] = q],
         HandlerOK(r)', UNCHANGED <<row, late, byWallet, debited, side, had>>
  PROVE  IInv'
  <1>1. KeyNamesRow' /\ EventsTruthful'
    BY DEF IInv, KeyNamesRow, EventsTruthful, row, side
  <1>2. UNCHANGED <<active, queue, sent, outbox>>
    BY DEF side
  <1> QED
    BY <1>1, <1>2, SlotStep DEF IInv, TypeOK

LEMMA EndStep ==
  ASSUME IInv, NEW r \in Reqs, End(r),
         UNCHANGED <<row, late, byWallet, side, had>>,
         debited \subseteq debited', debited' \subseteq Orders
  PROVE  IInv'
  <1>1. KeyNamesRow' /\ EventsTruthful'
    BY DEF IInv, KeyNamesRow, EventsTruthful, row, side
  <1>2. UNCHANGED <<active, queue, sent, outbox>>
    BY DEF side
  <1>3. req' = [req EXCEPT ![r] = Idle] /\ HandlerOK(r)'
    BY IdleSlot DEF End, Become, HandlerOK, IInv, TypeOK
  <1> QED
    BY <1>1, <1>2, <1>3, IdleSlot, SlotStep DEF IInv, TypeOK

LEMMA ReadStep ==
  ASSUME IInv, NEW r \in Reqs, NEW op \in Ops \ {"create"}, NEW o \in Orders,
         NEW who \in Users \cup Drivers \cup {None}, Read(r, op, o, who),
         op \in DriverOps => driver[o] = who /\ who \in Drivers,
         op = "assign" => who \in Drivers
  PROVE  IInv'
  <1> DEFINE q == Slot(op, "write", o, who, <<>>)
  <1>1. q \in Requests
    BY SlotType, NoEffects DEF Pcs
  <1>2. /\ q.op = op /\ q.pc = "write" /\ q.order = o /\ q.who = who
        /\ req' = [req EXCEPT ![r] = q]
    BY DEF Read, Become, Slot
  <1> HIDE DEF q
  <1>3. req'[r] = q
    BY <1>2 DEF IInv, TypeOK
  <1>4. status[o] \in had[o] /\ status[o] \in From(op)
    BY DEF Read, Allowed, IInv, History
  <1>5. HandlerOK(r)'
    BY <1>2, <1>3, <1>4, FoodOrderAssumption DEF HandlerOK, Read, row
  <1> QED
    BY <1>1, <1>2, <1>5, QuietStep DEF Read

LEMMA CreateStep ==
  ASSUME IInv, NEW r \in Reqs, NEW u \in Users, NEW o \in Orders, NEW wallet \in BOOLEAN,
         CreateOrder(r, u, o, wallet)
  PROVE  IInv'
  <1> DEFINE q == Slot("create", IF wallet THEN "debit" ELSE "write", o, u, <<>>)
  <1>1. q \in Requests
    BY SlotType, NoEffects DEF Pcs, Ops
  <1>2. /\ q.op = "create" /\ q.pc = (IF wallet THEN "debit" ELSE "write")
        /\ q.order = o /\ q.who = u /\ req' = [req EXCEPT ![r] = q]
    BY DEF CreateOrder, Become, Slot
  <1> HIDE DEF q
  <1>3. req'[r] = q
    BY <1>2 DEF IInv, TypeOK
  <1>4. /\ UNCHANGED <<status, driver, owner, by, rated, late, debited, had>>
        /\ UNCHANGED <<active, queue, sent, outbox>>
        /\ byWallet' = IF wallet THEN byWallet \cup {o} ELSE byWallet \ {o}
        /\ status[o] = None /\ \A s \in Reqs : req[s].order # o
    BY DEF CreateOrder, row, side
  <1>5. TypeOK'
    BY <1>1, <1>2, <1>4 DEF IInv, TypeOK
  <1>6. HandlerOK(r)'
    BY <1>2, <1>3, <1>4 DEF HandlerOK, DriverOps
  <1>7. ASSUME NEW s \in Reqs \ {r} PROVE HandlerOK(s)'
    <2>1. req'[s] = req[s]
      BY <1>2 DEF IInv, TypeOK
    <2> QED
      BY <2>1, <1>4, OthersOK DEF Grows
  <1>8. History' /\ KeyNamesRow' /\ Stages' /\ EventsTruthful' /\ PaidBeforeInserted'
    BY <1>4 DEF IInv, History, KeyNamesRow, Stages, EventsTruthful, PaidBeforeInserted
  <1> QED
    BY <1>5, <1>6, <1>7, <1>8 DEF IInv

LEMMA DebitStep ==
  ASSUME IInv, NEW r \in Reqs, DebitWallet(r)
  PROVE  IInv'
  <1> DEFINE o == req[r].order
  <1>1. /\ o \in Orders /\ req[r].op = "create" /\ req[r].who \in Users
        /\ UNCHANGED <<row, late, byWallet, side, had>>
    BY DEF DebitWallet, IInv, HandlerOK
  <1>2. CASE End(r)
    BY <1>1, <1>2, EndStep DEF DebitWallet, DebitRefused, IInv, TypeOK
  <1>3. CASE /\ debited' = debited \cup {o}
             /\ Become(r, Slot("create", "write", o, req[r].who, <<>>))
    <2> DEFINE q == Slot("create", "write", o, req[r].who, <<>>)
    <2>1. q \in Requests
      BY <1>1, SlotType, NoEffects DEF Pcs, Ops
    <2>2. /\ q.op = "create" /\ q.pc = "write" /\ q.order = o /\ q.who = req[r].who
          /\ req' = [req EXCEPT ![r] = q]
      BY <1>3 DEF Become, Slot
    <2> HIDE DEF q
    <2>3. req'[r] = q
      BY <2>2 DEF IInv, TypeOK
    <2>4. HandlerOK(r)'
      BY <1>1, <1>3, <2>2, <2>3 DEF HandlerOK, DriverOps
    <2>5. KeyNamesRow' /\ EventsTruthful' /\ UNCHANGED <<active, queue, sent, outbox>>
      BY <1>1 DEF IInv, KeyNamesRow, EventsTruthful, row, side
    <2> QED
      BY <1>1, <1>3, <2>1, <2>2, <2>4, <2>5, SlotStep DEF IInv, TypeOK
  <1> QED
    BY <1>2, <1>3 DEF DebitWallet, DebitRefused

(* A handler that has written goes on to its effects, or is done.            *)
LEMMA WrittenStep ==
  ASSUME IInv, NEW r \in Reqs, Written(r), req[r].pc = "write"
  PROVE  \E q \in Requests :
           /\ req' = [req EXCEPT ![r] = q]
           /\ \/ q = Idle
              \/ /\ q.pc = "effects" /\ q.op = req[r].op /\ q.order = req[r].order
                 /\ q.who = req[r].who /\ q.todo = Effects(q.op) /\ Effects(q.op) # <<>>
  <1>1. CASE Effects(req[r].op) = <<>>
    BY <1>1, IdleSlot DEF Written, Become
  <1>2. CASE Effects(req[r].op) # <<>>
    <2> DEFINE q == Slot(req[r].op, "effects", req[r].order, req[r].who, Effects(req[r].op))
    <2>1. /\ req[r].op \in Ops /\ req[r].order \in Orders
          /\ req[r].who \in Users \cup Drivers \cup {None}
      BY DEF IInv, TypeOK, HandlerOK, Requests
    <2>2. q \in Requests
      BY <2>1, SlotType, EffectsFit DEF Pcs
    <2>3. /\ req' = [req EXCEPT ![r] = q] /\ q.pc = "effects" /\ q.op = req[r].op
          /\ q.order = req[r].order /\ q.who = req[r].who /\ q.todo = Effects(req[r].op)
      BY <1>2 DEF Written, Become, Slot
    <2> HIDE DEF q
    <2> QED
      BY <1>2, <2>2, <2>3
  <1> QED
    BY <1>1, <1>2

(* Whatever the row says by now, the status written has its predecessor in   *)
(* the history.                                                              *)
LEMMA TableStep ==
  ASSUME NEW op \in Ops \ {"create", "assign", "rate"}, NEW s, s \in From(op)
  PROVE  /\ Before(To(op)) \in {s, Before(s)} /\ To(op) \in Statuses
         /\ To(op) \in Carried => op \in DriverOps
  <1>1. CASE op = "cancel"
    BY <1>1 DEF From, To, Before, Statuses, Carried
  <1>2. CASE op = "confirm"
    BY <1>2 DEF From, To, Before, Statuses, Carried
  <1>3. CASE op = "reject"
    BY <1>3 DEF From, To, Before, Statuses, Carried
  <1>4. CASE op = "prepare"
    BY <1>4 DEF From, To, Before, Statuses, Carried
  <1>5. CASE op = "ready"
    BY <1>5 DEF From, To, Before, Statuses, Carried
  <1>6. CASE op = "pickup"
    BY <1>6 DEF From, To, Before, Statuses, DriverOps
  <1>7. CASE op = "onway"
    BY <1>7 DEF From, To, Before, Statuses, DriverOps
  <1>8. CASE op = "unassign"
    BY <1>8 DEF From, To, Before, Statuses, DriverOps
  <1>9. CASE op = "deliver"
    BY <1>9 DEF From, To, Before, Statuses, DriverOps
  <1> QED
    BY <1>1, <1>2, <1>3, <1>4, <1>5, <1>6, <1>7, <1>8, <1>9 DEF Ops

LEMMA Predecessor ==
  ASSUME IInv, NEW r \in Reqs, req[r].pc = "write", req[r].op \notin {"create", "assign", "rate"}
  PROVE  /\ had[req[r].order] # {} /\ Before(To(req[r].op)) \in had[req[r].order]
         /\ To(req[r].op) \in Statuses
         /\ To(req[r].op) \in Carried => driver[req[r].order] # None
  <1>1. /\ req[r].order \in Orders /\ req[r].op \in Ops
        /\ \E s \in had[req[r].order] : s \in From(req[r].op)
        /\ req[r].op \in DriverOps => driver[req[r].order] # None
    BY DEF IInv, TypeOK, HandlerOK, Requests
  <1>2. \A s \in had[req[r].order] : Before(s) \in had[req[r].order]
    BY <1>1 DEF IInv, Stages
  <1> QED
    BY <1>1, <1>2, TableStep

LEMMA UpdateStep ==
  ASSUME IInv, NEW r \in Reqs, UpdateStatus(r)
  PROVE  IInv'
  <1> DEFINE op == req[r].op
             o == req[r].order
  <1>1. /\ o \in Orders /\ op \in Ops /\ req[r].pc = "write" /\ op \notin {"assign", "rate"}
        /\ status' = [status EXCEPT ![o] = To(op)]
        /\ had' = [had EXCEPT ![o] = @ \cup {To(op)}]
        /\ driver' = [driver EXCEPT ![o] = driver[o]]
        /\ owner' = IF op = "create" THEN [owner EXCEPT ![o] = req[r].who] ELSE owner
        /\ late' = IF op = "confirm" THEN late \ {o} ELSE late
        /\ UNCHANGED <<rated, byWallet, debited, active, queue, sent, outbox>>
        /\ op = "create" => req[r].who \in Users /\ (o \in byWallet => o \in debited)
    BY DEF UpdateStatus, IInv, TypeOK, HandlerOK, Requests, DriverAfter, side
  <1>2. by' \in [Orders -> {"user", "merchant", None}]
    BY <1>1 DEF UpdateStatus, IInv, TypeOK
  <1>3. PICK q \in Requests :
           /\ req' = [req EXCEPT ![r] = q]
           /\ \/ q = Idle
              \/ /\ q.pc = "effects" /\ q.op = op /\ q.order = o
                 /\ q.who = req[r].who /\ q.todo = Effects(q.op) /\ Effects(q.op) # <<>>
    BY <1>1, WrittenStep DEF UpdateStatus
  <1>4. /\ To(op) \in Statuses
        /\ To(op) \in Carried => driver[o] # None
        /\ Before(To(op)) \in had'[o]
        /\ op # "create" => had[o] # {}
    <2>1. CASE op = "create"
      BY <1>1, <2>1 DEF To, Statuses, Carried, Before, IInv, TypeOK
    <2>2. CASE op # "create"
      BY <1>1, <2>2, Predecessor DEF IInv, TypeOK
    <2> QED
      BY <2>1, <2>2
  <1> HIDE DEF op, o
  <1>5. /\ \A x \in Orders : x # o => /\ status'[x] = status[x] /\ had'[x] = had[x]
                                     /\ owner'[x] = owner[x]
        /\ status'[o] = To(op) /\ had'[o] = had[o] \cup {To(op)}
        /\ driver' = driver
        /\ op = "create" => owner'[o] \in Users
        /\ op # "create" => owner'[o] = owner[o]
    BY <1>1 DEF IInv, TypeOK
  <1>6. TypeOK'
    BY <1>1, <1>2, <1>3, <1>4 DEF IInv, TypeOK
  <1>7. owner'[o] \in Users
    BY <1>1, <1>4, <1>5 DEF IInv, History
  <1>8. ASSUME NEW s \in Reqs \ {r} PROVE HandlerOK(s)'
    <2>1. req'[s] = req[s]
      BY <1>3 DEF IInv, TypeOK
    <2>2. Grows
      BY <1>1, <1>5, <1>7 DEF Grows
    <2> QED
      BY <1>1, <2>1, <2>2, OthersOK
  <1>9. HandlerOK(r)'
    <2>1. req'[r] = q
      BY <1>3 DEF IInv, TypeOK
    <2>2. CASE q = Idle
      BY <2>1, <2>2, IdleSlot DEF HandlerOK
    <2>3. CASE q # Idle
      <3>1. /\ \A i \in DOMAIN q.todo : q.todo[i] \in Events => StatusOf(q.todo[i]) \in had'[o]
            /\ q.todo # <<>>
        BY <1>1, <1>3, <1>5, <2>3, EffectsFit
      <3>2. op \in DriverOps => driver'[o] # None
        BY <1>1, <1>5 DEF IInv, HandlerOK, op, o
      <3>3. op # "assign"
        BY <1>1
      <3>4. To(op) \in had'[o]
        BY <1>5
      <3> QED
        BY <1>1, <1>3, <1>7, <2>1, <2>3, <3>1, <3>2, <3>3, <3>4 DEF HandlerOK
    <2> QED
      BY <2>2, <2>3
  <1>10. History'
    <2> SUFFICES ASSUME NEW x \in Orders
                 PROVE /\ status'[x] = None <=> had'[x] = {}
                       /\ status'[x] # None => status'[x] \in had'[x] /\ owner'[x] \in Users
                       /\ Carried \cap had'[x] # {} => driver'[x] # None
                       /\ x \in late' => "confirmed" \in had'[x]
      BY DEF History
    <2>1. CASE x = o
      BY <1>1, <1>4, <1>5, <1>7, <2>1, FoodOrderAssumption DEF IInv, History
    <2>2. CASE x # o
      BY <1>1, <1>5, <2>2 DEF IInv, History
    <2> QED
      BY <2>1, <2>2
  <1>11. KeyNamesRow'
    BY <1>1, <1>4, <1>5, FoodOrderAssumption DEF IInv, TypeOK, KeyNamesRow
  <1>12. Stages' /\ EventsTruthful'
    BY <1>1, <1>4, <1>5 DEF IInv, TypeOK, Stages, EventsTruthful
  <1>13. PaidBeforeInserted'
    BY <1>1, <1>4, <1>5 DEF IInv, TypeOK, PaidBeforeInserted, History
  <1> QED
    BY <1>6, <1>8, <1>9, <1>10, <1>11, <1>12, <1>13 DEF IInv

LEMMA SetDriverStep ==
  ASSUME IInv, NEW r \in Reqs, SetDriver(r)
  PROVE  IInv'
  <1> DEFINE o == req[r].order
  <1>1. /\ o \in Orders /\ req[r].who \in Drivers
        /\ driver' = [driver EXCEPT ![o] = req[r].who]
        /\ req' = [req EXCEPT ![r] = Idle]
        /\ UNCHANGED <<status, owner, by, rated, late, byWallet, debited, had>>
        /\ UNCHANGED <<active, queue, sent, outbox>>
    BY DEF SetDriver, Written, Become, Effects, IInv, HandlerOK, side
  <1> HIDE DEF o
  <1>2. TypeOK'
    BY <1>1, IdleSlot DEF IInv, TypeOK
  <1>3. \A x \in Orders : driver[x] # None => driver'[x] # None
    BY <1>1, FoodOrderAssumption DEF IInv, TypeOK
  <1>4. ASSUME NEW s \in Reqs PROVE HandlerOK(s)'
    <2>1. CASE s = r
      BY <1>1, <2>1, IdleSlot DEF IInv, TypeOK, HandlerOK
    <2>2. CASE s # r
      BY <1>1, <1>3, <2>2, OthersOK DEF Grows, IInv, TypeOK
    <2> QED
      BY <2>1, <2>2
  <1>5. History'
    BY <1>1, <1>3 DEF IInv, History
  <1>6. KeyNamesRow' /\ Stages' /\ EventsTruthful' /\ PaidBeforeInserted'
    BY <1>1 DEF IInv, KeyNamesRow, Stages, EventsTruthful, PaidBeforeInserted
  <1> QED
    BY <1>2, <1>4, <1>5, <1>6 DEF IInv

LEMMA RatingStep ==
  ASSUME IInv, NEW r \in Reqs, MarkRatingSubmitted(r)
  PROVE  IInv'
  <1> DEFINE o == req[r].order
  <1>1. /\ o \in Orders /\ "delivered" \in had[o]
        /\ rated' = rated \cup {o}
        /\ req' = [req EXCEPT ![r] = Idle]
        /\ UNCHANGED <<status, owner, by, driver, late, byWallet, debited, had>>
        /\ UNCHANGED <<active, queue, sent, outbox>>
    BY DEF MarkRatingSubmitted, Written, Become, Effects, IInv, HandlerOK, From, side
  <1> HIDE DEF o
  <1>2. TypeOK'
    BY <1>1, IdleSlot DEF IInv, TypeOK
  <1>3. ASSUME NEW s \in Reqs PROVE HandlerOK(s)'
    <2>1. CASE s = r
      BY <1>1, <2>1, IdleSlot DEF IInv, TypeOK, HandlerOK
    <2>2. CASE s # r
      BY <1>1, <2>2, OthersOK DEF Grows, IInv, TypeOK
    <2> QED
      BY <2>1, <2>2
  <1>4. History' /\ KeyNamesRow' /\ Stages' /\ EventsTruthful' /\ PaidBeforeInserted'
    BY <1>1 DEF IInv, History, KeyNamesRow, Stages, EventsTruthful, PaidBeforeInserted
  <1> QED
    BY <1>2, <1>3, <1>4 DEF IInv

LEMMA TailFits ==
  ASSUME NEW t \in Seq(EffectNames), t # <<>>
  PROVE  /\ Tail(t) \in Seq(EffectNames) /\ Head(t) \in EffectNames
         /\ 1 \in DOMAIN t /\ Head(t) = t[1]
         /\ \A i \in DOMAIN Tail(t) : i + 1 \in DOMAIN t /\ Tail(t)[i] = t[i + 1]
  OBVIOUS

LEMMA EffectStep ==
  ASSUME IInv, NEW r \in Reqs, Effect(r)
  PROVE  IInv'
  <1> DEFINE o == req[r].order
             e == Head(req[r].todo)
             rest == Tail(req[r].todo)
             q == IF rest = <<>> THEN Idle
                  ELSE Slot(req[r].op, "effects", o, req[r].who, rest)
  <1>1. /\ o \in Orders /\ req[r].op \in Ops /\ req[r].who \in Users \cup Drivers \cup {None}
        /\ req[r].todo \in Seq(EffectNames) /\ req[r].todo # <<>>
        /\ To(req[r].op) \in had[o] /\ owner[o] \in Users /\ req[r].pc = "effects"
        /\ \A i \in DOMAIN req[r].todo :
              req[r].todo[i] \in Events => StatusOf(req[r].todo[i]) \in had[o]
    BY DEF Effect, IInv, TypeOK, HandlerOK, Requests
  <1>2. /\ rest \in Seq(EffectNames)
        /\ e \in Events => StatusOf(e) \in had[o]
        /\ \A i \in DOMAIN rest : rest[i] \in Events => StatusOf(rest[i]) \in had[o]
    BY <1>1, TailFits
  <1>3. /\ req' = [req EXCEPT ![r] = q]
        /\ UNCHANGED <<row, late, byWallet, debited, had>>
        /\ \/ /\ active' \in {active, [active EXCEPT ![owner[o]] = o],
                              [active EXCEPT ![owner[o]] = None]}
              /\ queue' \in {queue, queue \cup {o}, queue \ {o}}
              /\ outbox' = IF e = "dispatch" THEN outbox \cup {o} ELSE outbox
              /\ sent' = IF e \in Events \ {"dispatch"} THEN <<e, o>> ELSE sent
           \/ UNCHANGED <<active, queue, outbox, sent>>
    BY DEF Effect, Become, side
  <1>4. q \in Requests
    <2>1. "effects" \in Pcs
      BY DEF Pcs
    <2> HIDE DEF o, e, rest
    <2> QED
      BY <1>1, <1>2, <2>1, IdleSlot, SlotType
  <1>5. HandlerOK(r)'
    <2>1. req'[r] = q
      BY <1>3 DEF IInv, TypeOK
    <2>2. CASE rest = <<>>
      BY <2>1, <2>2, IdleSlot DEF HandlerOK
    <2>3. CASE rest # <<>>
      <3>1. /\ q.op = req[r].op /\ q.pc = "effects" /\ q.order = o /\ q.who = req[r].who
            /\ q.todo = rest
        BY <2>3 DEF Slot
      <3> HIDE DEF q
      <3> QED
        BY <1>1, <1>2, <1>3, <2>1, <2>3, <3>1 DEF IInv, HandlerOK, row
    <2> QED
      BY <2>2, <2>3
  <1> HIDE DEF q, o, e, rest
  <1>6. /\ status[o] # None /\ UNCHANGED <<status, driver, owner, had>>
    BY <1>1, <1>3 DEF IInv, History, row
  <1>7. KeyNamesRow'
    BY <1>1, <1>3, <1>6 DEF IInv, TypeOK, KeyNamesRow
  <1>8. EventsTruthful'
    <2>1. e = "dispatch" => "ready" \in had[o]
      BY <1>2 DEF Events, StatusOf
    <2>2. \A x \in outbox' : "ready" \in had'[x]
      BY <1>3, <1>6, <2>1 DEF IInv, EventsTruthful
    <2>3. sent' # <<>> => StatusOf(sent'[1]) \in had'[sent'[2]]
      BY <1>2, <1>3, <1>6 DEF IInv, EventsTruthful
    <2> QED
      BY <2>2, <2>3 DEF EventsTruthful
  <1>9. /\ active' \in [Users -> Orders \cup {None}] /\ queue' \subseteq Orders
        /\ sent' \in (Events \X Orders) \cup {<<>>} /\ outbox' \subseteq Orders
    BY <1>1, <1>3 DEF IInv, TypeOK
  <1> QED
    BY <1>3, <1>4, <1>5, <1>7, <1>8, <1>9, SlotStep DEF IInv, TypeOK

(* The goroutine and the clock: no handler moves.                            *)
LEMMA OutsideStep ==
  ASSUME IInv,
         \/ \E o \in Orders : TriggerDispatch(o) \/ DeadlinePasses(o)
         \/ \E u \in Users : KeyExpires(u)
  PROVE  IInv'
  <1>1. /\ UNCHANGED <<status, driver, owner, by, rated, byWallet, debited, queue, had, req>>
        /\ active' = active \/ \E u \in Users : active' = [active EXCEPT ![u] = None]
        /\ late' = late \/ \E o \in Orders : "confirmed" \in had[o] /\ late' = late \cup {o}
        /\ outbox' \subseteq outbox
        /\ sent' = sent \/ \E o \in outbox : sent' = <<"dispatch", o>>
    BY DEF TriggerDispatch, DeadlinePasses, KeyExpires, row, side
  <1>2. TypeOK'
    BY <1>1 DEF IInv, TypeOK, Events
  <1>3. \A s \in Reqs : HandlerOK(s)'
    BY <1>1, OthersOK DEF Grows
  <1>4. History' /\ Stages' /\ PaidBeforeInserted'
    BY <1>1 DEF IInv, History, Stages, PaidBeforeInserted
  <1>5. KeyNamesRow'
    BY <1>1 DEF IInv, TypeOK, KeyNamesRow
  <1>6. EventsTruthful'
    BY <1>1 DEF IInv, TypeOK, EventsTruthful, StatusOf
  <1> QED
    BY <1>2, <1>3, <1>4, <1>5, <1>6 DEF IInv

LEMMA InductiveStep == IInv /\ [Next]_vars => IInv'
  <1> SUFFICES ASSUME IInv, [Next]_vars PROVE IInv'
    OBVIOUS
  <1>1. ASSUME NEW r \in Reqs, NEW o \in Orders, NEW u \in Users, ByUser(r, u, o)
        PROVE IInv'
    <2>1. CASE \E wallet \in BOOLEAN : CreateOrder(r, u, o, wallet)
      BY <2>1, CreateStep
    <2>2. CASE CancelOrder(r, u, o) \/ SubmitRating(r, u, o)
      BY <2>2, ReadStep DEF CancelOrder, SubmitRating, Ops, DriverOps
    <2> QED
      BY <1>1, <2>1, <2>2 DEF ByUser
  <1>2. ASSUME NEW r \in Reqs, NEW o \in Orders, ByMerchant(r, o)
        PROVE IInv'
    BY <1>2, ReadStep DEF ByMerchant, MerchantConfirmOrder, MerchantRejectOrder,
                          MerchantUpdateStatus, Ops, DriverOps
  <1>3. ASSUME NEW r \in Reqs, NEW o \in Orders, NEW d \in Drivers, ByDriver(r, d, o)
        PROVE IInv'
    BY <1>3, ReadStep DEF ByDriver, DriverPickup, DriverUpdateStatus, DriverDeliver,
                          DriverRejectOrder, AssignDriver, Ops, DriverOps
  <1>4. ASSUME NEW r \in Reqs, Handle(r) PROVE IInv'
    <2>1. CASE WriteFails(r) \/ Die(r)
      BY <2>1, EndStep DEF WriteFails, WriteFailed, Die, IInv, TypeOK
    <2> QED
      BY <1>4, <2>1, DebitStep, UpdateStep, SetDriverStep, RatingStep, EffectStep DEF Handle
  <1>5. CASE UNCHANGED vars
    <2>1. UNCHANGED <<status, driver, owner, by, rated, late, byWallet, debited, active, queue,
                      sent, outbox, had, req>>
      BY <1>5 DEF vars, row, side
    <2> QED
      BY <2>1 DEF IInv, TypeOK, HandlerOK, History, KeyNamesRow, Stages, EventsTruthful,
                  PaidBeforeInserted
  <1> QED
    BY <1>1, <1>2, <1>3, <1>4, <1>5, OutsideStep DEF Next

-----------------------------------------------------------------------------
(* The handlers preserve the inductive invariant, however they interleave.   *)
THEOREM Invariance == Spec => []IInv
  BY InitIInv, InductiveStep, PTL DEF Spec

(* Every variable keeps its type.                                            *)
THEOREM TypeCorrect == Spec => []TypeOK
  <1>1. IInv => TypeOK
    BY DEF IInv
  <1> QED
    BY Invariance, <1>1, PTL

(* No stage the handlers ask for is skipped, although every UPDATE is        *)
(* unconditional: whatever was delivered had been picked up, whatever was    *)
(* picked up had been ready, and so on.  (The stage on_delivery they do not  *)
(* ask for.)                                                                 *)
THEOREM StagesKept == Spec => []Stages
  <1>1. IInv => Stages
    BY DEF IInv
  <1> QED
    BY Invariance, <1>1, PTL

(* Other services are told the truth about an order.                         *)
THEOREM EventsTrue == Spec => []EventsTruthful
  <1>1. IInv => EventsTruthful
    BY DEF IInv
  <1> QED
    BY Invariance, <1>1, PTL

(* Food on its way has a driver on the row.                                  *)
THEOREM CarriedByDriver == Spec => []DriverCarries
  <1>1. IInv => DriverCarries
    BY FoodOrderAssumption DEF IInv, History, DriverCarries, Carried, Statuses
  <1> QED
    BY Invariance, <1>1, PTL

(* An order paid from the wallet is in the table only after its debit.       *)
THEOREM PaidFirst == Spec => []PaidBeforeInserted
  <1>1. IInv => PaidBeforeInserted
    BY DEF IInv
  <1> QED
    BY Invariance, <1>1, PTL
=============================================================================
