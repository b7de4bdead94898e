---------------------------- MODULE DeliveryProofs ----------------------------
(***************************************************************************)
(* Proofs about DeliveryOrder for every value of its constants: evidence   *)
(* is truthful, cancels are final, deliveries are paid first, and the      *)
(* interleaved handlers implement the lifecycle.                           *)
(***************************************************************************)
EXTENDS DeliveryOrder, TLAPS

Constants == None \notin Drivers /\ InternalTargets \subseteq Statuses

-----------------------------------------------------------------------------
(* The inductive invariant.  What a handler read may be stale, so a pending  *)
(* write is judged by its WHERE clause; what it promises for good is that    *)
(* an order it advances had a driver, and that evidence it is still to write *)
(* belongs to a step that took place.                                        *)

ReqOK(q) ==
    /\ q.pc # "idle" => q.order \in Orders
    /\ q.pc \in {"debit", "insert"} =>
         q.op = "create" /\ q.who \in Users /\ q.order \in refs /\ status[q.order] = "none"
    /\ q.pc = "debit" => q.order \in gopay
    /\ q.pc = "insert" => (q.order \in gopay => q.order \in debited)
    /\ q.pc = "write" => q.op \in {"cancel", "assign", "advance", "internal"}
    /\ q.pc = "write" /\ q.op = "assign" => q.who \in Drivers
    /\ q.pc = "write" /\ q.op = "internal" =>
         q.from \in Statuses \ Terminal /\ q.to \in InternalTargets
    /\ q.op = "advance" => <<q.from, q.to>> \in driverTransitions
    /\ q.pc = "write" /\ q.op = "advance" => driver[q.order] # None
    /\ q.pc \in {"proof", "breakdown", "total"} => q.op = "advance"
    /\ q.pc = "proof" => q.to \in {"picked_up", "delivered"}
    /\ q.pc \in {"breakdown", "total"} => q.to = "delivered"
    /\ q.op = "advance" /\ q.pc \in {"log", "proof", "breakdown", "total"} =>
         <<q.order, q.from, q.to>> \in took

(* No two handlers create one order. *)
CreatesApart ==
    \A r, s \in Reqs : req[r].pc \in {"debit", "insert"} /\ req[s].pc \in {"debit", "insert"}
                       /\ r # s => req[r].order # req[s].order

PickedUp(o) == <<o, "on_pickup", "picked_up">>
Delivered(o) == <<o, "on_delivery", "delivered">>

(* A delivery and a user's cancel are final.  Unless an internal caller sent *)
(* the order back, a package that was picked up is never back before the     *)
(* pickup, and a user's cancel comes before it.                              *)
OnWay(o) ==
    /\ Delivered(o) \in took => status[o] = "delivered"
    /\ cancelledBy[o] = "user" =>
         /\ status[o] = "cancelled"
         /\ \E s \in cancellableStates : <<o, s, "cancelled">> \in took
    /\ ~Reopened(o) =>
         /\ PickedUp(o) \in took =>
              status[o] \in {"picked_up", "on_delivery", "delivered", "cancelled"}
         /\ cancelledBy[o] = "user" => PickedUp(o) \notin took

Evident(o) ==
    /\ "pickup" \in proof[o] => PickedUp(o) \in took
    /\ "delivery" \in proof[o] \/ fare[o] # {} => Delivered(o) \in took

RowOK(o) ==
    /\ status[o] # "none" => o \in refs /\ (o \in gopay => o \in debited)
    /\ Evident(o)
    /\ OnWay(o)

DInv == TypeOK /\ (\A r \in Reqs : ReqOK(req[r])) /\ CreatesApart /\ \A o \in Orders : RowOK(o)

-----------------------------------------------------------------------------
(* Slots *)

LEMMA IdleSlot == Idle \in Requests /\ Idle.pc = "idle" /\ Idle.op = "none" /\ Idle.order = None
  BY DEF Idle, Requests, Pcs

LEMMA Initially == Init => DInv
  <1> SUFFICES ASSUME Init PROVE DInv
    OBVIOUS
  <1>1. TypeOK
    BY IdleSlot DEF Init, TypeOK
  <1>2. \A r \in Reqs : req[r] = Idle
    BY DEF Init
  <1>3. (\A r \in Reqs : ReqOK(req[r])) /\ CreatesApart
    BY <1>2, IdleSlot DEF ReqOK, CreatesApart
  <1>4. \A o \in Orders : RowOK(o)
    BY DEF Init, RowOK, Evident, OnWay, PickedUp, Delivered
  <1> QED
    BY <1>1, <1>3, <1>4 DEF DInv

(* What a slot is after Goto. *)
LEMMA GotoSlot ==
  ASSUME NEW q \in Requests, NEW x \in Pcs
  PROVE  LET p == [q EXCEPT !.pc = x] IN
         /\ p \in Requests /\ p.pc = x /\ p.op = q.op /\ p.order = q.order /\ p.who = q.who
         /\ p.from = q.from /\ p.to = q.to
  BY DEF Requests

(* What a slot is after Start. *)
LEMMA NewSlot ==
  ASSUME NEW op \in {"create", "cancel", "assign", "advance", "internal", "reject"},
         NEW x \in Pcs, NEW o \in Orders, NEW w \in Users \cup Drivers \cup {None},
         NEW s \in Statuses \cup {"none"}, NEW t \in Statuses \cup {"none"}
  PROVE  LET p == [op |-> op, pc |-> x, order |-> o, who |-> w, from |-> s, to |-> t] IN
         /\ p \in Requests /\ p.pc = x /\ p.op = op /\ p.order = o /\ p.who = w
         /\ p.from = s /\ p.to = t
  BY DEF Requests

(* A slot takes a request whose promises hold, and nothing else changes: the *)
(* reading half of every handler but CreateOrder, and every early return.    *)
LEMMA SlotStep ==
  ASSUME DInv, NEW r \in Reqs, NEW q \in Requests, ReqOK(q), q.pc \notin {"debit", "insert"},
         req' = [req EXCEPT ![r] = q],
         UNCHANGED <<money, status, owner, driver, cancelledBy, extras, took>>
  PROVE  DInv'
  <1> USE DEF DInv, money, extras
  <1>1. TypeOK'
    BY DEF TypeOK
  <1>2. \A s \in Reqs : ReqOK(req[s])'
    BY DEF TypeOK, ReqOK
  <1>3. CreatesApart'
    BY DEF TypeOK, CreatesApart
  <1>4. \A o \in Orders : RowOK(o)'
    BY DEF RowOK, Evident, OnWay, PickedUp, Delivered, Reopened
  <1> QED
    BY <1>1, <1>2, <1>3, <1>4

LEMMA IdleOK == ReqOK(Idle)
  BY IdleSlot DEF ReqOK

LEMMA EndStep ==
  ASSUME DInv, NEW r \in Reqs, End(r), Reads
  PROVE  DInv'
  BY IdleSlot, IdleOK, SlotStep DEF End, Reads

-----------------------------------------------------------------------------
(* Reading halves *)

LEMMA CreateOrderStep ==
  ASSUME DInv, NEW r \in Reqs, NEW u \in Users, NEW o \in Orders, NEW pay \in {"gopay", "cash"},
         CreateOrder(r, u, o, pay)
  PROVE  DInv'
  <1> DEFINE x == IF pay = "gopay" THEN "debit" ELSE "insert"
             q == [op |-> "create", pc |-> x, order |-> o, who |-> u,
                   from |-> "none", to |-> "finding_driver"]
  <1> USE DEF DInv, money, extras
  <1>1. /\ q \in Requests /\ q.pc = x /\ q.op = "create" /\ q.order = o /\ q.who = u
        /\ q.from = "none" /\ q.to = "finding_driver"
    <2>1. x \in Pcs /\ "finding_driver" \in Statuses
      BY DEF Pcs, Statuses
    <2> QED
      BY <2>1, NewSlot
  <1>2. /\ o \notin refs /\ refs' = refs \cup {o} /\ req' = [req EXCEPT ![r] = q]
        /\ gopay' = IF pay = "gopay" THEN gopay \cup {o} ELSE gopay
        /\ UNCHANGED <<debited, status, owner, driver, cancelledBy, extras, took>>
    BY DEF CreateOrder, Start
  <1> HIDE DEF q
  <1>3. status[o] = "none" /\ o \notin gopay
    BY <1>2 DEF RowOK, TypeOK
  <1>4. TypeOK'
    BY <1>1, <1>2 DEF TypeOK
  <1>5. \A s \in Reqs : ReqOK(req[s])'
    <2>1. ReqOK(q)'
      BY <1>1, <1>2, <1>3, <1>4 DEF ReqOK
    <2>2. ASSUME NEW s \in Reqs, s # r PROVE ReqOK(req[s])'
      <3>1. req'[s] = req[s] /\ ReqOK(req[s])
        BY <1>2, <2>2 DEF TypeOK
      <3> QED
        BY <3>1, <1>2, <1>3 DEF ReqOK
    <2> QED
      BY <2>1, <2>2, <1>2 DEF TypeOK
  <1>6. CreatesApart'
    <2>1. \A s \in Reqs : req[s].pc \in {"debit", "insert"} => req[s].order # o
      BY <1>2 DEF ReqOK
    <2> QED
      BY <2>1, <1>1, <1>2 DEF TypeOK, CreatesApart
  <1>7. \A p \in Orders : RowOK(p)'
    BY <1>2, <1>3 DEF TypeOK, RowOK, Evident, OnWay, PickedUp, Delivered, Reopened
  <1> QED
    BY <1>4, <1>5, <1>6, <1>7

LEMMA ReadStep ==
  ASSUME Constants, DInv, NEW r \in Reqs, NEW o \in Orders,
         \/ \E u \in Users : CancelOrder(r, u, o)
         \/ \E d \in Drivers : DriverAcceptOrder(r, d, o) \/ DriverRejectOrder(r, d, o)
         \/ \E d \in Drivers, e \in driverTransitions : DriverUpdateOrderStatus(r, d, o, e)
         \/ \E s \in InternalTargets : InternalUpdateStatus(r, o, s)
  PROVE  DInv'
  <1> DEFINE Slot(op, x, w, s, t) == [op |-> op, pc |-> x, order |-> o, who |-> w,
                                      from |-> s, to |-> t]
  <1>1. PICK op \in {"cancel", "assign", "advance", "internal", "reject"}, x \in {"write", "log"},
             w \in Users \cup Drivers \cup {None}, s \in Statuses, t \in Statuses :
          /\ Start(r, op, x, o, w, s, t) /\ Reads
          /\ x = "write" <=> op # "reject"
          /\ op = "assign" => w \in Drivers
          /\ op = "internal" => s \in Statuses \ Terminal /\ t \in InternalTargets
          /\ op = "advance" => <<s, t>> \in driverTransitions /\ driver[o] # None
    <2>1. status[o] \in Statuses \cup {"none"} /\ cancellableStates \subseteq Statuses
      BY DEF DInv, TypeOK, cancellableStates, Statuses
    <2>2. CASE \E u \in Users : CancelOrder(r, u, o)
      <3> PICK u \in Users : CancelOrder(r, u, o)
        BY <2>2
      <3>1. /\ Start(r, "cancel", "write", o, u, status[o], "cancelled") /\ Reads
            /\ status[o] \in Statuses /\ "cancelled" \in Statuses
        BY <2>1 DEF CancelOrder, Statuses
      <3> QED
        BY <3>1
    <2>3. CASE \E d \in Drivers : DriverAcceptOrder(r, d, o)
      <3> PICK d \in Drivers : DriverAcceptOrder(r, d, o)
        BY <2>3
      <3>1. /\ Start(r, "assign", "write", o, d, "finding_driver", "assigned") /\ Reads
            /\ "finding_driver" \in Statuses /\ "assigned" \in Statuses
        BY DEF DriverAcceptOrder, Statuses
      <3> QED
        BY <3>1
    <2>4. CASE \E d \in Drivers : DriverRejectOrder(r, d, o)
      <3> PICK d \in Drivers : DriverRejectOrder(r, d, o)
        BY <2>4
      <3>1. Start(r, "reject", "log", o, d, status[o], status[o]) /\ Reads /\ status[o] \in Statuses
        BY <2>1 DEF DriverRejectOrder
      <3> QED
        BY <3>1
    <2>5. CASE \E d \in Drivers, e \in driverTransitions : DriverUpdateOrderStatus(r, d, o, e)
      <3> PICK d \in Drivers, e \in driverTransitions : DriverUpdateOrderStatus(r, d, o, e)
        BY <2>5
      <3>1. /\ Start(r, "advance", "write", o, d, e[1], e[2]) /\ Reads
            /\ driver[o] = d
        BY DEF DriverUpdateOrderStatus
      <3>2. e[1] \in Statuses /\ e[2] \in Statuses /\ <<e[1], e[2]>> \in driverTransitions
        BY DEF driverTransitions, Statuses
      <3> QED
        BY <3>1, <3>2 DEF Constants
    <2>6. CASE \E s \in InternalTargets : InternalUpdateStatus(r, o, s)
      <3> PICK s \in InternalTargets : InternalUpdateStatus(r, o, s)
        BY <2>6
      <3>1. /\ Start(r, "internal", "write", o, None, status[o], s) /\ Reads
            /\ status[o] \in Statuses \ Terminal /\ s \in Statuses
        BY DEF InternalUpdateStatus, Constants
      <3> QED
        BY <3>1
    <2> QED
      BY <2>2, <2>3, <2>4, <2>5, <2>6
  <1> DEFINE q == Slot(op, x, w, s, t)
  <1>2. /\ q \in Requests /\ q.pc = x /\ q.op = op /\ q.order = o /\ q.who = w
        /\ q.from = s /\ q.to = t
    <2>1. x \in Pcs
      BY DEF Pcs
    <2> QED
      BY <2>1, NewSlot
  <1>3. req' = [req EXCEPT ![r] = q]
    BY <1>1 DEF Start
  <1> HIDE DEF q
  <1>4. ReqOK(q)
    BY <1>1, <1>2 DEF ReqOK
  <1> QED
    BY <1>1, <1>2, <1>3, <1>4, SlotStep DEF Reads

-----------------------------------------------------------------------------
(* Writes *)

LEMMA DebitWalletStep ==
  ASSUME DInv, NEW r \in Reqs, DebitWallet(r)
  PROVE  DInv'
  <1>1. PICK o \in Orders :
          /\ o = req[r].order /\ req[r] \in Requests /\ req[r].pc = "debit" /\ ReqOK(req[r])
          /\ o \in gopay /\ status[o] = "none"
    BY DEF DInv, TypeOK, DebitWallet, ReqOK
  <1>2. CASE End(r) /\ UNCHANGED debited
    BY <1>2, EndStep DEF DebitWallet, Reads, money
  <1>3. CASE debited' = debited \cup {o} /\ Goto(r, "insert")
    <2> USE DEF DInv, money, extras
    <2>1. PICK q \in Requests :
          /\ q = [req[r] EXCEPT !.pc = "insert"] /\ q.pc = "insert" /\ q.op = req[r].op /\ q.order = o
          /\ q.who = req[r].who /\ q.from = req[r].from /\ q.to = req[r].to
      <3>1. "insert" \in Pcs
        BY DEF Pcs
      <3> QED
        BY <1>1, <3>1, GotoSlot
    <2>2. /\ req' = [req EXCEPT ![r] = q]
          /\ UNCHANGED <<refs, gopay, status, owner, driver, cancelledBy, extras, took>>
      BY <1>3, <2>1 DEF Goto, DebitWallet
    <2>3. TypeOK'
      BY <1>1, <1>3, <2>1, <2>2 DEF TypeOK
    <2>4. \A s \in Reqs : ReqOK(req[s])'
      <3>1. ReqOK(q)'
        BY <1>1, <1>3, <2>1, <2>2 DEF ReqOK
      <3>2. ASSUME NEW s \in Reqs, s # r PROVE ReqOK(req[s])'
        <4>1. req'[s] = req[s] /\ ReqOK(req[s])
          BY <2>2, <3>2 DEF TypeOK
        <4> QED
          BY <4>1, <1>3, <2>2 DEF ReqOK
      <3> QED
        BY <3>1, <3>2, <2>2 DEF TypeOK
    <2>5. CreatesApart'
      BY <1>1, <2>1, <2>2 DEF TypeOK, CreatesApart
    <2>6. \A p \in Orders : RowOK(p)'
      BY <1>3, <2>2 DEF RowOK, Evident, OnWay, PickedUp, Delivered, Reopened
    <2> QED
      BY <2>3, <2>4, <2>5, <2>6
  <1> QED
    BY <1>1, <1>2, <1>3 DEF DebitWallet, DebitRefused

(* A row changes its status, and the handler goes on to the log: what the    *)
(* other handlers rely on is no weaker, if no creation is pending for it.    *)
LEMMA RowStep ==
  ASSUME DInv, NEW r \in Reqs, NEW o \in Orders, NEW t \in Statuses,
         req[r].order = o, req[r].pc \in {"insert", "write"},
         req[r].pc = "write" => status[o] # "none",
         Goto(r, "log"), Move(o, t),
         req[r].op = "advance" => status[o] = req[r].from /\ t = req[r].to,
         driver' \in [Orders -> Drivers \cup {None}],
         \A p \in Orders : driver[p] # None => driver'[p] # None,
         owner' \in [Orders -> Users \cup {None}],
         cancelledBy' \in [Orders -> {"none", "user"}],
         \A p \in Orders \ {o} : cancelledBy'[p] = cancelledBy[p],
         UNCHANGED <<money, extras>>,
         o \in refs, o \in gopay => o \in debited,
         OnWay(o)'
  PROVE  DInv'
  <1> USE DEF DInv, money, extras
  <1>1. PICK q \in Requests :
        /\ q = [req[r] EXCEPT !.pc = "log"] /\ q.pc = "log" /\ q.op = req[r].op /\ q.order = o
        /\ q.who = req[r].who /\ q.from = req[r].from /\ q.to = req[r].to
    <2> DEFINE p == [req[r] EXCEPT !.pc = "log"]
    <2>1. "log" \in Pcs /\ req[r] \in Requests
      BY DEF Pcs, TypeOK
    <2>2. /\ p \in Requests /\ p.pc = "log" /\ p.op = req[r].op /\ p.order = req[r].order
          /\ p.who = req[r].who /\ p.from = req[r].from /\ p.to = req[r].to
      BY <2>1, GotoSlot
    <2> HIDE DEF p
    <2>3. \E q \in Requests : q = p
      BY <2>2
    <2> QED
      BY <2>2, <2>3 DEF p
  <1>2. req' = [req EXCEPT ![r] = q]
    BY <1>1 DEF Goto
  <1>3. /\ status' = [status EXCEPT ![o] = t] /\ took' = took \cup {<<o, status[o], t>>}
        /\ status[o] \in Statuses \cup {"none"} /\ t # "none"
    BY DEF Move, TypeOK, Statuses
  <1>4. TypeOK'
    BY <1>1, <1>2, <1>3 DEF TypeOK
  <1>5. \A s \in Reqs \ {r} : req[s].pc \in {"debit", "insert"} => req[s].order # o
    <2> SUFFICES ASSUME NEW s \in Reqs \ {r}, req[s].pc \in {"debit", "insert"}, req[s].order = o
                 PROVE  FALSE
      OBVIOUS
    <2>1. ReqOK(req[s])
      OBVIOUS
    <2>2. status[o] = "none"
      BY <2>1 DEF ReqOK
    <2>3. req[r].pc = "insert"
      BY <2>2
    <2> QED
      BY <2>3 DEF CreatesApart
  <1>6. \A s \in Reqs : ReqOK(req[s])'
    <2>1. ReqOK(q)'
      BY <1>1, <1>3 DEF ReqOK
    <2>2. ASSUME NEW s \in Reqs, s # r PROVE ReqOK(req[s])'
      <3>1. req'[s] = req[s] /\ ReqOK(req[s])
        BY <1>2, <2>2 DEF TypeOK
      <3>2. req[s].pc \in {"debit", "insert"} => status'[req[s].order] = "none"
        BY <3>1, <1>3, <1>5, <2>2 DEF ReqOK, TypeOK
      <3>3. req[s].pc # "idle" => req[s].order \in Orders
        BY <3>1 DEF ReqOK
      <3> QED
        BY <3>1, <3>2, <3>3, <1>3 DEF ReqOK
    <2> QED
      BY <2>1, <2>2, <1>2 DEF TypeOK
  <1>7. CreatesApart'
    BY <1>1, <1>2 DEF TypeOK, CreatesApart
  <1>8. \A p \in Orders : RowOK(p)'
    <2>1. ASSUME NEW p \in Orders PROVE Evident(p)'
      BY <1>3 DEF RowOK, Evident, PickedUp, Delivered
    <2>2. ASSUME NEW p \in Orders, p # o PROVE OnWay(p)'
      <3>1. /\ status'[p] = status[p] /\ cancelledBy'[p] = cancelledBy[p] /\ OnWay(p)
            /\ \A a, b : <<p, a, b>> \in took' <=> <<p, a, b>> \in took
        BY <1>3, <2>2 DEF TypeOK, RowOK
      <3> QED
        BY <3>1 DEF OnWay, PickedUp, Delivered, Reopened
    <2>3. ASSUME NEW p \in Orders, status'[p] # "none"
          PROVE  p \in refs' /\ (p \in gopay' => p \in debited')
      BY <1>3, <2>3 DEF TypeOK, RowOK
    <2> QED
      BY <2>1, <2>2, <2>3 DEF RowOK
  <1> QED
    BY <1>4, <1>6, <1>7, <1>8

(* The transitions that keep OnWay: from a status a pending write may match  *)
(* to the one it sets.                                                       *)
LEMMA OnWayKept ==
  ASSUME DInv, NEW o \in Orders, NEW t \in Statuses, Move(o, t),
         cancelledBy'[o] = cancelledBy[o], status[o] \notin Terminal
  PROVE  OnWay(o)'
  <1>1. /\ OnWay(o) /\ status'[o] = t /\ cancelledBy[o] # "user"
        /\ took' = took \cup {<<o, status[o], t>>}
    BY DEF DInv, RowOK, OnWay, Move, TypeOK, Terminal
  <1>2. Delivered(o) \in took' => t = "delivered"
    BY <1>1 DEF OnWay, Delivered, Terminal
  <1>3. ASSUME ~Reopened(o)', PickedUp(o) \in took'
        PROVE  t \in {"picked_up", "on_delivery", "delivered", "cancelled"}
    <2>1. ~Reopened(o)
      BY <1>1, <1>3 DEF Reopened
    <2>2. status[o] \in {"picked_up", "on_delivery"} \/ PickedUp(o) \notin took
      BY <1>1, <2>1 DEF OnWay, Terminal
    <2>3. CASE status[o] \in {"picked_up", "on_delivery"}
      <3>1. t \notin cancellableStates
        BY <1>1, <1>3, <2>3 DEF Reopened
      <3> QED
        BY <3>1 DEF Statuses, cancellableStates
    <2>4. CASE PickedUp(o) \notin took
      BY <1>1, <1>3, <2>4 DEF PickedUp
    <2> QED
      BY <2>2, <2>3, <2>4
  <1> QED
    BY <1>1, <1>2, <1>3 DEF OnWay

LEMMA InsertOrderStep ==
  ASSUME DInv, NEW r \in Reqs, InsertOrder(r)
  PROVE  DInv'
  <1>1. PICK o \in Orders :
        /\ o = req[r].order /\ status[o] = "none" /\ o \in refs /\ (o \in gopay => o \in debited)
        /\ req[r].op = "create" /\ req[r].who \in Users /\ req[r].pc = "insert"
    BY DEF InsertOrder, DInv, ReqOK
  <1>2. "finding_driver" \in Statuses /\ Move(o, "finding_driver") /\ Goto(r, "log")
    BY <1>1 DEF InsertOrder, Statuses
  <1>3. /\ owner' \in [Orders -> Users \cup {None}] /\ UNCHANGED <<money, driver, cancelledBy, extras>>
        /\ driver \in [Orders -> Drivers \cup {None}]
        /\ cancelledBy \in [Orders -> {"none", "user"}]
    BY <1>1 DEF InsertOrder, DInv, TypeOK
  <1>4. OnWay(o)'
    BY <1>1, <1>2, <1>3, OnWayKept DEF Terminal
  <1> QED
    BY <1>1, <1>2, <1>3, <1>4, RowStep

LEMMA SetCancelledStep ==
  ASSUME DInv, NEW r \in Reqs, SetCancelled(r)
  PROVE  DInv'
  <1>1. PICK o \in Orders :
        /\ o = req[r].order /\ req[r].op = "cancel" /\ req[r].pc = "write"
        /\ status[o] \in cancellableStates
    BY DEF SetCancelled, Matches, SetCancelledMatches, DInv, ReqOK, TypeOK, Statuses,
           cancellableStates
  <1>2. /\ "cancelled" \in Statuses /\ Move(o, "cancelled") /\ Goto(r, "log")
        /\ cancelledBy' = [cancelledBy EXCEPT ![o] = "user"]
        /\ UNCHANGED <<money, owner, driver, extras>>
    BY <1>1 DEF SetCancelled, Statuses
  <1>3. /\ cancelledBy' \in [Orders -> {"none", "user"}]
        /\ \A p \in Orders \ {o} : cancelledBy'[p] = cancelledBy[p]
        /\ driver' = driver /\ driver \in [Orders -> Drivers \cup {None}]
        /\ owner' = owner /\ owner \in [Orders -> Users \cup {None}]
    BY <1>1, <1>2 DEF DInv, TypeOK
  <1>4. o \in refs /\ (o \in gopay => o \in debited) /\ status[o] # "none"
    BY <1>1 DEF DInv, RowOK, cancellableStates
  <1>5. OnWay(o)'
    <2>1. /\ OnWay(o) /\ status'[o] = "cancelled"
          /\ took' = took \cup {<<o, status[o], "cancelled">>}
      BY <1>1, <1>2 DEF DInv, RowOK, Move, TypeOK
    <2>2. Delivered(o) \notin took'
      BY <1>1, <2>1 DEF OnWay, Delivered, cancellableStates
    <2>3. ~Reopened(o)' => PickedUp(o) \notin took'
      <3>1. Reopened(o) => Reopened(o)'
        BY <2>1 DEF Reopened
      <3>2. ~Reopened(o) => PickedUp(o) \notin took
        BY <1>1, <2>1 DEF OnWay, cancellableStates
      <3> QED
        BY <3>1, <3>2, <2>1 DEF PickedUp
    <2> QED
      BY <1>1, <2>1, <2>2, <2>3 DEF OnWay
  <1> QED
    BY <1>1, <1>2, <1>3, <1>4, <1>5, RowStep

LEMMA AssignDriverStep ==
  ASSUME Constants, DInv, NEW r \in Reqs, AssignDriver(r)
  PROVE  DInv'
  <1>1. PICK o \in Orders :
        /\ o = req[r].order /\ req[r].op = "assign" /\ req[r].pc = "write" /\ req[r].who \in Drivers
        /\ status[o] = "finding_driver"
    BY DEF AssignDriver, Matches, AssignDriverMatches, DInv, ReqOK
  <1>2. /\ "assigned" \in Statuses /\ Move(o, "assigned") /\ Goto(r, "log")
        /\ driver' = [driver EXCEPT ![o] = req[r].who]
        /\ UNCHANGED <<money, owner, cancelledBy, extras>>
    BY <1>1 DEF AssignDriver, Statuses
  <1>3. /\ driver' \in [Orders -> Drivers \cup {None}]
        /\ \A p \in Orders : driver[p] # None => driver'[p] # None
        /\ owner' = owner /\ owner \in [Orders -> Users \cup {None}]
        /\ cancelledBy' = cancelledBy /\ cancelledBy \in [Orders -> {"none", "user"}]
    BY <1>1, <1>2 DEF DInv, TypeOK, Constants
  <1>4. o \in refs /\ (o \in gopay => o \in debited)
    BY <1>1 DEF DInv, RowOK
  <1>5. OnWay(o)'
    BY <1>1, <1>2, <1>3, OnWayKept DEF Terminal
  <1> QED
    BY <1>1, <1>2, <1>3, <1>4, <1>5, RowStep

LEMMA UpdateStatusStep ==
  ASSUME Constants, DInv, NEW r \in Reqs, UpdateStatus(r)
  PROVE  DInv'
  <1>1. PICK o \in Orders, t \in {req[r].to} :
        /\ o = req[r].order /\ req[r].op \in {"advance", "internal"} /\ req[r].pc = "write"
        /\ status[o] = req[r].from
        /\ \/ req[r].op = "advance" /\ <<status[o], t>> \in driverTransitions
           \/ status[o] \in Statuses \ Terminal /\ t \in InternalTargets
    BY DEF UpdateStatus, Matches, UpdateStatusMatches, DInv, ReqOK
  <1>2. /\ t \in Statuses /\ status[o] \in Statuses \ Terminal
    BY <1>1 DEF Constants, driverTransitions, Statuses, Terminal
  <1>3. /\ Move(o, t) /\ Goto(r, "log")
        /\ UNCHANGED <<money, owner, driver, cancelledBy, extras>>
    BY <1>1 DEF UpdateStatus
  <1>4. /\ driver \in [Orders -> Drivers \cup {None}] /\ owner \in [Orders -> Users \cup {None}]
        /\ cancelledBy \in [Orders -> {"none", "user"}]
    BY DEF DInv, TypeOK
  <1>5. status[o] # "none" /\ o \in refs /\ (o \in gopay => o \in debited)
    BY <1>1, <1>2 DEF DInv, RowOK, Statuses
  <1>6. OnWay(o)'
    BY <1>1, <1>2, <1>3, <1>4, OnWayKept
  <1> QED
    BY <1>1, <1>2, <1>3, <1>4, <1>5, <1>6, RowStep

-----------------------------------------------------------------------------
(* Best-effort statements *)

LEMMA LogStep ==
  ASSUME DInv, NEW r \in Reqs, InsertStateLog(r)
  PROVE  DInv'
  <1>1. CASE End(r)
    BY <1>1, EndStep DEF InsertStateLog
  <1>2. CASE Goto(r, "proof") /\ SideEffects(req[r]) # "idle"
    <2> DEFINE q == [req[r] EXCEPT !.pc = "proof"]
    <2>1. /\ q \in Requests /\ q.pc = "proof" /\ q.op = req[r].op /\ q.order = req[r].order
          /\ q.who = req[r].who /\ q.from = req[r].from /\ q.to = req[r].to
      <3>1. "proof" \in Pcs /\ req[r] \in Requests
        BY DEF Pcs, DInv, TypeOK
      <3> QED
        BY <3>1, GotoSlot
    <2>2. req' = [req EXCEPT ![r] = q] /\ Reads
      BY <1>2 DEF Goto, InsertStateLog
    <2>3. /\ req[r].op = "advance" /\ req[r].to \in {"picked_up", "delivered"}
          /\ req[r].pc = "log" /\ ReqOK(req[r])
      BY <1>2 DEF SideEffects, ByAnyone, InsertStateLog, DInv
    <2> HIDE DEF q
    <2>4. ReqOK(q)
      BY <2>1, <2>3 DEF ReqOK
    <2> QED
      BY <2>1, <2>2, <2>4, SlotStep DEF Reads
  <1> QED
    BY <1>1, <1>2 DEF InsertStateLog

(* Evidence of a step that took place is written; the handler goes on or     *)
(* ends.                                                                     *)
LEMMA EvidenceStep ==
  ASSUME DInv, NEW r \in Reqs, NEW q \in Requests, ReqOK(q), q.pc \notin {"debit", "insert"},
         req' = [req EXCEPT ![r] = q],
         proof' \in [Orders -> SUBSET {"pickup", "delivery"}],
         fare' \in [Orders -> SUBSET {"breakdown", "total"}],
         \A o \in Orders : Evident(o)',
         UNCHANGED <<money, status, owner, driver, cancelledBy, took>>
  PROVE  DInv'
  <1> USE DEF DInv, money
  <1>1. TypeOK'
    BY DEF TypeOK
  <1>2. \A s \in Reqs : ReqOK(req[s])'
    BY DEF TypeOK, ReqOK
  <1>3. CreatesApart'
    BY DEF TypeOK, CreatesApart
  <1>4. \A o \in Orders : RowOK(o)'
    BY DEF RowOK, OnWay, PickedUp, Delivered, Reopened
  <1> QED
    BY <1>1, <1>2, <1>3, <1>4

(* What a handler with evidence to write does next.                          *)
LEMMA NextPc ==
  ASSUME DInv, NEW r \in Reqs, NEW x \in {"breakdown", "total"},
         req[r].pc \in {"proof", "breakdown"}, req[r].to # "picked_up",
         End(r) \/ Goto(r, x)
  PROVE  \E q \in Requests : /\ req' = [req EXCEPT ![r] = q] /\ ReqOK(q)
                             /\ q.pc \notin {"debit", "insert"}
  <1>1. CASE End(r)
    BY <1>1, IdleSlot, IdleOK DEF End
  <1>2. CASE Goto(r, x)
    <2> DEFINE q == [req[r] EXCEPT !.pc = x]
    <2>1. /\ q \in Requests /\ q.pc = x /\ q.op = req[r].op /\ q.order = req[r].order
          /\ q.who = req[r].who /\ q.from = req[r].from /\ q.to = req[r].to
      <3>1. x \in Pcs /\ req[r] \in Requests
        BY DEF Pcs, DInv, TypeOK
      <3> QED
        BY <3>1, GotoSlot
    <2>2. req' = [req EXCEPT ![r] = q]
      BY <1>2 DEF Goto
    <2>3. ReqOK(req[r])
      BY DEF DInv
    <2> HIDE DEF q
    <2>4. ReqOK(q)
      BY <2>1, <2>3 DEF ReqOK
    <2> QED
      BY <2>1, <2>2, <2>4
  <1> QED
    BY <1>1, <1>2

LEMMA SetProofStep ==
  ASSUME DInv, NEW r \in Reqs, SetProof(r)
  PROVE  DInv'
  <1> DEFINE o == req[r].order
             photo == IF req[r].to = "picked_up" THEN "pickup" ELSE "delivery"
  <1>1. /\ req[r].pc = "proof" /\ o \in Orders /\ req[r].to \in {"picked_up", "delivered"}
        /\ <<req[r].from, req[r].to>> \in driverTransitions
        /\ <<o, req[r].from, req[r].to>> \in took
    BY DEF SetProof, DInv, ReqOK
  <1>2. IF photo = "pickup" THEN PickedUp(o) \in took ELSE Delivered(o) \in took
    BY <1>1 DEF driverTransitions, PickedUp, Delivered
  <1>3. proof' = [proof EXCEPT ![o] = @ \cup {photo}] \/ proof' = proof
    BY DEF SetProof
  <1>4. PICK q \in Requests : /\ req' = [req EXCEPT ![r] = q] /\ ReqOK(q)
                              /\ q.pc \notin {"debit", "insert"}
    <2>1. CASE req[r].to = "picked_up"
      BY <2>1, IdleSlot, IdleOK DEF SetProof, End
    <2>2. CASE req[r].to # "picked_up"
      BY <1>1, <2>2, NextPc DEF SetProof
    <2> QED
      BY <2>1, <2>2
  <1>5. UNCHANGED <<money, status, owner, driver, cancelledBy, fare, took>>
    BY DEF SetProof
  <1> HIDE DEF o
  <1>6. /\ proof' \in [Orders -> SUBSET {"pickup", "delivery"}]
        /\ fare' \in [Orders -> SUBSET {"breakdown", "total"}]
    BY <1>1, <1>3, <1>5 DEF DInv, TypeOK
  <1>7. \A p \in Orders : Evident(p)'
    <2> SUFFICES ASSUME NEW p \in Orders PROVE Evident(p)'
      OBVIOUS
    <2>1. Evident(p)
      BY DEF DInv, RowOK
    <2>2. proof'[p] = proof[p] \/ (p = o /\ proof'[p] = proof[p] \cup {photo})
      BY <1>1, <1>3 DEF DInv, TypeOK
    <2> QED
      BY <1>2, <1>5, <2>1, <2>2 DEF Evident, PickedUp, Delivered
  <1> QED
    BY <1>4, <1>5, <1>6, <1>7, EvidenceStep

LEMMA SetFareStep ==
  ASSUME DInv, NEW r \in Reqs, SetFare(r)
  PROVE  DInv'
  <1> DEFINE o == req[r].order
  <1>1. /\ req[r].pc \in {"breakdown", "total"} /\ o \in Orders /\ req[r].to = "delivered"
        /\ <<req[r].from, req[r].to>> \in driverTransitions
        /\ <<o, req[r].from, req[r].to>> \in took
    BY DEF SetFare, DInv, ReqOK
  <1>2. Delivered(o) \in took
    BY <1>1 DEF driverTransitions, Delivered
  <1>3. fare' = [fare EXCEPT ![o] = @ \cup {req[r].pc}] \/ fare' = fare
    BY DEF SetFare
  <1>4. PICK q \in Requests : /\ req' = [req EXCEPT ![r] = q] /\ ReqOK(q)
                              /\ q.pc \notin {"debit", "insert"}
    <2>1. CASE req[r].pc = "total"
      BY <2>1, IdleSlot, IdleOK DEF SetFare, End
    <2>2. CASE req[r].pc = "breakdown"
      BY <1>1, <2>2, NextPc DEF SetFare
    <2> QED
      BY <1>1, <2>1, <2>2
  <1>5. UNCHANGED <<money, status, owner, driver, cancelledBy, proof, took>>
    BY DEF SetFare
  <1> HIDE DEF o
  <1>6. /\ proof' \in [Orders -> SUBSET {"pickup", "delivery"}]
        /\ fare' \in [Orders -> SUBSET {"breakdown", "total"}]
    BY <1>1, <1>3, <1>5 DEF DInv, TypeOK
  <1>7. \A p \in Orders : Evident(p)'
    <2> SUFFICES ASSUME NEW p \in Orders PROVE Evident(p)'
      OBVIOUS
    <2>1. Evident(p)
      BY DEF DInv, RowOK
    <2>2. fare'[p] = fare[p] \/ p = o
      BY <1>1, <1>3 DEF DInv, TypeOK
    <2> QED
      BY <1>2, <1>5, <2>1, <2>2 DEF Evident, PickedUp, Delivered
  <1> QED
    BY <1>4, <1>5, <1>6, <1>7, EvidenceStep

-----------------------------------------------------------------------------
(* The invariant *)

LEMMA HandleStep ==
  ASSUME Constants, DInv, NEW r \in Reqs, Handle(r)
  PROVE  DInv'
  BY DebitWalletStep, InsertOrderStep, SetCancelledStep, AssignDriverStep, UpdateStatusStep,
     LogStep, SetProofStep, SetFareStep, EndStep DEF Handle, WriteRefused

LEMMA NextStep == Constants /\ DInv /\ [Next]_vars => DInv'
  <1> SUFFICES ASSUME Constants, DInv, [Next]_vars PROVE DInv'
    OBVIOUS
  <1>1. ASSUME NEW r \in Reqs, UserRequests(r) PROVE DInv'
    <2> PICK u \in Users, o \in Orders :
          (\E pay \in {"gopay", "cash"} : CreateOrder(r, u, o, pay)) \/ CancelOrder(r, u, o)
      BY <1>1 DEF UserRequests
    <2> QED
      BY CreateOrderStep, ReadStep
  <1>2. ASSUME NEW r \in Reqs, DriverRequests(r) PROVE DInv'
    <2> PICK d \in Drivers, o \in Orders :
          \/ DriverAcceptOrder(r, d, o) \/ DriverRejectOrder(r, d, o)
          \/ \E e \in driverTransitions : DriverUpdateOrderStatus(r, d, o, e)
      BY <1>2 DEF DriverRequests
    <2> QED
      BY ReadStep
  <1>3. ASSUME NEW r \in Reqs, InternalRequests(r) PROVE DInv'
    <2> PICK o \in Orders : \/ \E d \in Drivers : DriverAcceptOrder(r, d, o)
                            \/ \E s \in InternalTargets : InternalUpdateStatus(r, o, s)
      BY <1>3 DEF InternalRequests, InternalAssignDriver
    <2> QED
      BY ReadStep
  <1>4. ASSUME NEW r \in Reqs, Handle(r) \/ Die(r) PROVE DInv'
    BY <1>4, HandleStep, EndStep DEF Die
  <1>5. CASE UNCHANGED vars
    <2> USE DEF DInv, money, extras, vars
    <2>1. TypeOK'
      BY <1>5 DEF TypeOK
    <2>2. \A s \in Reqs : ReqOK(req[s])'
      BY <1>5 DEF ReqOK
    <2>3. CreatesApart'
      BY <1>5 DEF CreatesApart
    <2>4. \A o \in Orders : RowOK(o)'
      BY <1>5 DEF RowOK, Evident, OnWay, PickedUp, Delivered, Reopened
    <2> QED
      BY <2>1, <2>2, <2>3, <2>4
  <1> QED
    BY <1>1, <1>2, <1>3, <1>4, <1>5 DEF Next

THEOREM Invariance ==
  ASSUME Constants
  PROVE  Spec => []DInv
  BY Initially, NextStep, PTL DEF Spec

(* DeliverySafe follows: a photo or a fare needs a pickup, and OnWay places  *)
(* every user's cancel before it.                                            *)
LEMMA Implied == DInv => DeliverySafe
  <1> SUFFICES ASSUME DInv PROVE DeliverySafe
    OBVIOUS
  <1>1. EvidenceTruthful
    BY DEF DInv, RowOK, Evident, EvidenceTruthful, PickedUp, Delivered
  <1>2. ASSUME NEW o \in Orders, cancelledBy[o] = "user"
        PROVE  /\ status[o] = "cancelled"
               /\ \E s \in cancellableStates : <<o, s, "cancelled">> \in took
               /\ "delivery" \notin proof[o] /\ fare[o] = {}
               /\ proof[o] = {} \/ Reopened(o)
    <2>1. OnWay(o) /\ Evident(o) /\ proof[o] \subseteq {"pickup", "delivery"}
      BY <1>2 DEF DInv, RowOK, TypeOK
    <2> QED
      BY <1>2, <2>1 DEF OnWay, Evident
  <1>3. CancelBeforePickup
    BY <1>2 DEF CancelBeforePickup
  <1>4. DeliveryPaid
    BY DEF DInv, RowOK, TypeOK, DeliveryPaid
  <1> QED
    BY <1>1, <1>3, <1>4 DEF DInv, DeliverySafe

(* Photos and fares only of steps the driver made, a user's cancel before    *)
(* the pickup and for good, no delivery without its debit: whatever the      *)
(* handlers of delivery_order_service.go interleave, fail or die at.         *)
THEOREM DeliverySafety ==
  ASSUME Constants
  PROVE  Spec => []DeliverySafe
  BY Invariance, Implied, PTL

-----------------------------------------------------------------------------
(* The lifecycle *)

(* What a change of one row is in the lifecycle's view.                      *)
View == [o \in Orders |-> RideStatus(status[o])]

LEMMA ViewMove ==
  ASSUME NEW o \in Orders, NEW t, Move(o, t), TypeOK
  PROVE  View' = [View EXCEPT ![o] = RideStatus(t)] /\ View[o] = RideStatus(status[o])
  BY DEF Move, TypeOK, View

LEMMA Mapped ==
  /\ \A s \in cancellableStates \cup {"none", "cancelled"} : RideStatus(s) = s
  /\ RideStatus("picked_up") = "on_trip" /\ RideStatus("on_delivery") = "on_trip"
  /\ RideStatus("delivered") = "completed"
  BY DEF RideStatus, cancellableStates

LEMMA LifecycleStep ==
  Constants /\ DInv /\ [Next]_vars => [Lifecycle!Next]_(Lifecycle!vars)
  <1> SUFFICES ASSUME Constants, DInv, [Next]_vars
               PROVE  Lifecycle!Next \/ UNCHANGED <<View, driver>>
    BY DEF Lifecycle!vars, View
  <1>1. ASSUME NEW r \in Reqs, InsertOrder(r) PROVE Lifecycle!Next
    <2> PICK o \in Orders : o = req[r].order /\ status[o] = "none"
      BY <1>1 DEF DInv, ReqOK, InsertOrder
    <2>1. Move(o, "finding_driver") /\ UNCHANGED driver
      BY <1>1 DEF InsertOrder
    <2>2. View' = [View EXCEPT ![o] = "finding_driver"] /\ View[o] = status[o]
      BY <2>1, ViewMove, Mapped DEF DInv, cancellableStates
    <2>3. Lifecycle!Create(o)
      BY <2>1, <2>2 DEF View, Lifecycle!Create
    <2> QED
      BY <2>3 DEF Lifecycle!Next
  <1>2. ASSUME NEW r \in Reqs, SetCancelled(r) PROVE Lifecycle!Next
    <2> PICK o \in Orders : o = req[r].order /\ status[o] \in cancellableStates
      BY <1>2 DEF SetCancelled, Matches, SetCancelledMatches, DInv, ReqOK, TypeOK, Statuses,
                  cancellableStates
    <2>1. Move(o, "cancelled") /\ UNCHANGED driver
      BY <1>2 DEF SetCancelled
    <2>2. View' = [View EXCEPT ![o] = "cancelled"] /\ View[o] = status[o]
      BY <2>1, ViewMove, Mapped DEF DInv
    <2>3. Lifecycle!Cancel(o)
      BY <2>1, <2>2 DEF View, Lifecycle!Cancel, Lifecycle!Cancellable, cancellableStates
    <2> QED
      BY <2>3 DEF Lifecycle!Next
  <1>3. ASSUME NEW r \in Reqs, AssignDriver(r) PROVE Lifecycle!Next
    <2> PICK o \in Orders, d \in Drivers :
          o = req[r].order /\ d = req[r].who /\ status[o] = "finding_driver"
      BY <1>3 DEF AssignDriver, Matches, AssignDriverMatches, DInv, ReqOK
    <2>1. Move(o, "assigned") /\ driver' = [driver EXCEPT ![o] = d]
      BY <1>3 DEF AssignDriver
    <2>2. View' = [View EXCEPT ![o] = "assigned"] /\ View[o] = status[o]
      BY <2>1, ViewMove, Mapped DEF DInv, cancellableStates
    <2>3. Lifecycle!Assign(o, d)
      BY <2>1, <2>2 DEF View, Lifecycle!Assign
    <2> QED
      BY <2>3 DEF Lifecycle!Next
  <1>4. ASSUME NEW r \in Reqs, UpdateStatus(r) PROVE Lifecycle!Next \/ UNCHANGED <<View, driver>>
    <2> PICK o \in Orders, t \in {req[r].to} :
          /\ o = req[r].order
          /\ \/ driver[o] # None /\ <<status[o], t>> \in driverTransitions
             \/ status[o] \in Statuses \ Terminal /\ t \in InternalTargets
      BY <1>4 DEF UpdateStatus, Matches, UpdateStatusMatches, DInv, ReqOK
    <2>1. Move(o, t) /\ UNCHANGED driver
      BY <1>4 DEF UpdateStatus
    <2>2. View' = [View EXCEPT ![o] = RideStatus(t)] /\ View[o] = RideStatus(status[o])
      BY <2>1, ViewMove DEF DInv
    <2>3. CASE driver[o] # None /\ <<status[o], t>> \in driverTransitions
      <3>1. CASE status[o] = "picked_up"
        <4>1. t = "on_delivery"
          BY <2>3, <3>1 DEF driverTransitions
        <4>2. View' = View
          BY <2>2, <3>1, <4>1, Mapped DEF View
        <4> QED
          BY <2>1, <4>2
      <3>2. CASE status[o] # "picked_up"
        <4>1. <<RideStatus(status[o]), RideStatus(t)>> \in Lifecycle!DriverEdges
          BY <2>3, <3>2, Mapped DEF driverTransitions, cancellableStates, Lifecycle!DriverEdges
        <4>2. Lifecycle!Advance(o)
          BY <2>1, <2>2, <2>3, <4>1 DEF Lifecycle!Advance, View
        <4> QED
          BY <4>2 DEF Lifecycle!Next
      <3> QED
        BY <3>1, <3>2
    <2>4. CASE status[o] \in Statuses \ Terminal /\ t \in InternalTargets
      <3>1. RideStatus(status[o]) \in Lifecycle!Statuses \ Lifecycle!Terminal
        BY <2>4, Mapped DEF Statuses, Terminal, cancellableStates, Lifecycle!Statuses,
                            Lifecycle!Terminal
      <3>2. Lifecycle!Internal(o)
        BY <2>1, <2>2, <2>4, <3>1 DEF Lifecycle!Internal, View
      <3> QED
        BY <3>2 DEF Lifecycle!Next
    <2> QED
      BY <2>3, <2>4
  <1>5. UNCHANGED <<status, driver>> => UNCHANGED <<View, driver>>
    BY DEF View
  <1>6. \/ \E r \in Reqs : InsertOrder(r) \/ SetCancelled(r) \/ AssignDriver(r) \/ UpdateStatus(r)
        \/ UNCHANGED <<status, driver>>
    BY DEF Next, vars, UserRequests, DriverRequests, InternalRequests, Handle, Die, CreateOrder,
           CancelOrder, DriverAcceptOrder, InternalAssignDriver, DriverRejectOrder,
           DriverUpdateOrderStatus, InternalUpdateStatus, DebitWallet, WriteRefused,
           InsertStateLog, SetProof, SetFare, Reads
  <1> QED
    BY <1>1, <1>2, <1>3, <1>4, <1>5, <1>6

(* Every behaviour of the delivery handlers is a behaviour of the lifecycle  *)
(* of a ride order.                                                          *)
THEOREM Refinement ==
  ASSUME Constants
  PROVE  Spec => DeliveryLifecycle
  <1>1. Init => Lifecycle!Init
    BY DEF Init, Lifecycle!Init, RideStatus
  <1> QED
    BY <1>1, LifecycleStep, Invariance, PTL DEF Spec, DeliveryLifecycle, Lifecycle!Spec
=============================================================================
