------------------------------- MODULE Payment -------------------------------
(***************************************************************************)
(* payment-service: payment methods, charges, refunds, holds, settlements. *)
(* No handler opens a transaction around what it reads and what it writes, *)
(* no UPDATE has a condition on the status, and errors of the writes after *)
(* the first are ignored; so a handler is its statements in order, and any *)
(* other handler may run between two of them.                              *)
(***************************************************************************)
EXTENDS Naturals, Sequences

CONSTANTS Orders, Holds, Methods,
          Wallets,      \* the methods of type clay_wallet
          Reqs,         \* slots for handlers in flight
          MaxRequests,  \* bound on the requests that arrive
          Faults        \* TRUE: statements fail, the process dies

VARIABLES method,       \* method[m]: "none", "plain" or "default"
          charges,      \* transactions of type charge, in the order of creation
          refunds,      \* refunds: <<index of the charge, status>>
          hold,         \* hold[h]: its status
          heldFor,      \* heldFor[h]: the order of the hold
          onWallet,     \* the holds that name the wallet as their method
          settled,      \* settled[o][r]: settlements of o inserted by slot r
          captured,     \* captured[h][r]: charges that slot r made from hold h
          was,          \* history: <<h, s>>, hold h has had status s
          events,       \* what was published: <<topic, what it is about>>
          payJob,       \* payJob[r]: the handler in slot r
          payArrived       \* requests so far, up to the bound

vars == <<method, charges, refunds, hold, heldFor, onWallet, settled, captured, was, events, payJob, payArrived>>

Null == [op |-> "none", at |-> 1, id |-> 0, of |-> 0, wallet |-> FALSE]

(* The statements of a handler after its reads, in order; MarkFirst and      *)
(* EventFirst are mutants.                                                   *)
MarkFirst(op)  == CASE op = "refund" -> <<"mark", "refund", "publish">>
                    [] op = "capture" -> <<"charge", "close", "publish">>
                    [] OTHER -> <<"close", "publish">>
EventFirst(op) == CASE op \in {"charge", "settle", "hold"} -> <<"publish", "insert">>
                    [] op = "capture" -> <<"publish", "charge", "close">>
                    [] op = "refund" -> <<"refund", "mark", "publish">>
                    [] OTHER -> <<"publish", "close">>
Plan(op) == CASE op \in {"charge", "settle", "hold"} -> <<"insert", "publish">>
              [] op = "refund" -> <<"refund", "mark", "publish">>
              [] op = "capture" -> <<"charge", "close", "publish">>
              [] OTHER -> <<"close", "publish">>

Step(r) == IF payJob[r].op = "none" THEN "idle" ELSE Plan(payJob[r].op)[payJob[r].at]
Done(r) == LET q == payJob[r]
           IN  payJob' = [payJob EXCEPT ![r] = IF q.at = Len(Plan(q.op)) THEN Null
                                               ELSE [q EXCEPT !.at = q.at + 1]]
Begin(r, op, id, of, wallet) ==
    /\ payJob[r] = Null
    /\ payJob' = [payJob EXCEPT ![r] = [op |-> op, at |-> 1, id |-> id, of |-> of, wallet |-> wallet]]

Init ==
    /\ method = [m \in Methods |-> "none"]
    /\ charges = <<>> /\ refunds = {} /\ was = {} /\ events = {}
    /\ hold = [h \in Holds |-> "none"] /\ heldFor = [h \in Holds |-> 0] /\ onWallet = {}
    /\ settled = [o \in Orders |-> [r \in Reqs |-> 0]]
    /\ captured = [h \in Holds |-> [r \in Reqs |-> 0]]
    /\ payJob = [r \in Reqs |-> Null] /\ payArrived = 0

TypeOK ==
    /\ method \in [Methods -> {"none", "plain", "default"}]
    /\ heldFor \in [Holds -> Orders \cup {0}] /\ onWallet \subseteq Holds
    /\ charges \in Seq([order : Orders, wallet : BOOLEAN, from : Holds \cup {0},
                        status : {"completed", "pending", "refunded"}])
    /\ refunds \subseteq Nat \X {"processed", "pending"}
    /\ hold \in [Holds -> {"none", "held", "captured", "released"}]
    /\ settled \in [Orders -> [Reqs -> Nat]] /\ captured \in [Holds -> [Reqs -> Nat]]

-----------------------------------------------------------------------------
(* Payment methods: one statement or one transaction each. *)

AddPaymentMethod(m, default) ==
    /\ method[m] = "none"
    /\ method' = [method EXCEPT ![m] = IF default THEN "default" ELSE "plain"]
DeletePaymentMethod(m) ==
    /\ method[m] # "none"
    /\ method' = [method EXCEPT ![m] = "none"]
SetDefaultPaymentMethod(m) ==       \* clears every default, even if m does not exist
    method' = [n \in Methods |-> IF method[n] = "none" THEN "none"
                                 ELSE IF n = m THEN "default" ELSE "plain"]
Arrive == payArrived < MaxRequests /\ payArrived' = payArrived + 1
MethodRequests ==
    /\ Arrive
    /\ \E m \in Methods : \/ \E d \in BOOLEAN : AddPaymentMethod(m, d)
                          \/ DeletePaymentMethod(m) \/ SetDefaultPaymentMethod(m)
    /\ UNCHANGED <<charges, refunds, hold, heldFor, onWallet, settled, captured, was, events, payJob>>

-----------------------------------------------------------------------------
(* The reads and checks with which a handler begins. *)

CreateCharge(r, o, m) ==
    /\ method[m] # "none"
    /\ Begin(r, "charge", o, 0, m \in Wallets)

(* FindTransactionByOrderID: the newest charge of the order, whatever its status. *)
Newest(o) == {i \in DOMAIN charges : /\ charges[i].order = o
                                     /\ \A j \in DOMAIN charges : charges[j].order = o => j <= i}
CreateRefund(r, o) == \E i \in Newest(o) : Begin(r, "refund", o, i, charges[i].wallet)

(* The id of the new hold is fresh; its method is what the request says. *)
HoldPayment(r, h, o, wallet) ==
    /\ hold[h] = "none" /\ \A q \in Reqs : payJob[q].op = "hold" => payJob[q].id # h
    /\ Begin(r, "hold", h, o, wallet)

(* Mutant: a hold is captured whatever has become of it. *)
AnyHold(h) == hold[h] # "none"
Capturable(h) == hold[h] = "held"

CapturePayment(r, h) == Capturable(h) /\ Begin(r, "capture", h, heldFor[h], h \in onWallet)
ReleasePayment(r, h) == hold[h] = "held" /\ Begin(r, "release", h, 0, FALSE)

(* Mutant: no look for an earlier settlement. *)
NeverExists(o) == FALSE
SettlementExistsByOrderID(o) == \E r \in Reqs : settled[o][r] > 0
CreateSettlement(r, o) == ~SettlementExistsByOrderID(o) /\ Begin(r, "settle", o, 0, FALSE)

ChargeRequests(r) == \E o \in Orders : \/ \E m \in Methods : CreateCharge(r, o, m)
                                       \/ CreateRefund(r, o)
HoldRequests(r) == \E h \in Holds : \/ \E o \in Orders, w \in BOOLEAN : HoldPayment(r, h, o, w)
                                    \/ CapturePayment(r, h) \/ ReleasePayment(r, h)
Requests(r) ==
    /\ Arrive
    /\ ChargeRequests(r) \/ HoldRequests(r) \/ \E o \in Orders : CreateSettlement(r, o)
    /\ UNCHANGED <<method, charges, refunds, hold, heldFor, onWallet, settled, captured, was, events>>

-----------------------------------------------------------------------------
(* The writes. *)

(* A capture is completed whatever its method; a charge only from a wallet. *)
AddCharge(o, wallet, from) ==
    charges' = Append(charges, [order |-> o, wallet |-> wallet, from |-> from,
                                status |-> IF wallet \/ from # 0 THEN "completed" ELSE "pending"])

CreateTransaction(r) ==
    LET q == payJob[r] IN
    /\ \/ Step(r) = "insert" /\ q.op = "charge"
       \/ Step(r) = "charge"
    /\ IF q.op = "charge" THEN AddCharge(q.id, q.wallet, 0) ELSE AddCharge(q.of, q.wallet, q.id)
    /\ captured' = IF q.op = "charge" THEN captured ELSE [captured EXCEPT ![q.id][r] = @ + 1]
    /\ Done(r)
    /\ UNCHANGED <<payArrived, method, refunds, hold, heldFor, onWallet, settled, was, events>>

CreateHold(r) ==
    LET q == payJob[r] IN
    /\ Step(r) = "insert" /\ q.op = "hold"
    /\ hold' = [hold EXCEPT ![q.id] = "held"]
    /\ heldFor' = [heldFor EXCEPT ![q.id] = q.of]
    /\ onWallet' = IF q.wallet THEN onWallet \cup {q.id} ELSE onWallet
    /\ was' = was \cup {<<q.id, "held">>}
    /\ Done(r)
    /\ UNCHANGED <<payArrived, method, charges, refunds, settled, captured, events>>

InsertRefund(r) ==
    LET q == payJob[r] IN
    /\ Step(r) = "refund"
    /\ refunds' = refunds \cup {<<q.of, IF q.wallet THEN "processed" ELSE "pending">>}
    /\ Done(r)
    /\ UNCHANGED <<payArrived, method, charges, hold, heldFor, onWallet, settled, captured, was, events>>

(* Only a processed refund marks its charge. *)
UpdateTransactionStatus(r) ==
    LET q == payJob[r] IN
    /\ Step(r) = "mark"
    /\ \/ charges' = IF q.wallet THEN [charges EXCEPT ![q.of].status = "refunded"] ELSE charges
       \/ Faults /\ UNCHANGED charges
    /\ Done(r)
    /\ UNCHANGED <<payArrived, method, refunds, hold, heldFor, onWallet, settled, captured, was, events>>

(* Unconditional; after a capture its error is ignored, after a release it is not. *)
UpdateHoldStatus(r) ==
    LET q == payJob[r] IN
    /\ Step(r) = "close"
    /\ \E s \in {IF q.op = "capture" THEN "captured" ELSE "released"} :
         \/ hold' = [hold EXCEPT ![q.id] = s] /\ was' = was \cup {<<q.id, s>>} /\ Done(r)
         \/ /\ Faults /\ q.op = "capture"
            /\ was' = was \cup {<<q.id, "unwritten">>} /\ Done(r) /\ UNCHANGED hold
    /\ UNCHANGED <<payArrived, method, charges, refunds, heldFor, onWallet, settled, captured, events>>

InsertSettlement(r) ==
    LET q == payJob[r] IN
    /\ Step(r) = "insert" /\ q.op = "settle"
    /\ settled' = [settled EXCEPT ![q.id][r] = @ + 1]
    /\ Done(r)
    /\ UNCHANGED <<payArrived, method, charges, refunds, hold, heldFor, onWallet, captured, was, events>>

Publish(r) ==
    LET q == payJob[r] IN
    /\ Step(r) = "publish"
    /\ \/ events' = events \cup {<<q.op, q.id>>}
       \/ Faults /\ UNCHANGED events
    /\ Done(r)
    /\ UNCHANGED <<payArrived, method, charges, refunds, hold, heldFor, onWallet, settled, captured, was>>

(* A statement whose error ends the handler, or the end of the process. *)
Die(r) ==
    /\ Faults /\ payJob[r] # Null
    /\ was' = IF Step(r) = "close" THEN was \cup {<<payJob[r].id, "unwritten">>} ELSE was
    /\ payJob' = [payJob EXCEPT ![r] = Null]
    /\ UNCHANGED <<payArrived, method, charges, refunds, hold, heldFor, onWallet, settled, captured, events>>

Handle(r) == \/ CreateTransaction(r) \/ CreateHold(r) \/ InsertRefund(r)
             \/ UpdateTransactionStatus(r) \/ UpdateHoldStatus(r)
             \/ InsertSettlement(r) \/ Publish(r)
Next == MethodRequests \/ \E r \in Reqs : Requests(r) \/ Handle(r) \/ Die(r)
Spec == Init /\ [][Next]_vars

-----------------------------------------------------------------------------
(* Properties *)

(* A charge reads refunded only when a processed refund names it: the mark   *)
(* comes after the row, and gateway refunds, which are still on their way,   *)
(* do not mark.                                                              *)
RefundBacked ==
    \A i \in DOMAIN charges : charges[i].status = "refunded" =>
        <<i, "processed">> \in refunds /\ charges[i].wallet

(* A hold is charged twice only by handlers that overlap, or because the     *)
(* status after the first charge was never written: a slot that has captured *)
(* a hold finds it captured or released the next time.                       *)
CaptureOnce ==
    \A h \in Holds, r \in Reqs : <<h, "unwritten">> \notin was => captured[h][r] <= 1

(* An order is settled twice only by handlers that overlap: a handler that   *)
(* begins after a settlement is refused.                                     *)
SettleOnce == \A o \in Orders, r \in Reqs : settled[o][r] <= 1

(* A hold reads captured, and is announced as captured or released, only     *)
(* after the charge was made or the hold was given up; a settlement is       *)
(* announced (the wallet credits the driver on it) only when it exists.      *)
Announced ==
    /\ \A h \in Holds : hold[h] = "captured" \/ <<"capture", h>> \in events
         => \E i \in DOMAIN charges : charges[i].from = h
    /\ \A h \in Holds : <<"release", h>> \in events => <<h, "released">> \in was
    /\ \A o \in Orders : <<"settle", o>> \in events => SettlementExistsByOrderID(o)

(* Together: a charge reads refunded only on a processed refund, a hold is   *)
(* captured and an order settled once unless handlers overlap, and every     *)
(* event that is published tells of something that took place.               *)
PaymentSafe == TypeOK /\ RefundBacked /\ CaptureOnce /\ SettleOnce /\ Announced
=============================================================================
