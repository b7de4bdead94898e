------------------------------ MODULE Promotion ------------------------------
(***************************************************************************)
(* promotion-service.  Eligibility is judged on a copy of the promo read   *)
(* outside the transaction that counts the use; administrators read the    *)
(* whole row and save it back, the counter included; a release takes one   *)
(* off the counter of the promo it names and deletes the order's use of    *)
(* whatever promo it was.                                                  *)
(***************************************************************************)
EXTENDS Integers, FiniteSets

CONSTANTS Promos, Orders, Users, Reqs,
          Quotas,      \* the quotas a promo is created with; 0 is unlimited
          MaxRequests  \* bound on the requests that arrive

VARIABLES promo,       \* promo[p]: [active, quota, used]
          usage,       \* rows <<o, p>> of promo_usages: order o used p
          voucher,     \* voucher[u][p]: rows of user_promos
          expired,     \* the promos whose valid_until has passed
          drift,       \* history: what releases that name p leave between counter and uses
          clobbered,   \* history: the promos a save gave a counter that had changed since
          promoJob, promoArrived
promoVars == <<promo, usage, voucher, expired, drift, clobbered, promoJob, promoArrived>>

NoJob == [op |-> "none", promo |-> 0, id |-> 0, copy |-> [active |-> FALSE, quota |-> 0, used |-> 0]]

TypeOK ==
    /\ promo \in [Promos -> [active : BOOLEAN, quota : Quotas, used : Int]]
    /\ usage \subseteq Orders \X Promos /\ voucher \in [Users -> [Promos -> Nat]]
    /\ expired \cup clobbered \subseteq Promos /\ drift \in [Promos -> Int]
    /\ \A r \in Reqs : promoJob[r].op \in {"none", "apply", "release", "claim", "save"}

(* CreatePromo *)
Init == /\ promo \in [Promos -> [active : {TRUE}, quota : Quotas, used : {0}]]
        /\ usage = {} /\ voucher = [u \in Users |-> [p \in Promos |-> 0]]
        /\ expired = {} /\ drift = [p \in Promos |-> 0] /\ clobbered = {}
        /\ promoJob = [r \in Reqs |-> NoJob] /\ promoArrived = 0

-----------------------------------------------------------------------------
(* What a handler reads and checks. *)

Begin(r, op, p, id, copy) ==
    /\ promoJob[r] = NoJob /\ promoArrived < MaxRequests /\ promoArrived' = promoArrived + 1
    /\ promoJob' = [promoJob EXCEPT ![r] = [op |-> op, promo |-> p, id |-> id, copy |-> copy]]
    /\ UNCHANGED <<promo, usage, voucher, expired, drift, clobbered>>

(* Mutant: the quota is not looked at. *)
AnyCount(row) == TRUE
WithinQuota(row) == row.quota > 0 => row.used < row.quota
checkEligibility(p) == promo[p].active /\ p \notin expired /\ WithinQuota(promo[p])

ApplyPromo(r, p, o)   == checkEligibility(p) /\ Begin(r, "apply", p, o, promo[p])
ReleasePromo(r, p, o) == Begin(r, "release", p, o, promo[p])
ClaimVoucher(r, p, u) == /\ checkEligibility(p) /\ voucher[u][p] = 0
                         /\ Begin(r, "claim", p, u, promo[p])
(* UpdatePromo, and DeactivatePromo with active = FALSE. *)
UpdatePromo(r, p, active) == Begin(r, "save", p, 0, [promo[p] EXCEPT !.active = active])

Requests(r) ==
    \E p \in Promos : \/ \E o \in Orders : ApplyPromo(r, p, o) \/ ReleasePromo(r, p, o)
                      \/ \E u \in Users : ClaimVoucher(r, p, u)
                      \/ \E active \in BOOLEAN : UpdatePromo(r, p, active)

-----------------------------------------------------------------------------
(* The writes, each a transaction. *)

Finish(r) == promoJob' = [promoJob EXCEPT ![r] = NoJob]

UsesOf(o) == {p \in Promos : <<o, p>> \in usage}

(* Mutant: the order's uses are unique by promo only. *)
IndexByPromo(o, p) == p \notin UsesOf(o)
(* order_id is unique in promo_usages, whatever the promo. *)
IsFirstUse(o, p) == UsesOf(o) = {}

(* The usage and the counter, or, when the order has one already, neither. *)
CountUse(r) ==
    LET o == promoJob[r].id  p == promoJob[r].promo IN
    /\ promoJob[r].op = "apply" /\ Finish(r)
    /\ IF IsFirstUse(o, p)
       THEN usage' = usage \cup {<<o, p>>} /\ promo' = [promo EXCEPT ![p].used = @ + 1]
       ELSE UNCHANGED <<usage, promo>>
    /\ UNCHANGED <<voucher, expired, drift, clobbered, promoArrived>>

(* Mutant: the row is deleted and the counter left. *)
KeepCount(n) == n
Decrement(n) == n - 1

(* The counter of the promo the call names, and the rows of the order. *)
ReleasePromoUsage(r) ==
    LET o == promoJob[r].id  p == promoJob[r].promo IN
    /\ promoJob[r].op = "release" /\ Finish(r)
    /\ promo' = [promo EXCEPT ![p].used = Decrement(@)]
    /\ usage' = {w \in usage : w[1] # o}
    /\ drift' = [q \in Promos |->
                   IF q = p /\ q \notin UsesOf(o) THEN drift[q] - 1
                   ELSE IF q # p /\ q \in UsesOf(o) THEN drift[q] + 1 ELSE drift[q]]
    /\ UNCHANGED <<voucher, expired, clobbered, promoArrived>>

CreateUserPromo(r) ==
    LET u == promoJob[r].id  p == promoJob[r].promo IN
    /\ promoJob[r].op = "claim" /\ Finish(r)
    /\ voucher' = IF voucher[u][p] = 0 THEN [voucher EXCEPT ![u][p] = @ + 1] ELSE voucher
    /\ UNCHANGED <<promo, usage, expired, drift, clobbered, promoArrived>>

(* Every column of the copy; the route changes is_active only. *)
SavePromo(r) ==
    LET c == promoJob[r].copy  p == promoJob[r].promo IN
    /\ promoJob[r].op = "save" /\ Finish(r)
    /\ promo' = [promo EXCEPT ![p] = c]
    /\ clobbered' = IF c.used # promo[p].used THEN clobbered \cup {p} ELSE clobbered
    /\ UNCHANGED <<usage, voucher, expired, drift, promoArrived>>

Expire == /\ \E p \in Promos : expired' = expired \cup {p}
          /\ UNCHANGED <<promo, usage, voucher, drift, clobbered, promoJob, promoArrived>>

(* The connection drops, or the process dies: the transaction rolls back. *)
Die(r) == /\ promoJob[r] # NoJob /\ Finish(r)
          /\ UNCHANGED <<promo, usage, voucher, expired, drift, clobbered, promoArrived>>

Next == Expire \/ \E r \in Reqs : \/ Requests(r) \/ CountUse(r) \/ ReleasePromoUsage(r)
                                  \/ CreateUserPromo(r) \/ SavePromo(r) \/ Die(r)
Spec == Init /\ [][Next]_promoVars

-----------------------------------------------------------------------------
(* Properties *)

UsersOf(p) == {o \in Orders : <<o, p>> \in usage}

(* Two transactions keep the counter of a promo equal to the orders that use *)
(* it, whatever fails or repeats, as long as a release names the promo its   *)
(* order used.  Each release that names another leaves exactly one more use  *)
(* counted for the promo that lost its row and one fewer for the one named,  *)
(* and a save in the middle of an apply or a release loses it.               *)
CountMatches == \A p \in Promos \ clobbered : promo[p].used = Cardinality(UsersOf(p)) + drift[p]

(* The openapi (:267, :354) refuses an apply once the limit is reached.  One *)
(* handler at a time keeps that; of several at once, those that were past    *)
(* the check when the counter reached the limit are counted all the same, so *)
(* what the code keeps is the limit plus the other handlers in flight.       *)
QuotaOverrun ==
    \A p \in Promos \ clobbered :
        promo[p].quota > 0 => promo[p].used <= promo[p].quota + Cardinality(Reqs) - 1

(* However requests repeat and overlap, an order uses one promo, and a user  *)
(* holds one voucher of each.                                                *)
OncePerOrder == /\ \A o \in Orders : Cardinality(UsesOf(o)) <= 1
                /\ \A u \in Users, p \in Promos : voucher[u][p] <= 1

(* Together: the counter differs from the uses by what mistaken releases     *)
(* leave, overruns its quota by no more than the handlers in flight, and no  *)
(* order uses two promos.                                                    *)
PromotionSafe == TypeOK /\ CountMatches /\ QuotaOverrun /\ OncePerOrder
=============================================================================
