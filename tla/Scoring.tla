------------------------------ MODULE Scoring -------------------------------
(***************************************************************************)
(* The numbers of matching-service: the score by which two candidates for  *)
(* an order are ranked, and the surge that is suggested for a zone.        *)
(* Fractions are in thousandths, rounded down; weights in hundredths.      *)
(***************************************************************************)
EXTENDS Integers, FiniteSetsExt

CONSTANTS Distances, Radii, \* in tenths of a kilometre
          Ratings,          \* in tenths; 0: no rating is cached
          Replies,          \* bound on offers accepted and rejected
          Trips,            \* trips of the day
          Counts            \* drivers and orders of a zone

VARIABLES radius, first, second, \* the candidates of a search
          best,                  \* the one that is offered the order
          zone, surge
scoreVars == <<radius, first, second, best, zone, surge>>

Candidates == [distance : Distances, rating : Ratings, accepted : Replies, rejected : Replies,
               priority : BOOLEAN, trips : Trips]
Nobody == [distance |-> -1]
NoZone == [drivers |-> -1, orders |-> -1]

-----------------------------------------------------------------------------
Unclamped(x) == x
Clamped(x) == Max({0, Min({1000, x})})

DefaultWeights == [proximity |-> 35, rating |-> 20, acceptance |-> 15, mode |-> 20, distribution |-> 10]

(* Half of the offers for a driver who has answered none. *)
computeAcceptanceRate(c) ==
    LET total == c.accepted + c.rejected IN
    IF total = 0 THEN 500 ELSE (c.accepted * 1000) \div total

(* A radius that is not positive is five kilometres. *)
Radius(r) == IF r <= 0 THEN 50 ELSE r
(* Who has no rating yet is taken for a 4.5. *)
Rating(c) == IF c.rating = 0 THEN 45 ELSE c.rating

(* Hundred thousandths: 100000 is the best score there is. *)
computeScore(c, r) ==
    LET w == DefaultWeights IN
    w.proximity * Clamped(1000 - (c.distance * 1000) \div Radius(r))
    + w.rating * Clamped(((Rating(c) - 10) * 1000) \div 40)
    + w.acceptance * Clamped(computeAcceptanceRate(c))
    + w.mode * (IF c.priority THEN 1000 ELSE 0)
    + w.distribution * Clamped(1000 - c.trips * 100)

(* By score, among equals by distance; the sort is stable. *)
Before(a, b, r) ==
    \/ computeScore(a, r) > computeScore(b, r)
    \/ computeScore(a, r) = computeScore(b, r) /\ a.distance < b.distance

(* The geo index lists the nearer one first. *)
scoreCandidates(a, b, r) ==
    LET near == IF a.distance <= b.distance THEN a ELSE b
        far  == IF a.distance <= b.distance THEN b ELSE a
    IN IF Before(far, near, r) THEN far ELSE near

-----------------------------------------------------------------------------
(* In hundredths.  Fewer drivers than orders call for more. *)
suggestedSurge(ratio) == CASE ratio < 500 -> 200 [] ratio \in 500..749 -> 150
                           [] ratio \in 750..999 -> 125 [] ratio >= 1000 -> 100
GetZoneStats(z) == suggestedSurge(IF z.orders > 0 THEN (z.drivers * 1000) \div z.orders ELSE 1000)

-----------------------------------------------------------------------------
TypeOK == /\ first \in Candidates \cup {Nobody} /\ second \in Candidates \cup {Nobody}
          /\ best \in {first, second} /\ surge \in {0, 100, 125, 150, 200}

Init == /\ radius = 0 /\ first = Nobody /\ second = Nobody /\ best = Nobody
        /\ zone = NoZone /\ surge = 0

pickNextCandidate(a, b, r) ==
    /\ radius' = r /\ first' = a /\ second' = b /\ best' = scoreCandidates(a, b, r)
    /\ UNCHANGED <<zone, surge>>

ZoneStats(z) ==
    /\ zone' = z /\ surge' = GetZoneStats(z)
    /\ UNCHANGED <<radius, first, second, best>>

Next == /\ first = Nobody /\ zone = NoZone
        /\ \/ \E a, b \in Candidates, r \in Radii : pickNextCandidate(a, b, r)
           \/ \E z \in [drivers : Counts, orders : Counts] : ZoneStats(z)
Spec == Init /\ [][Next]_scoreVars

-----------------------------------------------------------------------------
(* Properties *)

(* a is at least as good as b in all that counts. *)
Dominates(a, b) ==
    /\ a.distance <= b.distance /\ Rating(a) >= Rating(b) /\ a.trips <= b.trips
    /\ computeAcceptanceRate(a) >= computeAcceptanceRate(b) /\ (b.priority => a.priority)

(* Who is at least as good in everything, priority mode included, is not     *)
(* passed over for another (a nearer driver may pass one in priority mode:   *)
(* the mode is a weight among five, not the first rank openapi.yaml gives    *)
(* it), and no value outside its usual range, a far driver or many trips, takes a     *)
(* score out of 0..1.                                                        *)
BestIsOffered ==
    first # Nobody =>
        /\ Dominates(first, second) => computeScore(best, radius) = computeScore(first, radius)
        /\ 0 <= computeScore(first, radius) /\ computeScore(first, radius) <= 100000

(* Another driver in a zone never raises its surge, another order never      *)
(* lowers it; a zone with no orders has none.                                *)
SurgeFollows ==
    zone # NoZone =>
        /\ GetZoneStats([zone EXCEPT !.drivers = @ + 1]) <= surge
        /\ GetZoneStats([zone EXCEPT !.orders = @ + 1]) >= surge
        /\ zone.orders <= zone.drivers => surge = 100

(* Together: ranks and surges follow the facts, at every boundary of their   *)
(* formulas.                                                                 *)
ScoringSafe == TypeOK /\ BestIsOffered /\ SurgeFollows
=============================================================================
