-------------------------------- MODULE Fares --------------------------------
(***************************************************************************)
(* What a trip costs: pricing-service by its table of fare rules, and the  *)
(* formulas ride-order and delivery-order have of their own.  A trip is    *)
(* priced twice, before it is ordered and after it is over, by different   *)
(* formulas.  Amounts are in rupiah, distances and weights in tenths of a  *)
(* kilometre and a kilogram, percentages are whole; an absent rate is 0.   *)
(***************************************************************************)
EXTENDS Integers, FiniteSetsExt

CONSTANTS Rows,       \* the fare_rules rows
          Distances, Minutes, Weights, Values, Baskets  \* what trips are tried with

VARIABLES trip,       \* the trip that is priced, or NoTrip
          quote,      \* the estimate: the fare, the rule it used, the minutes it assumed
          bill        \* the final fare and the rule it used
fareVars == <<trip, quote, bill>>

NoTrip == [service |-> "none"]
NoRow == "none"
Vehicles == {"motor", "car"}
Of(pct, x) == (x * pct) \div 100
AtLeast(x, y) == Max({x, y})

-----------------------------------------------------------------------------
(* Rules *)

Rule(service, vehicle, base, perKm, perMin, booking, feePct, min) ==
    [service |-> service, vehicle |-> vehicle, base |-> base, perKm |-> perKm,
     perMin |-> perMin, booking |-> booking, feePct |-> feePct, min |-> min,
     perKg |-> 0, threshold |-> 0, small |-> 0]
defaultRideRule(vehicle) ==
    IF vehicle = "car" THEN Rule("ride", NoRow, 12000, 2500, 500, 2000, 5, 10000)
                       ELSE Rule("ride", NoRow, 7000, 2500, 300, 2000, 5, 10000)
defaultDeliveryRule == [Rule("delivery", NoRow, 8000, 3000, 0, 1000, 3, 10000) EXCEPT !.perKg = 2000]
defaultFoodRule ==
    [Rule("food", NoRow, 5000, 2000, 0, 0, 5, 5000) EXCEPT !.threshold = 20000, !.small = 5000]

(* Who names no vehicle gets the row of any; no row and an error of the      *)
(* query are the same to the callers, who fall back on the defaults.         *)
GetFareRule(service, vehicle) ==
    {r \in Rows : r.service = service /\ vehicle \in {NoRow, r.vehicle}}
Default(service, vehicle) == CASE service = "ride" -> defaultRideRule(vehicle)
                               [] service = "delivery" -> defaultDeliveryRule
                               [] service = "food" -> defaultFoodRule
Used(service, vehicle) == GetFareRule(service, vehicle) \cup {Default(service, vehicle)}

-----------------------------------------------------------------------------
(* Formulas of pricing-service; t is the trip, r the rule *)

Distance(t, r) == (t.distance * r.perKm) \div 10
Surcharge(t, r) == IF t.weight > 50 THEN ((t.weight - 50) * r.perKg) \div 10 ELSE 0
Insurance(t) == AtLeast((t.value * 5) \div 1000, 2000)
SmallOrder(t, r) == IF t.basket < r.threshold THEN r.small ELSE 0
Discount(t, x) == IF t.promo THEN Of(10, x) ELSE 0

EstimateRideFare(t, r) ==
    LET sub   == r.base + Distance(t, r) + (t.distance \div 5) * r.perMin
        total == AtLeast(sub + r.booking + Of(r.feePct, sub), r.min)
    IN total - Discount(t, total)

EstimateDeliveryFare(t, r) ==
    LET insured == IF t.fragile \/ t.value > 0 THEN Insurance(t) ELSE 0
        total   == AtLeast(r.base + Distance(t, r) + Surcharge(t, r) + insured + r.booking, r.min)
    IN total - Discount(t, total)

EstimateFoodFare(t, r) ==
    (IF t.promo THEN 0 ELSE r.base + Distance(t, r)) + Of(r.feePct, t.basket) + SmallOrder(t, r)

Driven(t, r) == r.base + Distance(t, r) + t.minutes * r.perMin
Extras(t, r) == CASE t.service = "delivery" ->
                       Surcharge(t, r) + (IF t.value > 0 THEN Insurance(t) ELSE 0)
                  [] t.service = "food" -> SmallOrder(t, r)
                  [] t.service = "ride" -> 0
Full(t, r) == Driven(t, r) + Extras(t, r) + r.booking + Of(r.feePct, Driven(t, r))
FloorFirst(t, r) == AtLeast(Full(t, r), r.min) - Discount(t, Driven(t, r) + Extras(t, r))
CalculateFinalFare(t, r) ==
    AtLeast(Full(t, r) - Discount(t, Driven(t, r) + Extras(t, r)), r.min)

-----------------------------------------------------------------------------
(* Formulas of ride-order and delivery-order, which read no rules.  Their    *)
(* amounts have two decimals; the trips tried here need none.                *)

rideFinalFare(t) ==
    IF t.vehicle = "car" THEN 10000 + t.distance * 400 + t.minutes * 350 + 1000
                         ELSE 5000 + t.distance * 250 + t.minutes * 200 + 1000
deliveryFinalFare(t) ==
    5000 + t.distance * 300 + (IF t.weight > 10 THEN (t.weight - 10) * 50 ELSE 0)
         + (t.value * 5) \div 1000 + 1000
Uncapped(t, x) == IF t.promo THEN Of(10, x) ELSE 0
PromoCap == 5000
Capped(t, x) == IF t.promo THEN Min({Of(10, x), PromoCap}) ELSE 0

OrderRideFare(t) ==
    LET sub == rideFinalFare([t EXCEPT !.minutes = (t.distance * 4) \div 10]) - 1000
    IN AtLeast(sub + 1000 - Capped(t, sub), 0)
OrderDeliveryFare(t) == AtLeast(deliveryFinalFare(t) - Capped(t, deliveryFinalFare(t)), 0)

-----------------------------------------------------------------------------
(* A ride names its vehicle, a delivery its parcel, a meal its basket.       *)
Rides == {"ride", "order ride"}
Deliveries == {"delivery", "order delivery"}
Trips ==
    {t \in [service : Rides \cup Deliveries \cup {"food"}, vehicle : Vehicles \cup {NoRow},
            distance : Distances, minutes : Minutes, promo : BOOLEAN, weight : Weights \cup {0},
            value : Values \cup {0}, fragile : BOOLEAN, basket : Baskets \cup {0}] :
        /\ t.service \in Rides <=> t.vehicle # NoRow
        /\ t.service \in Deliveries \/ (t.weight = 0 /\ t.value = 0 /\ ~t.fragile)
        /\ t.service = "food" \/ t.basket = 0}

TypeOK == /\ trip \in Trips \cup {NoTrip}
          /\ quote.fare \in Nat \cup {-1} /\ bill.fare \in Nat \cup {-1}

NoFare == [fare |-> -1, rule |-> NoRow]
Init == trip = NoTrip /\ quote = NoFare /\ bill = NoFare

ByRule == {"ride", "delivery", "food"}

(* The estimate endpoints; the vehicle is asked for on rides only.           *)
Estimate(t) ==
    /\ trip = NoTrip /\ trip' = t /\ UNCHANGED bill
    /\ \/ /\ t.service \in ByRule
          /\ \E r \in Used(t.service, t.vehicle) :
               quote' = [rule |-> r, fare |-> CASE t.service = "ride" -> EstimateRideFare(t, r)
                                                [] t.service = "delivery" -> EstimateDeliveryFare(t, r)
                                                [] t.service = "food" -> EstimateFoodFare(t, r)]
       \/ t.service = "order ride" /\ quote' = [rule |-> NoRow, fare |-> OrderRideFare(t)]
       \/ t.service = "order delivery" /\ quote' = [rule |-> NoRow, fare |-> OrderDeliveryFare(t)]

(* The fare after the trip.  The vehicle may be left out, as its field is    *)
(* optional; the row it finds may be another than before.                    *)
Finish ==
    /\ trip # NoTrip /\ bill = NoFare /\ UNCHANGED <<trip, quote>>
    /\ \/ /\ trip.service \in ByRule
          /\ \E v \in {trip.vehicle, NoRow} : \E r \in Used(trip.service, v) :
               bill' = [rule |-> r, fare |-> CalculateFinalFare(trip, r)]
       \/ trip.service = "order ride" /\ bill' = [rule |-> NoRow, fare |-> rideFinalFare(trip)]
       \/ trip.service = "order delivery" /\ bill' = [rule |-> NoRow, fare |-> deliveryFinalFare(trip)]

Next == Finish \/ \E t \in Trips : Estimate(t)
Spec == Init /\ [][Next]_fareVars

-----------------------------------------------------------------------------
(* Properties *)

Priced == bill # NoFare /\ bill.rule = quote.rule
AsDriven == trip.minutes = (IF trip.service = "order ride" THEN (trip.distance * 4) \div 10
                                                           ELSE trip.distance \div 5)

(* A ride that goes as it was estimated, by the same rule, costs what was    *)
(* quoted; with a promo it may cost more, as the final discount spares the   *)
(* fees and the minimum, but no more than a tenth of these.                  *)
RideAsQuoted ==
    Priced /\ trip.service = "ride" /\ AsDriven =>
        /\ ~trip.promo => bill.fare = quote.fare
        /\ quote.fare <= bill.fare
        /\ LET r == bill.rule
               fees == r.booking + Of(r.feePct, Driven(trip, r)) IN
           bill.fare - quote.fare <= Of(10, AtLeast(r.min, fees)) + 1

(* Where the rule charges a delivery for nothing but what openapi.yaml names  *)
(* (distance, weight, insurance, booking), it costs what was quoted, at every *)
(* distance, weight and value.  (A service fee, which the default rule has,   *)
(* or time in the rule, and a fragile parcel of no value, which is insured in *)
(* the quote only, make the code's two formulas differ: of these nothing is   *)
(* claimed.)                                                                  *)
DeliveryAsQuoted ==
    Priced /\ trip.service = "delivery" /\ ~trip.promo /\ (trip.fragile => trip.value > 0)
    /\ bill.rule.feePct = 0 /\ bill.rule.perMin = 0 => bill.fare = quote.fare

(* The order services bill what they quoted; their final formulas forget the *)
(* promo, which no document asks for, at most for what it had taken off.     *)
OrdersAsQuoted ==
    Priced /\ trip.service \in {"order ride", "order delivery"}
    /\ (trip.service = "order ride" => AsDriven) =>
        /\ ~trip.promo => bill.fare = quote.fare
        /\ quote.fare <= bill.fare /\ bill.fare <= quote.fare + PromoCap

(* Driving further or longer is never cheaper, with a promo or without, and  *)
(* no final fare is below the minimum of its rule.                           *)
Further(t) == {[t EXCEPT !.distance = @ + 1], [t EXCEPT !.minutes = @ + 1]}
NoReward ==
    Priced /\ trip.service \in ByRule =>
        /\ bill.rule.min <= bill.fare
        /\ \A t \in Further(trip) : bill.fare <= CalculateFinalFare(t, bill.rule)

(* Together: a fare is the quoted one where the documented formulas apply,   *)
(* not below the minimum, and not lowered by a longer trip.                  *)
FaresSafe == TypeOK /\ RideAsQuoted /\ DeliveryAsQuoted /\ OrdersAsQuoted /\ NoReward
=============================================================================
