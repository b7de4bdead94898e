------------------------------- MODULE MCLive -------------------------------
(***************************************************************************)
(* Small instances of the order services, of the dispatch and of the event *)
(* consumers, with the fairness each assumes.  They share no state: focus  *)
(* names the one that moves in a behaviour, the others stay in an initial  *)
(* state, so the behaviours of the focused one are those of its own        *)
(* specification.  Statements and calls do not fail here: a write that     *)
(* fails for ever would excuse every lack of progress.                     *)
(***************************************************************************)
EXTENDS Naturals, FiniteSets, Sequences, TLC

CONSTANTS r1, r2, o1, u1, d1, d2, c1, None
Reqs == {r1, r2}
Orders == {o1}
Users == {u1}
Drivers == {d1, d2}

VARIABLES focus,
          refs, gopay, debited, status, owner, driver, otp, cancelledBy, fare, log, req,
          outbox, delivered, took, crossed,
          hash, geo, lock, rejected, session, lapsed, task, matchReq, held, rounds, dropped,
          parcels, byWallet, paid, stage, sender, courier, withdrawnBy, proof, price, parcelReq, steps,
          published, up, position, phase, message, marked, committed, handled, first, crashes

ride     == <<refs, gopay, debited, status, owner, driver, otp, cancelledBy, fare, log, req,
              outbox, delivered, took, crossed>>
matching == <<hash, geo, lock, rejected, session, lapsed, task, matchReq, held, rounds, dropped>>
delivery == <<parcels, byWallet, paid, stage, sender, courier, withdrawnBy, proof, price,
              parcelReq, steps>>
kafka    == <<published, up, position, phase, message, marked, committed, handled, first, crashes>>

Ride  == INSTANCE RideOrder WITH Drivers <- {d1}, Codes <- {c1},
                                 InternalTargets <- {"cancelled"}, Faults <- {}
Match == INSTANCE Matching WITH req <- matchReq, MaxRounds <- 2, Env <- {"cancel"}
Calm  == INSTANCE DeliveryOrder
           WITH InternalTargets <- {"cancelled"}, Faults <- FALSE,
                refs <- parcels, gopay <- byWallet, debited <- paid, status <- stage,
                owner <- sender, driver <- courier, cancelledBy <- withdrawnBy, fare <- price,
                req <- parcelReq, took <- steps
Kafka == INSTANCE KafkaConsumer WITH MaxMessages <- 4, MaxCrashes <- 2, Malformed <- {2}

Init == /\ focus \in {"ride", "matching", "delivery", "kafka"}
        /\ Ride!Init /\ Match!Init /\ Calm!Init /\ Kafka!Init

Alone(f) == CASE f = "ride"     -> UNCHANGED <<focus, matching, delivery, kafka>>
              [] f = "matching" -> UNCHANGED <<focus, ride, delivery, kafka>>
              [] f = "delivery" -> UNCHANGED <<focus, ride, matching, kafka>>
              [] f = "kafka"    -> UNCHANGED <<focus, ride, matching, delivery>>

Next == \/ focus = "ride" /\ Ride!Next /\ Alone("ride")
        \/ focus = "matching" /\ Match!Next /\ Alone("matching")
        \/ focus = "delivery" /\ Calm!Next /\ Alone("delivery")
        \/ focus = "kafka" /\ Kafka!Next /\ Alone("kafka")

vars == <<focus, ride, matching, delivery, kafka>>

(* The fairness of all services: as one of them moves at a time, a fair slot *)
(* is a fair slot of that one.                                               *)
Slot(r) == \/ focus = "ride" /\ Ride!Handle(r) /\ Alone("ride")
           \/ focus = "matching" /\ Match!Handle(r) /\ Alone("matching")
           \/ focus = "delivery" /\ Calm!Handle(r) /\ Alone("delivery")
Goroutine == \/ focus = "ride" /\ (\E c \in outbox : Ride!Deliver(c)) /\ Alone("ride")
             \/ focus = "matching" /\ (\E o \in Orders : Match!Dispatch(o)) /\ Alone("matching")
             \/ /\ focus = "kafka" /\ Alone("kafka")
                /\ Kafka!FetchMessage \/ Kafka!CallHandler \/ Kafka!CommitMessages
Restart == focus = "kafka" /\ Kafka!Start /\ Alone("kafka")
Ticker  == focus = "kafka" /\ Kafka!Flush /\ Alone("kafka")
FairSpec == /\ Init /\ [][Next]_vars
            /\ (\A r \in Reqs : WF_vars(Slot(r))) /\ WF_vars(Goroutine)
            /\ WF_vars(Restart) /\ WF_vars(Ticker)

-----------------------------------------------------------------------------
(* The properties the modules state and explain. *)
CompletedSettles == Ride!CompletedSettles
OrderIsDispatched == Ride!OrderIsDispatched
SearchEnds == Match!SearchEnds
DeliverySettles == Calm!DeliverySettles
CatchesUp == Kafka!CatchesUp
=============================================================================
