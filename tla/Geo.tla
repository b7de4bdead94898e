-------------------------------- MODULE Geo ---------------------------------
(***************************************************************************)
(* geo-service: positions and ETAs in maps of the process, each operation  *)
(* under their mutex.  They are written by HTTP requests and by consumers  *)
(* of four topics, which go on from their commits after a restart that     *)
(* emptied the maps.                                                       *)
(***************************************************************************)
EXTENDS Naturals, Sequences

CONSTANTS Drivers,
          Services,     \* service types
          MaxRequests,  \* bound on reports, requests and order events
          Faults        \* TRUE: the process dies

VARIABLES drivers,      \* drivers[d]: the position of GetDriverLocation, 0: none
          geoSets,      \* geoSets[s][d]: the one FindNearbyDrivers shows, 0: none
          etas,         \* drivers with an ETA of the order
          reports,      \* topic driver.location.updated
          handled, committed,
          assigned, ended, \* drivers named by an event order.driver_assigned, one of its end
          posted,       \* history: drivers that also sent positions by request
          over,         \* history: drivers for whom the end of the order was handled
          revived,      \* history: drivers whose ETA was written after that
          restarted,    \* history: the maps were emptied
          geoArrived
geoVars == <<drivers, geoSets, etas, reports, handled, committed, assigned, ended, posted, over,
             revived, restarted, geoArrived>>

Fixes == 0..MaxRequests

TypeOK ==
    /\ drivers \in [Drivers -> Fixes] /\ geoSets \in [Services -> [Drivers -> Fixes]]
    /\ Len(reports) <= MaxRequests /\ committed <= handled /\ handled <= Len(reports)
    /\ \A S \in {etas, assigned, ended, posted, over, revived} : S \subseteq Drivers
    /\ restarted \in BOOLEAN

Nowhere == [d \in Drivers |-> 0]
NoSets == [s \in Services |-> Nowhere]

Init == /\ drivers = Nowhere /\ geoSets = NoSets /\ etas = {}
        /\ reports = <<>> /\ handled = 0 /\ committed = 0
        /\ assigned = {} /\ ended = {} /\ posted = {} /\ over = {} /\ revived = {}
        /\ restarted = FALSE /\ geoArrived = 0

Arrives == geoArrived < MaxRequests /\ geoArrived' = geoArrived + 1
Cache == <<drivers, geoSets>>
Topic == <<reports, handled, committed>>
Orders == <<etas, assigned, ended, over, revived, restarted>>

-----------------------------------------------------------------------------
(* Positions. *)

(* External: a driver's application reports a position, or that he left. *)
Report(d, s, status) ==
    /\ Arrives
    /\ reports' = Append(reports, [id |-> geoArrived', driver |-> d, service |-> s, status |-> status])
    /\ UNCHANGED <<Cache, handled, committed, Orders, posted>>

Place(d, s, i) == /\ drivers' = [drivers EXCEPT ![d] = i]
                  /\ geoSets' = [geoSets EXCEPT ![s][d] = i]

(* Mutant: the driver leaves the set only. *)
RemoveFromSet(d, s) == geoSets' = [geoSets EXCEPT ![s][d] = 0] /\ UNCHANGED drivers
(* The set of the service type that is named, no other. *)
RemoveDriver(d, s) == /\ drivers' = [drivers EXCEPT ![d] = 0]
                      /\ geoSets' = [geoSets EXCEPT ![s][d] = 0]

UpdateDriverLocation(d, s) ==
    /\ Arrives /\ Place(d, s, geoArrived') /\ posted' = posted \cup {d}
    /\ UNCHANGED <<Topic, Orders>>

HandleDriverLocationUpdated ==
    /\ handled < Len(reports) /\ handled' = handled + 1
    /\ LET e == reports[handled'] IN
       IF e.status = "offline" THEN RemoveDriver(e.driver, e.service)
       ELSE Place(e.driver, e.service, e.id)
    /\ UNCHANGED <<reports, committed, Orders, posted, geoArrived>>

Commit == /\ committed < handled /\ committed' = handled
          /\ UNCHANGED <<Cache, reports, handled, Orders, posted, geoArrived>>

-----------------------------------------------------------------------------
(* ETAs of an order.  Its events are on three topics, consumed apart, and    *)
(* handled again when the process died before their commit.                  *)

(* External: the order gets a driver, and ends with him. *)
Assign(d) == /\ Arrives /\ d \notin assigned /\ assigned' = assigned \cup {d}
             /\ UNCHANGED <<Cache, Topic, etas, ended, posted, over, revived, restarted>>
EndOrder(d) == /\ Arrives /\ d \in assigned \ ended /\ ended' = ended \cup {d}
               /\ UNCHANGED <<Cache, Topic, etas, assigned, posted, over, revived, restarted>>

SetETA(d) == /\ etas' = etas \cup {d}
             /\ revived' = IF d \in over THEN revived \cup {d} ELSE revived
             /\ UNCHANGED <<Cache, Topic, assigned, ended, posted, over, restarted>>

HandleOrderDriverAssigned(d) == d \in assigned /\ SetETA(d) /\ UNCHANGED geoArrived

UpdateDriverETA(d) == Arrives /\ SetETA(d)

(* order.completed and order.cancelled alike. *)
HandleOrderCompleted(d) ==
    /\ d \in ended /\ etas' = etas \ {d} /\ over' = over \cup {d} /\ revived' = revived \ {d}
    /\ UNCHANGED <<Cache, Topic, assigned, ended, posted, restarted, geoArrived>>

-----------------------------------------------------------------------------
Restart == /\ Faults /\ <<drivers, geoSets, etas>> # <<Nowhere, NoSets, {}>>
           /\ drivers' = Nowhere /\ geoSets' = NoSets /\ etas' = {}
           /\ handled' = committed /\ restarted' = TRUE
           /\ UNCHANGED <<reports, committed, assigned, ended, posted, over, revived, geoArrived>>

Next == \/ HandleDriverLocationUpdated \/ Commit \/ Restart
        \/ \E d \in Drivers : \/ \E s \in Services : \/ UpdateDriverLocation(d, s)
                                                     \/ \E status \in {"online", "offline"} : Report(d, s, status)
                              \/ Assign(d) \/ EndOrder(d) \/ HandleOrderDriverAssigned(d)
                              \/ UpdateDriverETA(d) \/ HandleOrderCompleted(d)
Spec == Init /\ [][Next]_geoVars

-----------------------------------------------------------------------------
(* Properties *)

(* The last of a driver's reports that were handled, for service types S. *)
LastReport(d, S) ==
    LET is == {i \in 1..handled : reports[i].driver = d /\ reports[i].service \in S} IN
    IF is = {} THEN [id |-> 0, status |-> "offline"]
    ELSE reports[CHOOSE i \in is : \A j \in is : j <= i]
Shown(report) == IF report.status = "offline" THEN 0 ELSE report.id

(* A driver who only reports is shown where his last report put him, not at  *)
(* all after one that he left, and nearby by the last one of that service    *)
(* type; a restart with its replays can only make him unknown.               *)
LastReportShown ==
    \A d \in Drivers \ posted :
        LET Right(fix, S) == fix = Shown(LastReport(d, S)) \/ (restarted /\ fix = 0) IN
        Right(drivers[d], Services) /\ \A s \in Services : Right(geoSets[s][d], {s})

(* A position that is known is one that a search of its service type shows;  *)
(* a driver whom only a search shows has used several service types.         *)
FoundWhereKnown ==
    \A d \in Drivers :
        IF drivers[d] # 0 THEN \E s \in Services : geoSets[s][d] = drivers[d]
        ELSE \A s \in Services :
                geoSets[s][d] # 0 => \E i \in 1..handled : reports[i].driver = d /\ reports[i].service # s

(* An order whose end was handled has an ETA again only if the assignment or *)
(* an update was late.                                                       *)
EtaEnds == etas \cap over \subseteq revived

(* Together: the two maps agree with each other and with the reports.        *)
GeoSafe == TypeOK /\ LastReportShown /\ FoundWhereKnown /\ EtaEnds
=============================================================================
