------------------------------ MODULE Tracking ------------------------------
(***************************************************************************)
(* tracking-service, for one order: its position and the points of its     *)
(* route in Redis, and the route that StopTracking archives in MongoDB     *)
(* before it clears both keys.  It is the service with the Redis cache it  *)
(* is written for: main.go:38 still passes nil for the cache, so wired as  *)
(* it is the process panics on the first start, push or stop.              *)
(***************************************************************************)
EXTENDS Integers, Sequences, FiniteSetsExt, SequencesExt

CONSTANTS Reqs,
          MaxPoints,    \* bound on the points that are sent
          MaxStops,     \* bound on the calls of StopTracking
          Faults        \* TRUE: commands fail, keys expire, the process dies

VARIABLES position,     \* the number of the point stored as position, 0: no key
          points,       \* the list of points, in the order of their RPUSH
          route,        \* the archived route, empty before there is one
          sent, stops,  \* points and stops that arrived
          archived,     \* history: points that were in an archived route
          tardy,         \* history: points pushed after a stop had read the list
          gaps,         \* history: an archive, a point or a key was lost
          trackJob
trackVars == <<position, points, route, sent, stops, archived, tardy, gaps, trackJob>>

Ids == 1..MaxPoints
Idle == [op |-> "none"]

TypeOK ==
    /\ position \in 0..MaxPoints /\ {points, route} \subseteq Seq(Ids)
    /\ sent \in 0..MaxPoints /\ stops \in 0..MaxStops
    /\ archived \subseteq Ids /\ tardy \subseteq Ids /\ gaps \in BOOLEAN
    /\ \A r \in Reqs : trackJob[r].op \in {"none", "set", "append", "save", "delete", "clear"}

Init == /\ position = 0 /\ points = <<>> /\ route = <<>> /\ sent = 0 /\ stops = 0
        /\ archived = {} /\ tardy = {} /\ gaps = FALSE /\ trackJob = [r \in Reqs |-> Idle]

Goes(r, job) == trackJob' = [trackJob EXCEPT ![r] = job]
Counts == <<sent, stops>>

-----------------------------------------------------------------------------
(* StartTracking with the pickup as first point, PushLocationUpdate with any *)
(* other: the position that is read first decides nothing.                   *)
PushLocationUpdate(r) ==
    /\ trackJob[r] = Idle /\ sent < MaxPoints /\ sent' = sent + 1
    /\ Goes(r, [op |-> "set", id |-> sent'])
    /\ UNCHANGED <<position, points, route, stops, archived, tardy, gaps>>

SetOrderPosition(r) ==
    /\ trackJob[r].op = "set" /\ Goes(r, [trackJob[r] EXCEPT !.op = "append"])
    /\ position' = trackJob[r].id
    /\ UNCHANGED <<points, route, Counts, archived, tardy, gaps>>

AppendRoutePoint(r) ==
    LET i == trackJob[r].id IN
    /\ trackJob[r].op = "append" /\ Goes(r, Idle)
    /\ points' = Append(points, i)
    /\ tardy' = IF stops > 0 THEN tardy \cup {i} ELSE tardy
    /\ UNCHANGED <<position, route, Counts, archived, gaps>>

-----------------------------------------------------------------------------
(* Mutant: the keys go first. *)
ClearFirst(op) == CASE op = "stop" -> "delete" [] op = "delete" -> "clear" [] op = "clear" -> "save"
                    [] OTHER -> "none"
(* The route is archived before the two keys go. *)
Following(op) == CASE op = "stop" -> "save" [] op = "save" -> "delete" [] op = "delete" -> "clear"
                   [] OTHER -> "none"
Follows(r) == LET next == Following(trackJob[r].op) IN
              Goes(r, IF next = "none" THEN Idle ELSE [trackJob[r] EXCEPT !.op = next])

(* GetActiveRoutePoints. *)
StopTracking(r) ==
    /\ trackJob[r] = Idle /\ stops < MaxStops /\ stops' = stops + 1
    /\ Goes(r, [op |-> Following("stop"), copy |-> points])
    /\ UNCHANGED <<position, points, route, sent, archived, tardy, gaps>>

(* The read fails: the keys are cleared all the same. *)
StopBlindly(r) ==
    /\ Faults /\ trackJob[r] = Idle /\ stops < MaxStops /\ stops' = stops + 1
    /\ Goes(r, [op |-> Following("stop"), copy |-> <<>>]) /\ gaps' = TRUE
    /\ UNCHANGED <<position, points, route, sent, archived, tardy>>

(* Mutant: the archive is replaced by an empty copy too. *)
AnyCopy(copy) == copy
(* An empty copy leaves the archive alone, any other replaces it. *)
Archive(copy) == IF copy = <<>> THEN route ELSE copy

SaveTripRoute(r) ==
    /\ trackJob[r].op = "save" /\ Follows(r)
    /\ route' = Archive(trackJob[r].copy)
    /\ archived' = archived \cup ToSet(route')
    /\ UNCHANGED <<position, points, Counts, tardy, gaps>>

DeleteOrderPosition(r) ==
    /\ trackJob[r].op = "delete" /\ Follows(r) /\ position' = 0
    /\ UNCHANGED <<points, route, Counts, archived, tardy, gaps>>

(* The list goes with what was pushed after it was read. *)
ClearActiveRoutePoints(r) ==
    /\ trackJob[r].op = "clear" /\ Follows(r) /\ points' = <<>>
    /\ UNCHANGED <<position, route, Counts, archived, tardy, gaps>>

-----------------------------------------------------------------------------
(* Faults *)

(* Only a failure to set the position ends a request: the others are logged. *)
CommandFails(r) ==
    /\ Faults /\ trackJob[r] # Idle
    /\ gaps' = (gaps \/ trackJob[r].op \in {"set", "append", "save"})
    /\ IF trackJob[r].op \in {"set", "append"} THEN Goes(r, Idle) ELSE Follows(r)
    /\ UNCHANGED <<position, points, route, Counts, archived, tardy>>

Die(r) == /\ Faults /\ trackJob[r] # Idle /\ Goes(r, Idle)
          /\ gaps' = (gaps \/ trackJob[r].op \in {"set", "append"})
          /\ UNCHANGED <<position, points, route, Counts, archived, tardy>>

(* The position lives two hours, the points twelve. *)
PositionExpires == /\ Faults /\ position # 0 /\ position' = 0
                   /\ UNCHANGED <<points, route, Counts, archived, tardy, gaps, trackJob>>
PointsExpire == /\ Faults /\ position = 0 /\ points # <<>> /\ points' = <<>> /\ gaps' = TRUE
                /\ UNCHANGED <<position, route, Counts, archived, tardy, trackJob>>

Next == \/ PositionExpires \/ PointsExpire
        \/ \E r \in Reqs : \/ PushLocationUpdate(r) \/ SetOrderPosition(r) \/ AppendRoutePoint(r)
                           \/ StopTracking(r) \/ StopBlindly(r) \/ SaveTripRoute(r)
                           \/ DeleteOrderPosition(r) \/ ClearActiveRoutePoints(r) \/ CommandFails(r) \/ Die(r)
Spec == Init /\ [][Next]_trackVars

-----------------------------------------------------------------------------
(* Properties *)

(* Every point that reached the list before the first stop is in the list,   *)
(* in an archived route or in a stop's hands, wherever a stop dies, unless a  *)
(* command failed or a point was never pushed.                               *)
PointsKept ==
    gaps \/ \A i \in 1..sent :
        \/ i \in archived \cup tardy \cup ToSet(points)
        \/ \E r \in Reqs : trackJob[r] # Idle /\
              IF trackJob[r].op \in {"set", "append"} THEN trackJob[r].id = i
              ELSE i \in ToSet(trackJob[r].copy)

(* A route that is there is replaced only after points came late, never by   *)
(* fewer of those that came in time.                                         *)
RouteKept ==
    [][route # <<>> /\ route' # route => tardy # {}]_trackVars

(* Together: no point that came in time is lost before or after the archive. *)
TrackingSafe == [](TypeOK /\ PointsKept) /\ RouteKept
=============================================================================
