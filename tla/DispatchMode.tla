---------------------------- MODULE DispatchMode ----------------------------
(***************************************************************************)
(* matching-service, the priority mode of one driver: he sets a target for *)
(* the day while he is online, each trip that ends adds to the earnings of *)
(* its day, and the trip that reaches the target turns the mode off.  The  *)
(* status, the mode and the earnings are three keys of Redis, and every    *)
(* command is a step of its own.                                           *)
(***************************************************************************)
EXTENDS Naturals

CONSTANTS Reqs,
          Targets,      \* daily targets, in trips of one fare
          MaxDay,       \* bound on the days
          MaxRequests,  \* bound on the requests that arrive
          Faults        \* TRUE: commands fail, the process dies

VARIABLES online,       \* the status key is there
          target,       \* the mode key: the target of priority mode, 0: normal or no key
          earnings,     \* earnings[d]: the earnings key of day d
          day,
          wanted,         \* history: the target last set, 0 after he went offline
          overtaken,    \* history: it was set while a trip's end held an older target
          spared,       \* history: it was set too late, or the end of a trip was cut short
          leftover,     \* history: the mode outlived a status that expired or was not there
          modeJob, modeArrived
modeVars == <<online, target, earnings, day, wanted, overtaken, spared, leftover, modeJob, modeArrived>>

Dates == 1..MaxDay
Idle == [op |-> "none", target |-> 0, day |-> 1, seen |-> FALSE]
Ops == {"none", "mode", "offline", "normal", "refresh", "locate", "free", "earn", "read", "compare", "delete"}

TypeOK ==
    /\ {online, overtaken, spared, leftover} \subseteq BOOLEAN
    /\ {target, wanted} \subseteq Targets \cup {0} /\ earnings \in [Dates -> Nat] /\ day \in Dates
    /\ modeJob \in [Reqs -> [op : Ops, target : Targets \cup {0}, day : Dates, seen : BOOLEAN]]

Init == /\ online = FALSE /\ target = 0 /\ earnings = [d \in Dates |-> 0] /\ day = 1 /\ wanted = 0
        /\ overtaken = FALSE /\ spared = FALSE /\ leftover = FALSE
        /\ modeJob = [r \in Reqs |-> Idle] /\ modeArrived = 0

Hist == <<wanted, overtaken, spared, leftover>>
RedisKeys == <<online, target, earnings>>

Arrives == modeArrived < MaxRequests /\ modeArrived' = modeArrived + 1
Begin(r, job) == /\ modeJob[r] = Idle /\ Arrives /\ modeJob' = [modeJob EXCEPT ![r] = job]
                 /\ UNCHANGED <<RedisKeys, day, Hist>>
Goes(r, op) == modeJob' = [modeJob EXCEPT ![r] = IF op = "none" THEN Idle ELSE [@ EXCEPT !.op = op]]

Reached(t, d) == t # 0 /\ earnings[d] >= t

-----------------------------------------------------------------------------
(* The driver's requests. *)

GoOnline == /\ Arrives /\ online' = TRUE
            /\ UNCHANGED <<target, earnings, day, Hist, modeJob>>

(* The status goes, then the mode. *)
GoOffline(r) == Begin(r, [Idle EXCEPT !.op = "offline"])
DeleteDriverStatus(r) ==
    /\ modeJob[r].op = "offline" /\ Goes(r, "normal") /\ online' = FALSE
    /\ UNCHANGED <<target, earnings, day, Hist, modeArrived>>
ForgetMode(r) ==
    /\ modeJob[r].op = "normal" /\ Goes(r, "none")
    /\ target' = 0 /\ wanted' = 0 /\ spared' = FALSE /\ leftover' = FALSE
    /\ UNCHANGED <<online, earnings, day, overtaken, modeArrived>>

Heartbeat(r) == online /\ Begin(r, [Idle EXCEPT !.op = "refresh"])
(* EXPIRE brings back no key that is gone. *)
RefreshDriverStatusTTL(r) ==
    /\ modeJob[r].op = "refresh" /\ Goes(r, "none")
    /\ UNCHANGED <<RedisKeys, day, Hist, modeArrived>>

UpdateLocation(r) == online /\ Begin(r, [Idle EXCEPT !.op = "locate"])
(* HSET does: the driver is online again, in his old mode. *)
UpdateDriverLocation(r) ==
    /\ modeJob[r].op = "locate" /\ Goes(r, "none") /\ online' = TRUE
    /\ UNCHANGED <<target, earnings, day, Hist, modeArrived>>

(* Normal mode is t = 0. *)
SetMode(r, t) == online /\ Begin(r, [Idle EXCEPT !.op = "mode", !.target = t])
Holding(r) == modeJob[r].op \in {"compare", "delete"}
SetDriverMode(r) ==
    LET t == modeJob[r].target IN
    /\ modeJob[r].op = "mode" /\ Goes(r, "none")
    /\ target' = t /\ wanted' = t
    /\ overtaken' = \E s \in Reqs : Holding(s)
    /\ spared' = Reached(t, day)
    /\ leftover' = (t # 0 /\ ~online)
    /\ UNCHANGED <<online, earnings, day, modeArrived>>

-----------------------------------------------------------------------------
(* FreeDriver at the end of a trip with a fare. *)

FreeDriver(r) == Begin(r, [Idle EXCEPT !.op = "free", !.seen = online])

(* A status that was read is written whole: he is online, though he may have  *)
(* left in between.  The date of the earnings is taken next.                 *)
SetDriverStatus(r) ==
    /\ modeJob[r].op = "free" /\ online' = (online \/ modeJob[r].seen)
    /\ modeJob' = [modeJob EXCEPT ![r].op = "earn", ![r].day = day]
    /\ UNCHANGED <<target, earnings, day, Hist, modeArrived>>

IncrementDriverEarnings(r) ==
    /\ modeJob[r].op = "earn" /\ Goes(r, "read")
    /\ earnings' = [earnings EXCEPT ![modeJob[r].day] = @ + 1]
    /\ UNCHANGED <<online, target, day, Hist, modeArrived>>

GetDriverMode(r) ==
    /\ modeJob[r].op = "read"
    /\ IF target = 0 THEN Goes(r, "none")
       ELSE modeJob' = [modeJob EXCEPT ![r].op = "compare", ![r].target = target, ![r].day = day]
    /\ UNCHANGED <<RedisKeys, day, Hist, modeArrived>>

(* Mutant: only a target that is passed counts. *)
Passed(t, d) == t # 0 /\ earnings[d] > t
TurnsOff(t, d) == Reached(t, d)

GetDriverEarnings(r) ==
    /\ modeJob[r].op = "compare"
    /\ Goes(r, IF TurnsOff(modeJob[r].target, modeJob[r].day) THEN "delete" ELSE "none")
    /\ UNCHANGED <<RedisKeys, day, Hist, modeArrived>>

(* Whatever the key holds by now. *)
DeleteDriverMode(r) ==
    /\ modeJob[r].op = "delete" /\ Goes(r, "none")
    /\ target' = 0 /\ spared' = FALSE /\ leftover' = FALSE
    /\ UNCHANGED <<online, earnings, day, wanted, overtaken, modeArrived>>

-----------------------------------------------------------------------------
StatusExpires == /\ online /\ online' = FALSE /\ leftover' = (target # 0)
                 /\ UNCHANGED <<target, earnings, day, wanted, overtaken, spared, modeJob, modeArrived>>
Midnight == /\ day < MaxDay /\ day' = day + 1
            /\ UNCHANGED <<RedisKeys, Hist, modeJob, modeArrived>>

(* A command fails and the handler goes on, or the process dies. *)
Fail(r) ==
    LET op == modeJob[r].op IN
    /\ Faults /\ op # "none"
    /\ \/ Goes(r, "none")
       \/ op = "offline" /\ Goes(r, "normal")
       \/ op = "free" /\ modeJob' = [modeJob EXCEPT ![r].op = "earn", ![r].day = day]
       \/ op = "earn" /\ Goes(r, "read")
    /\ spared' = (spared \/ op \in {"read", "compare", "delete"})
    /\ leftover' = (leftover \/ (op = "normal" /\ target # 0))
    /\ UNCHANGED <<RedisKeys, day, wanted, overtaken, modeArrived>>

Next == \/ GoOnline \/ StatusExpires \/ Midnight
        \/ \E r \in Reqs : \/ GoOffline(r) \/ Heartbeat(r) \/ FreeDriver(r) \/ \E t \in Targets \cup {0} : SetMode(r, t)
                           \/ DeleteDriverStatus(r) \/ ForgetMode(r) \/ RefreshDriverStatusTTL(r)
                           \/ UpdateLocation(r) \/ UpdateDriverLocation(r)
                           \/ SetDriverMode(r) \/ SetDriverStatus(r) \/ IncrementDriverEarnings(r)
                           \/ GetDriverMode(r) \/ GetDriverEarnings(r) \/ DeleteDriverMode(r) \/ Fail(r)
Spec == Init /\ [][Next]_modeVars

-----------------------------------------------------------------------------
(* Properties *)

(* No driver keeps the bonus of priority mode past his target: when today's  *)
(* earnings reach it the mode goes with the trips that are being ended, but  *)
(* for a target that was set after it was reached and for ends cut short.    *)
PriorityEnds ==
    Reached(target, day) /\ ~spared => \E r \in Reqs : modeJob[r].op \in {"read", "compare", "delete"}

(* No driver loses it before: whoever set a target and did not go offline    *)
(* has the mode until a day's earnings reach it, unless the end of a trip    *)
(* had read an older target.                                                 *)
PriorityKept == wanted # 0 /\ target = 0 => overtaken \/ \E d \in Dates : Reached(wanted, d)

(* A driver who left starts his next shift in normal mode, unless his status *)
(* expired or he had set the mode while he was leaving.                      *)
ShiftStartsNormal ==
    ~online /\ target # 0 => leftover \/ \E r \in Reqs : modeJob[r].op = "normal"

(* Together: priority mode lasts from its setting to its target or the end   *)
(* of the shift.                                                             *)
ModeSafe == TypeOK /\ PriorityEnds /\ PriorityKept /\ ShiftStartsNormal
=============================================================================
