------------------------------- MODULE Gateway -------------------------------
(***************************************************************************)
(* gateway: a request is authenticated if its route asks for it, counted   *)
(* in Redis and passed on or refused.  Here: the requests of one counter,  *)
(* which is kept for a route and a user, or on a public route for the      *)
(* X-User-ID header or the address the client comes with.  Counting is one *)
(* INCR and one EXPIRE per request, sent in one pipeline, which is not a   *)
(* transaction; every request, refused or not, starts the minute anew.     *)
(***************************************************************************)
EXTENDS Integers, FiniteSets

CONSTANTS Reqs,
          Limit, Window,  \* requests per window, and its length in ticks
          MaxTime, MaxRequests, \* bounds on the clock and on the requests that arrive
          Faults          \* TRUE: a pipeline fails, before or after the INCR

VARIABLES clock,
          count, ttl,     \* the counter of one client and route; ticks it has left, -1: no expiry
          burst, pause,   \* history: requests allowed to be counted since the client last paused
                          \* for a window, and ticks it has now had nothing on the way
          stuck,          \* history: an EXPIRE failed on a key that had none, which still is there
          passes,         \* history: the counted requests passed on, by count and tick
          slipped,        \* history: the key expired between an INCR and its EXPIRE, or that failed
          gateJob, gateArrived
gateVars == <<clock, count, ttl, burst, pause, stuck, passes, slipped, gateJob, gateArrived>>

Idle == [op |-> "none"]
Times == 0..MaxTime

TypeOK ==
    /\ clock \in Times /\ count \in 0..MaxRequests /\ ttl \in -1..Window
    /\ burst \in 0..MaxRequests /\ pause \in 0..Window /\ stuck \in BOOLEAN
    /\ passes \subseteq [count : 1..Limit, at : Times] /\ slipped \in BOOLEAN
    /\ \A r \in Reqs : gateJob[r].op \in {"none", "limit", "expire"}

Init == /\ clock = 0 /\ count = 0 /\ ttl = -1
        /\ burst = 0 /\ pause = 0 /\ stuck = FALSE
        /\ passes = {} /\ slipped = FALSE
        /\ gateJob = [r \in Reqs |-> Idle] /\ gateArrived = 0

Goes(r, job) == gateJob' = [gateJob EXCEPT ![r] = job]
Counter == <<count, ttl>>
Client == <<burst, pause>>

(* Mutant: the limit comes before the token. *)
Either(public, valid) == TRUE
(* Auth wraps the limit, and lets every request of a public route through. *)
Counted(public, valid) == public \/ valid

(* The first route that matches.  Without a token that it asks for the       *)
(* answer is 401 and nothing else happens.                                   *)
Authenticate(r, public, valid) ==
    /\ gateJob[r] = Idle /\ gateArrived < MaxRequests /\ gateArrived' = gateArrived + 1
    /\ Goes(r, IF Counted(public, valid) THEN [op |-> "limit"] ELSE Idle)
    /\ IF public \/ valid THEN burst' = burst + 1 /\ pause' = 0 ELSE UNCHANGED Client
    /\ UNCHANGED <<clock, Counter, stuck, passes, slipped>>

Incr(r) ==
    /\ gateJob[r].op = "limit"
    /\ count' = count + 1
    /\ Goes(r, [op |-> "expire", count |-> count + 1, at |-> clock, burst |-> burst, stuck |-> stuck])
    /\ UNCHANGED <<clock, ttl, Client, stuck, passes, slipped, gateArrived>>

(* Mutant: the key ends a tick before its window. *)
TooEarly(n) == Window - 1
Renewed(n) == Window

(* EXPIRE, and the verdict on the count the INCR returned. *)
Refused(q) == q.count > Limit
Expire(r) ==
    LET q == gateJob[r] IN
    /\ q.op = "expire" /\ Goes(r, Idle)
    /\ ttl' = IF count = 0 THEN ttl ELSE Renewed(q.count)
    /\ passes' = IF Refused(q) THEN passes ELSE passes \cup {[count |-> q.count, at |-> q.at]}
    /\ UNCHANGED <<clock, count, Client, stuck, slipped, gateArrived>>

(* Redis fails: the request passes uncounted, though an INCR may stay, on a  *)
(* key that then has the expiry it had, or none.                             *)
PipelineFails(r) ==
    /\ Faults /\ gateJob[r].op \in {"limit", "expire"} /\ Goes(r, Idle)
    /\ slipped' = (slipped \/ gateJob[r].op = "expire")
    /\ stuck' = (stuck \/ (gateJob[r].op = "expire" /\ count > 0 /\ ttl = -1))
    /\ UNCHANGED <<clock, Counter, Client, passes, gateArrived>>

Quiet == \A r \in Reqs : gateJob[r] = Idle

Tick ==
    /\ clock < MaxTime /\ clock' = clock + 1
    /\ IF ttl = 1
       THEN /\ count' = 0 /\ ttl' = -1 /\ stuck' = FALSE
            /\ slipped' = (slipped \/ \E r \in Reqs : gateJob[r].op = "expire")
       ELSE ttl' = (IF ttl > 1 THEN ttl - 1 ELSE ttl) /\ UNCHANGED <<count, stuck, slipped>>
    /\ pause' = IF ~Quiet THEN 0 ELSE IF pause < Window THEN pause + 1 ELSE pause
    /\ burst' = IF pause' = Window THEN 0 ELSE burst
    /\ UNCHANGED <<passes, gateJob, gateArrived>>

Next == \/ Tick
        \/ \E r \in Reqs : \/ \E public, valid \in BOOLEAN : Authenticate(r, public, valid)
                           \/ Incr(r) \/ Expire(r) \/ PipelineFails(r)
Spec == Init /\ [][Next]_gateVars

-----------------------------------------------------------------------------
(* Properties *)

(* No stretch of one window, wherever it starts, passes on more than Limit   *)
(* counted requests, but around a key that expired between INCR and EXPIRE.  *)
(* (A count comes once per key, and a key ends with its tick.)               *)
AnyWindow ==
    ~slipped => \A t \in Times :
        Cardinality({p \in passes : t <= p.at /\ p.at < t + Window}) <= Limit

(* Who is refused has sent more than Limit requests that may be counted      *)
(* without pausing for a window, with or without a token, as the route asks; *)
(* else the key outlived a pause because an EXPIRE had failed on it.         *)
(* (Not: more than Limit within one window, which is how ratelimit.go        *)
(* announces it: every request, also a refused one, renews the whole count.) *)
RefusedBusy == \A r \in Reqs :
    LET q == gateJob[r] IN q.op = "expire" /\ Refused(q) => q.burst > Limit \/ q.stuck

(* Both sides of the limit: no window is overrun, nobody is refused who      *)
(* pauses.                                                                   *)
GatewaySafe == TypeOK /\ AnyWindow /\ RefusedBusy
=============================================================================
