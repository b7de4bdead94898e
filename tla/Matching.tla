------------------------------ MODULE Matching ------------------------------
(***************************************************************************)
(* matching-service: drivers come online, an order's dispatch offers it to *)
(* one driver after the other until one accepts, and a lock ties a driver  *)
(* to one order.  All state is in Redis and shared by handlers that each   *)
(* issue single commands: a session or a driver's status is read, changed  *)
(* in memory and written back whole.  A step here is one write, together   *)
(* with the reads that come right after it; only a driver's status and its *)
(* place in the geo index change in one step.  driver:pending_offer is not *)
(* here: it is written for the driver's app, and no handler decides by it. *)
(***************************************************************************)
EXTENDS Naturals, FiniteSets

CONSTANTS Drivers, Orders,
          Reqs,        \* slots for handlers in flight
          None,        \* an absent key or an empty field
          MaxRounds,   \* offers an order gets before its search gives up
          Env          \* what callers and time may do, see below

(* "slow": an answer takes longer than the two seconds the loop waits after
   an offer has expired.  "twice": a driver sends two answers to one offer.
   "offline", "free", "cancel": GoOffline, FreeDriver and CancelDispatch are
   called.  "expiry": Redis drops driver:status and old sessions.  "error":
   the last write of an accepted offer fails.  "crash": the process dies. *)
Effects == {"slow", "twice", "offline", "free", "cancel", "expiry", "error", "crash"}

ASSUME MatchingAssumption == /\ None \notin Drivers \cup Orders
                             /\ MaxRounds \in Nat \ {0}
                             /\ Env \subseteq Effects

VARIABLES hash,      \* driver:status:{d}: status and whether it has a vehicle type
          geo,       \* drivers in the geo index
          lock,      \* driver:active_order:{d}
          rejected,  \* matching:reject:{o}:{d}
          session,   \* matching:session:{o}
          lapsed,    \* whether the deadline of the session's offer has passed
          task,      \* task[o]: StartDispatch, then its broadcastLoop
          req,       \* req[r]: the handler running in slot r
          held,      \* history: <<d, o>> claimed by SETNX and not released since
          rounds,    \* history: offers made for an order
          dropped    \* history: orders whose CancelDispatch has completed
presence == <<hash, geo>>
offers   == <<rejected, session, lapsed>>
history  == <<held, rounds, dropped>>
vars     == <<presence, lock, offers, task, req, history>>

NoHash == [status |-> "none", vehicle |-> FALSE]
Hashes == [status : {"none", "blank", "online", "busy"}, vehicle : BOOLEAN]
NoSession == [status |-> "none", cand |-> None, matched |-> None, tried |-> 0]
Sessions == [status : {"none", "searching", "driver_found", "no_drivers", "cancelled"},
             cand : Drivers \cup {None}, matched : Drivers \cup {None}, tried : Nat]
TaskPcs == {"new", "create", "first", "sleep", "pick", "publish", "giveup", "ended"}
Answers == {"claim", "busy", "match", "reject", "unset"}
Cancelling == {"cancel", "cleanup", "delete"}
ReqPcs  == {"idle", "online", "offline", "unclaim", "move", "free"} \cup Answers \cup Cancelling
Requests == [pc : ReqPcs, driver : Drivers \cup {None}, order : Orders \cup {None},
             sess : Sessions, hash : Hashes]
Slot(pc, d, o, s, h) == [pc |-> pc, driver |-> d, order |-> o, sess |-> s, hash |-> h]
Addressed(q) ==   \* a handler knows whom and what it is about
    /\ q.pc \notin {"idle"} \cup Cancelling => q.driver \in Drivers
    /\ q.pc \in Answers \cup Cancelling => q.order \in Orders
Idle == Slot("idle", None, None, NoSession, NoHash)

TypeOK ==
    /\ hash \in [Drivers -> Hashes] /\ geo \subseteq Drivers
    /\ lock \in [Drivers -> Orders \cup {None}]
    /\ rejected \subseteq Orders \X Drivers
    /\ session \in [Orders -> Sessions] /\ lapsed \in [Orders -> BOOLEAN]
    /\ task \in [Orders -> [pc : TaskPcs, sess : Sessions]]
    /\ req \in [Reqs -> Requests] /\ \A r \in Reqs : Addressed(req[r])
    /\ held \subseteq Drivers \X Orders /\ rounds \in [Orders -> Nat] /\ dropped \subseteq Orders

Init ==
    /\ hash = [d \in Drivers |-> NoHash] /\ geo = {}
    /\ lock = [d \in Drivers |-> None]
    /\ rejected = {} /\ session = [o \in Orders |-> NoSession]
    /\ lapsed = [o \in Orders |-> FALSE]
    /\ task = [o \in Orders |-> [pc |-> "new", sess |-> NoSession]]
    /\ req = [r \in Reqs |-> Idle]
    /\ held = {} /\ rounds = [o \in Orders |-> 0] /\ dropped = {}

Start(r, q) == req[r] = Idle /\ req' = [req EXCEPT ![r] = q]
Goto(r, pc) == req' = [req EXCEPT ![r].pc = pc]
End(r)      == req' = [req EXCEPT ![r] = Idle]
Release(d)  == held' = {h \in held : h[1] # d}

-----------------------------------------------------------------------------
(* A driver's presence. *)

GoOnline(r, d) == /\ lock[d] = None
                  /\ Start(r, Slot("online", d, None, NoSession, NoHash))
                  /\ UNCHANGED <<presence, lock, offers, task, history>>

SetOnline(r) ==
    LET d == req[r].driver IN
    /\ req[r].pc = "online"
    /\ hash' = [hash EXCEPT ![d] = [status |-> "online", vehicle |-> TRUE]]
    /\ geo' = geo \cup {d}
    /\ End(r)
    /\ UNCHANGED <<lock, offers, task, history>>

GoOffline(r, d) == /\ "offline" \in Env
                   /\ Start(r, Slot("offline", d, None, NoSession, hash[d]))
                   /\ UNCHANGED <<presence, lock, offers, task, history>>

(* The geo index is keyed by the vehicle type the status had. *)
DeleteStatus(r) ==
    LET d == req[r].driver IN
    /\ req[r].pc = "offline"
    /\ geo' = IF req[r].hash.vehicle THEN geo \ {d} ELSE geo
    /\ hash' = [hash EXCEPT ![d] = NoHash]
    /\ Goto(r, "unclaim")
    /\ UNCHANGED <<lock, offers, task, history>>

ClearActiveOrder(r) ==
    /\ req[r].pc = "unclaim"
    /\ lock' = [lock EXCEPT ![req[r].driver] = None]
    /\ Release(req[r].driver)
    /\ End(r)
    /\ UNCHANGED <<presence, offers, task, rounds, dropped>>

UpdateLocation(r, d) == /\ hash[d].status # "none"
                        /\ Start(r, Slot("move", d, None, NoSession, hash[d]))
                        /\ UNCHANGED <<presence, lock, offers, task, history>>

(* HSET of the coordinates creates the hash again when it is gone. *)
UpdateDriverLocation(r) ==
    LET d == req[r].driver IN
    /\ req[r].pc = "move"
    /\ hash' = IF hash[d].status = "none"
                 THEN [hash EXCEPT ![d] = [status |-> "blank", vehicle |-> FALSE]] ELSE hash
    /\ geo' = IF req[r].hash.vehicle THEN geo \cup {d} ELSE geo
    /\ End(r)
    /\ UNCHANGED <<lock, offers, task, history>>

(* FreeDriver: the lock goes whatever order it is for; then the status is
   read and written back. *)
FreeDriver(r, d) ==
    /\ "free" \in Env
    /\ req[r] = Idle
    /\ lock' = [lock EXCEPT ![d] = None]
    /\ Release(d)
    /\ req' = IF hash[d].status = "none" THEN req
              ELSE [req EXCEPT ![r] = Slot("free", d, None, NoSession, hash[d])]
    /\ UNCHANGED <<presence, offers, task, rounds, dropped>>

SetFree(r) ==
    /\ req[r].pc = "free"
    /\ hash' = [hash EXCEPT ![req[r].driver] = [req[r].hash EXCEPT !.status = "online"]]
    /\ End(r)
    /\ UNCHANGED <<geo, lock, offers, task, history>>

-----------------------------------------------------------------------------
(* StartDispatch and its broadcastLoop, one goroutine per order: ride-order
   asks for the dispatch of an order once. *)

TaskGoto(o, pc) == task' = [task EXCEPT ![o].pc = pc]

StartDispatch(o) == /\ task[o].pc = "new" /\ session[o].status = "none"
                    /\ TaskGoto(o, "create")
                    /\ UNCHANGED <<presence, lock, offers, req, history>>

CreateSession(o) ==
    LET s == [NoSession EXCEPT !.status = "searching"] IN
    /\ task[o].pc = "create"
    /\ session' = [session EXCEPT ![o] = s] /\ lapsed' = [lapsed EXCEPT ![o] = FALSE]
    /\ task' = [task EXCEPT ![o] = [pc |-> "first", sess |-> s]]
    /\ UNCHANGED <<presence, lock, rejected, req, history>>

(* scoreCandidates: which of these drivers has the best score is left open. *)
Eligible(o) == {d \in geo : hash[d].status = "online" /\ lock[d] = None /\ <<o, d>> \notin rejected}

Offered(s, d) == [status |-> s.status, cand |-> d, matched |-> s.matched, tried |-> s.tried + 1]

(* Without a candidate the first pick leaves the search to the loop, a later
   one ends it. *)
PickNextCandidate(o) ==
    /\ task[o].pc \in {"first", "pick"}
    /\ \/ \E d \in Eligible(o) :
            task' = [task EXCEPT ![o] = [pc |-> "publish", sess |-> Offered(task[o].sess, d)]]
       \/ /\ Eligible(o) = {}
          /\ TaskGoto(o, IF task[o].pc = "first" THEN "sleep" ELSE "giveup")
    /\ UNCHANGED <<presence, lock, offers, req, history>>

(* UpdateSession with the next candidate. *)
Publish(o) ==
    LET s == task[o].sess IN
    /\ task[o].pc = "publish"
    /\ session' = [session EXCEPT ![o] = s] /\ lapsed' = [lapsed EXCEPT ![o] = FALSE]
    /\ rounds' = [rounds EXCEPT ![o] = @ + 1]
    /\ TaskGoto(o, "sleep")
    /\ UNCHANGED <<presence, lock, rejected, req, held, dropped>>

(* OfferTTL passes: the deadline that the session holds. *)
Lapse(o) ==
    /\ task[o].pc = "sleep" \/ ("crash" \in Env /\ task[o].pc = "ended")
    /\ ~lapsed[o]
    /\ lapsed' = [lapsed EXCEPT ![o] = TRUE]
    /\ UNCHANGED <<presence, lock, rejected, session, task, req, history>>

(* Mutants of the loop's checks: one round too many; any status is searched. *)
OneRoundMore(s) == s.tried > MaxRounds
UnlessGone(s) == s.status # "none"
RoundsUsed(s) == s.tried >= MaxRounds
Searching(s) == s.status = "searching"

Answering(o) == \E r \in Reqs : req[r].order = o /\ req[r].pc \in Answers

(* The loop wakes two seconds after the offer expired and reads the session. *)
Wake(o) ==
    LET s == session[o] IN
    /\ task[o].pc = "sleep" /\ lapsed[o]
    /\ "slow" \in Env \/ ~Answering(o)
    /\ IF ~Searching(s)
         THEN /\ task' = [task EXCEPT ![o] = [pc |-> "ended", sess |-> NoSession]]
              /\ UNCHANGED rejected
         ELSE IF RoundsUsed(s)
         THEN /\ task' = [task EXCEPT ![o] = [pc |-> "giveup", sess |-> s]]
              /\ UNCHANGED rejected
         ELSE /\ task' = [task EXCEPT ![o] = [pc |-> "pick", sess |-> s]]
              /\ rejected' = rejected \cup {<<o, d>> : d \in {s.cand} \ {None}}
    /\ UNCHANGED <<presence, lock, session, lapsed, req, history>>

(* Mutant: the loop returns without writing no_drivers. *)
GiveUpQuietly(o) ==
    /\ task[o].pc = "giveup"
    /\ task' = [task EXCEPT ![o] = [pc |-> "ended", sess |-> NoSession]]
    /\ UNCHANGED <<presence, lock, offers, req, history>>

GiveUp(o) ==
    /\ task[o].pc = "giveup"
    /\ session' = [session EXCEPT ![o] = [task[o].sess EXCEPT !.status = "no_drivers"]]
    /\ task' = [task EXCEPT ![o] = [pc |-> "ended", sess |-> NoSession]]
    /\ UNCHANGED <<presence, lock, rejected, lapsed, req, history>>

-----------------------------------------------------------------------------
(* Respond.  What counts is the candidate in the session, whatever offer the
   driver's app has seen. *)

Respond(r, d, o, pc) ==
    /\ session[o].status = "searching" /\ session[o].cand = d /\ ~lapsed[o]
    /\ "twice" \in Env \/ ~ \E s \in Reqs : req[s].driver = d /\ req[s].pc \in Answers
    /\ Start(r, Slot(pc, d, o, session[o], NoHash))
    /\ UNCHANGED <<presence, lock, offers, task, history>>

(* Mutant: SET instead of SETNX. *)
AnyDriver(d) == TRUE
Unclaimed(d) == lock[d] = None

(* SetActiveOrder, then the read of the driver's status. *)
SetActiveOrder(r) ==
    LET d == req[r].driver IN
    /\ req[r].pc = "claim"
    /\ IF Unclaimed(d)
         THEN /\ lock' = [lock EXCEPT ![d] = req[r].order]
              /\ held' = held \cup {<<d, req[r].order>>}
              /\ req' = [req EXCEPT ![r].pc = IF hash[d].status = "none" THEN "match" ELSE "busy",
                                    ![r].hash = hash[d]]
         ELSE End(r) /\ UNCHANGED <<lock, held>>
    /\ UNCHANGED <<presence, offers, task, rounds, dropped>>

SetBusy(r) ==
    /\ req[r].pc = "busy"
    /\ hash' = [hash EXCEPT ![req[r].driver] = [req[r].hash EXCEPT !.status = "busy"]]
    /\ Goto(r, "match")
    /\ UNCHANGED <<geo, lock, offers, task, history>>

(* Mutant: the session is not written. *)
MatchForgotten(r) ==
    /\ req[r].pc = "match" /\ End(r)
    /\ UNCHANGED <<presence, lock, offers, task, history>>

(* UpdateSession with the session as it was read. *)
MarkMatched(r) ==
    LET q == req[r] IN
    /\ q.pc = "match"
    /\ session' = [session EXCEPT ![q.order] =
                     [q.sess EXCEPT !.status = "driver_found", !.matched = q.driver]]
    /\ End(r)
    /\ UNCHANGED <<presence, lock, rejected, lapsed, task, history>>

MarkRejected(r) ==
    LET q == req[r] IN
    /\ q.pc = "reject"
    /\ rejected' = rejected \cup {<<q.order, q.driver>>}
    /\ Goto(r, "unset")
    /\ UNCHANGED <<presence, lock, session, lapsed, task, history>>

(* UpdateSession, likewise. *)
UnsetCandidate(r) ==
    LET q == req[r] IN
    /\ q.pc = "unset"
    /\ session' = [session EXCEPT ![q.order] = [q.sess EXCEPT !.cand = None]]
    /\ End(r)
    /\ UNCHANGED <<presence, lock, rejected, lapsed, task, history>>

(* It fails, and the driver is told so: a lock taken before stays. *)
UpdateSessionFails(r) ==
    /\ "error" \in Env /\ req[r].pc \in {"match", "unset"} /\ End(r)
    /\ UNCHANGED <<presence, lock, offers, task, history>>

-----------------------------------------------------------------------------
(* CancelDispatch. *)

CancelDispatch(r, o) ==
    /\ "cancel" \in Env /\ session[o].status # "none"
    /\ Start(r, Slot("cancel", None, o, session[o], NoHash))
    /\ UNCHANGED <<presence, lock, offers, task, history>>

SetCancelled(r) ==
    LET q == req[r] IN
    /\ q.pc = "cancel"
    /\ session' = [session EXCEPT ![q.order] = [q.sess EXCEPT !.status = "cancelled"]]
    /\ Goto(r, "cleanup")
    /\ UNCHANGED <<presence, lock, rejected, lapsed, task, history>>

(* The candidate's lock goes, whatever order it is for, then the session. *)
FreeCandidate(r) ==
    LET q == req[r] IN
    /\ q.pc = "cleanup"
    /\ lock' = IF q.sess.cand = None THEN lock ELSE [lock EXCEPT ![q.sess.cand] = None]
    /\ held' = held \ {<<q.sess.cand, q.order>>}
    /\ Goto(r, "delete")
    /\ UNCHANGED <<presence, offers, task, rounds, dropped>>

DeleteSession(r) ==
    LET q == req[r] IN
    /\ q.pc = "delete"
    /\ session' = [session EXCEPT ![q.order] = NoSession]
    /\ dropped' = dropped \cup {q.order}
    /\ End(r)
    /\ UNCHANGED <<presence, lock, rejected, lapsed, task, held, rounds>>

-----------------------------------------------------------------------------
(* Keys that expire: a status without heartbeat, a session nobody updates. *)

StatusExpires(d) == /\ "expiry" \in Env /\ hash[d].status # "none"
                    /\ hash' = [hash EXCEPT ![d] = NoHash]
                    /\ UNCHANGED <<geo, lock, offers, task, req, history>>

SessionExpires(o) == /\ "expiry" \in Env /\ session[o].status # "none"
                     /\ task[o].pc = "ended" /\ \A r \in Reqs : req[r].order # o
                     /\ session' = [session EXCEPT ![o] = NoSession]
                     /\ UNCHANGED <<presence, lock, rejected, lapsed, task, req, history>>

(* The process dies with its loops and handlers, and nothing resumes them.   *)
Crash == /\ "crash" \in Env
         /\ task' = [o \in Orders |-> IF task[o].pc = "new" THEN task[o]
                                      ELSE [pc |-> "ended", sess |-> NoSession]]
         /\ req' = [r \in Reqs |-> Idle]
         /\ UNCHANGED <<presence, lock, offers, history>>

-----------------------------------------------------------------------------
Arrive(r) ==
    \/ \E d \in Drivers : GoOnline(r, d) \/ GoOffline(r, d) \/ UpdateLocation(r, d) \/ FreeDriver(r, d)
    \/ \E d \in Drivers, o \in Orders, pc \in {"claim", "reject"} : Respond(r, d, o, pc)
    \/ \E o \in Orders : CancelDispatch(r, o)
Handle(r) == \/ SetOnline(r) \/ DeleteStatus(r) \/ ClearActiveOrder(r) \/ UpdateDriverLocation(r)
             \/ SetFree(r) \/ SetActiveOrder(r) \/ SetBusy(r) \/ MarkMatched(r) \/ MarkRejected(r)
             \/ UnsetCandidate(r) \/ UpdateSessionFails(r)
             \/ SetCancelled(r) \/ FreeCandidate(r) \/ DeleteSession(r)
Dispatch(o) == \/ CreateSession(o) \/ PickNextCandidate(o) \/ Publish(o) \/ Lapse(o)
               \/ Wake(o) \/ GiveUp(o)

Next == \/ \E r \in Reqs : Arrive(r) \/ Handle(r)
        \/ \E o \in Orders : StartDispatch(o) \/ Dispatch(o) \/ SessionExpires(o)
        \/ \E d \in Drivers : StatusExpires(d)
        \/ Crash
Spec == Init /\ [][Next]_vars

(* A handler or goroutine that runs goes on, and time passes. *)
Fairness == /\ \A r \in Reqs : WF_vars(Handle(r))
            /\ \A o \in Orders : WF_vars(Dispatch(o))

-----------------------------------------------------------------------------
(* Properties *)

(* While dispatches are not cancelled, a driver who claimed an order holds   *)
(* its lock until FreeDriver or GoOffline, however claims, status writes,    *)
(* expiries and crashes interleave; so nobody drives two orders.             *)
HeldIsLocked == "cancel" \notin Env => \A h \in held : lock[h[1]] = h[2]

(* Claim of openapi.yaml, driver:active_order: "prevents double-assignment". *)
NoDoubleAssignment == \A d \in Drivers : Cardinality({o \in Orders : <<d, o>> \in held}) <= 1

(* When answers beat the loop's grace time, come once and are written, an    *)
(* order is claimed by one driver at most.                                   *)
Orderly == Env \cap {"slow", "twice", "cancel", "error", "crash"} = {}
OneDriverPerOrder ==
    Orderly => \A d, e \in Drivers, o \in Orders : lock[d] = o /\ lock[e] = o => d = e

(* The parts of the inductive invariant behind the properties below: what a  *)
(* loop remembers is what the session says, an answer in flight was given to *)
(* the offer the session still shows, and a lock has its session or answer.  *)
NoCancels == "cancel" \notin Env => \A r \in Reqs : req[r].pc \notin Cancelling

LoopInv == \A o \in Orders :
    LET s == session[o]
        t == task[o]
    IN /\ rounds[o] <= MaxRounds
       /\ t.pc \in {"new", "create"} => s.status = "none" /\ rounds[o] = 0
       /\ t.pc = "first" => /\ s.status = "searching" /\ s.cand = None
                            /\ t.sess = s /\ s.tried = 0 /\ rounds[o] = 0
       /\ t.pc = "sleep" => /\ s.status \in {"searching", "driver_found"}
                            /\ s.status = "searching" => s.tried = rounds[o]
       /\ t.pc \in {"pick", "publish", "giveup"} =>
            /\ s.status = "searching" /\ (s.cand = None \/ lapsed[o])
            /\ t.sess.status = "searching"
       /\ t.pc = "pick" => t.sess.tried = rounds[o] /\ t.sess.tried < MaxRounds
       /\ t.pc = "publish" => /\ t.sess.cand \in Drivers
                              /\ t.sess.tried = rounds[o] + 1 /\ t.sess.tried <= MaxRounds
       /\ t.pc = "ended" => s.status \in {"none", "no_drivers", "driver_found"}

AnswerInv == \A r \in Reqs : req[r].pc \in Answers =>
    LET o == req[r].order IN
    /\ task[o].pc = "sleep" /\ session[o].status = "searching"
    /\ session[o].cand = req[r].driver /\ req[r].sess = session[o]
    /\ \A s \in Reqs : req[s].pc \in Answers /\ req[s].order = o => s = r

LockInv == \A d \in Drivers, o \in Orders : lock[d] = o =>
    /\ task[o].pc \notin {"new", "create"}
    /\ \/ session[o].status = "none"
       \/ session[o].status = "driver_found" /\ session[o].matched = d
       \/ \E r \in Reqs : /\ req[r].pc \in {"busy", "match"}
                           /\ req[r].driver = d /\ req[r].order = o

IInv == TypeOK /\ NoCancels /\ HeldIsLocked /\ (Orderly => LoopInv /\ AnswerInv /\ LockInv /\ OneDriverPerOrder)

(* A search that found its driver never starts again, for nobody's stale     *)
(* copy of the session is written over it.                                   *)
MatchFinal ==
    [][Orderly => \A o \in Orders : session[o].status = "driver_found" =>
          \/ session'[o] = session[o]
          \/ session'[o] = NoSession /\ "expiry" \in Env]_vars

(* An order is offered at most max_rounds times.                             *)
RoundsBounded == Orderly => \A o \in Orders : rounds[o] <= MaxRounds

(* Every search ends: in a match, without drivers, or with its session gone. *)
SearchEnds == \A o \in Orders : (session[o].status = "searching") ~> (session[o].status # "searching")

(* Claim of openapi.yaml, /internal/dispatcher/cancel: "Cleans up matching   *)
(* session".                                                                 *)
CancelCleans == \A o \in dropped : session[o].status \in {"none", "cancelled"}
=============================================================================
