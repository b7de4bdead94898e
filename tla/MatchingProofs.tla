--------------------------- MODULE MatchingProofs ---------------------------
(***************************************************************************)
(* Proofs about Matching for every value of its constants.  First what     *)
(* holds whatever the environment does (types, and locks held by those who *)
(* claimed them), then what holds while answers are orderly.               *)
(***************************************************************************)
EXTENDS Matching, TLAPS

LEMMA Empty == NoSession \in Sessions /\ NoHash \in Hashes
  BY DEF NoSession, Sessions, NoHash, Hashes

(* Whatever a handler starts with fits its slot.                             *)
LEMMA SlotType ==
  ASSUME NEW pc \in ReqPcs, NEW d \in Drivers \cup {None}, NEW o \in Orders \cup {None},
         NEW s \in Sessions, NEW h \in Hashes
  PROVE  LET q == Slot(pc, d, o, s, h)
         IN q \in Requests /\ q.pc = pc /\ q.driver = d /\ q.order = o /\ q.sess = s /\ q.hash = h
  BY DEF Slot, Requests

LEMMA IdleSlot == Idle \in Requests /\ Idle.pc = "idle" /\ Idle.order = None
  BY Empty DEF Idle, Slot, Requests, ReqPcs

(* Where handlers start, go on and end; the rest of the state aside.         *)
ReqType == req \in [Reqs -> Requests] /\ \A r \in Reqs : Addressed(req[r])

LEMMA SlotTaken ==
  ASSUME ReqType, NEW r \in Reqs, NEW q \in Requests, Addressed(q), req' = [req EXCEPT ![r] = q]
  PROVE  ReqType'
  BY DEF ReqType, Addressed

LEMMA SlotGoesOn ==
  ASSUME ReqType, NEW r \in Reqs, NEW pc \in ReqPcs, Goto(r, pc),
         \/ /\ req[r].pc \notin {"idle"} \cup Cancelling
            /\ pc \in Answers => req[r].pc \in Answers
            /\ pc \notin Cancelling
         \/ req[r].pc \in Cancelling /\ pc \in Cancelling
  PROVE  ReqType'
  <1>1. [req[r] EXCEPT !.pc = pc] \in Requests /\ req[r] \in Requests
    BY DEF ReqType, Requests
  <1>2. Addressed([req[r] EXCEPT !.pc = pc])
    BY DEF ReqType, Requests, Addressed, Cancelling, Answers
  <1> QED
    BY <1>1, <1>2 DEF ReqType, Goto, Addressed

LEMMA SlotEnds == ASSUME ReqType, NEW r \in Reqs, End(r) PROVE ReqType'
  BY IdleSlot, SlotTaken DEF End, Addressed, Answers, Cancelling

LEMMA InitTypeOK == Init => TypeOK
  BY IdleSlot, Empty DEF Init, TypeOK, NoHash, Hashes, NoSession, Sessions, TaskPcs, Addressed, Answers, Cancelling

LEMMA ArriveType == ASSUME TypeOK, NEW r \in Reqs, Arrive(r) PROVE TypeOK'
  <1> USE Empty DEF Start, presence, offers, history
  <1>1. ReqType /\ \A d \in Drivers : hash[d] \in Hashes /\ \A o \in Orders : session[o] \in Sessions
    BY DEF TypeOK, ReqType
  <1>2. ASSUME NEW d \in Drivers, GoOnline(r, d) \/ GoOffline(r, d) \/ UpdateLocation(r, d)
        PROVE  TypeOK'
    <2>1. PICK pc \in {"online", "offline", "move"}, h \in Hashes :
            req' = [req EXCEPT ![r] = Slot(pc, d, None, NoSession, h)]
      BY <1>1, <1>2 DEF GoOnline, GoOffline, UpdateLocation
    <2> DEFINE q == Slot(pc, d, None, NoSession, h)
    <2>2. pc \in ReqPcs /\ pc \notin Answers \cup Cancelling
      BY DEF ReqPcs, Answers, Cancelling
    <2>3. q \in Requests /\ q.pc = pc /\ q.driver = d
      BY <2>2, SlotType
    <2> HIDE DEF q
    <2>4. Addressed(q)
      BY <2>2, <2>3 DEF Addressed
    <2>5. ReqType'
      BY <1>1, <2>1, <2>3, <2>4, SlotTaken DEF q
    <2>6. UNCHANGED <<hash, geo, lock, rejected, session, lapsed, task, held, rounds, dropped>>
      BY <1>2 DEF GoOnline, GoOffline, UpdateLocation
    <2> QED
      BY <2>5, <2>6 DEF TypeOK, ReqType
  <1>3. ASSUME NEW d \in Drivers, FreeDriver(r, d) PROVE TypeOK'
    <2> DEFINE q == Slot("free", d, None, NoSession, hash[d])
    <2>1. q \in Requests /\ q.pc = "free" /\ q.driver = d
      BY <1>1 DEF Slot, Requests, ReqPcs
    <2>2. req' = req \/ req' = [req EXCEPT ![r] = q]
      BY <1>3 DEF FreeDriver
    <2> HIDE DEF q
    <2>3. Addressed(q)
      BY <2>1 DEF Addressed, Answers, Cancelling
    <2>4. ReqType'
      BY <1>1, <2>1, <2>2, <2>3, SlotTaken DEF ReqType
    <2> QED
      BY <1>3, <2>4 DEF FreeDriver, Release, TypeOK, ReqType
  <1>4. ASSUME NEW d \in Drivers, NEW o \in Orders, NEW pc \in {"claim", "reject"},
               Respond(r, d, o, pc)
        PROVE  TypeOK'
    <2> DEFINE q == Slot(pc, d, o, session[o], NoHash)
    <2>1. q \in Requests /\ q.pc = pc /\ q.driver = d /\ q.order = o
      BY <1>1, SlotType DEF ReqPcs, Answers
    <2>2. req' = [req EXCEPT ![r] = q]
      BY <1>4 DEF Respond
    <2> HIDE DEF q
    <2>3. ReqType'
      BY <1>1, <2>1, <2>2, SlotTaken DEF Addressed
    <2> QED
      BY <1>4, <2>3 DEF Respond, TypeOK, ReqType
  <1>5. ASSUME NEW o \in Orders, CancelDispatch(r, o) PROVE TypeOK'
    <2> DEFINE q == Slot("cancel", None, o, session[o], NoHash)
    <2>1. q \in Requests /\ q.pc = "cancel" /\ q.order = o
      BY DEF TypeOK, Slot, Requests, ReqPcs, Cancelling, NoHash, Hashes
    <2>2. req' = [req EXCEPT ![r] = q]
      BY <1>5 DEF CancelDispatch
    <2> HIDE DEF q
    <2>3. ReqType'
      BY <1>1, <2>1, <2>2, SlotTaken DEF Addressed, Cancelling
    <2> QED
      BY <1>5, <2>3 DEF CancelDispatch, TypeOK, ReqType
  <1> QED
    BY <1>2, <1>3, <1>4, <1>5 DEF Arrive

LEMMA HandleType == ASSUME TypeOK, NEW r \in Reqs, Handle(r) PROVE TypeOK'
  <1> USE DEF presence, offers, history
  <1> DEFINE d == req[r].driver
             o == req[r].order
             s == req[r].sess
             h == req[r].hash
  <1>1. /\ ReqType /\ Addressed(req[r]) /\ h \in Hashes /\ s \in Sessions
        /\ d \in Drivers \cup {None} /\ o \in Orders \cup {None}
    BY DEF TypeOK, ReqType, Requests
  <1>2. {"unclaim", "match", "busy", "unset", "cleanup", "delete"} \subseteq ReqPcs
    BY DEF ReqPcs, Answers, Cancelling
  <1> HIDE DEF d, o, s, h
  <1>3. CASE SetOnline(r) \/ UpdateDriverLocation(r) \/ SetFree(r) \/ SetBusy(r)
    <2>1. d \in Drivers
      BY <1>1, <1>3 DEF Addressed, SetOnline, UpdateDriverLocation, SetFree, SetBusy, Cancelling, d
    <2>2. ReqType'
      BY <1>1, <1>2, <1>3, SlotEnds, SlotGoesOn
      DEF SetOnline, UpdateDriverLocation, SetFree, SetBusy, Answers, Cancelling
    <2>3. \A x \in {"blank", "online", "busy"}, v \in BOOLEAN :
             [status |-> x, vehicle |-> v] \in Hashes /\ [h EXCEPT !.status = x] \in Hashes
      BY <1>1 DEF Hashes
    <2>4. hash' \in [Drivers -> Hashes]
      BY <1>3, <2>3 DEF SetOnline, UpdateDriverLocation, SetFree, SetBusy, TypeOK, d, h
    <2>5. geo' \subseteq Drivers
      BY <1>3, <2>1 DEF SetOnline, UpdateDriverLocation, SetFree, SetBusy, TypeOK, d
    <2>6. UNCHANGED <<lock, rejected, session, lapsed, task, held, rounds, dropped>>
      BY <1>3 DEF SetOnline, UpdateDriverLocation, SetFree, SetBusy
    <2> QED
      BY <2>2, <2>4, <2>5, <2>6 DEF TypeOK, ReqType
  <1>4. CASE DeleteStatus(r) \/ ClearActiveOrder(r)
    <2>1. ReqType'
      BY <1>1, <1>2, <1>4, SlotEnds, SlotGoesOn DEF DeleteStatus, ClearActiveOrder, Answers, Cancelling
    <2> QED
      BY <1>4, <2>1, Empty DEF DeleteStatus, ClearActiveOrder, Release, TypeOK, ReqType
  <1>5. CASE SetActiveOrder(r)
    <2>1. d \in Drivers /\ o \in Orders
      BY <1>1, <1>5 DEF Addressed, SetActiveOrder, Answers, Cancelling, d, o
    <2>2. ReqType'
      <3>1. CASE End(r)
        BY <3>1, <1>1, SlotEnds
      <3>2. CASE ~End(r)
        <4>1. PICK pc \in {"match", "busy"}, g \in Hashes :
                req' = [req EXCEPT ![r].pc = pc, ![r].hash = g]
          BY <1>5, <2>1, <3>2 DEF SetActiveOrder, TypeOK, d
        <4>2. PICK q : q = [req[r] EXCEPT !.pc = pc, !.hash = g]
          OBVIOUS
        <4>3. q \in Requests /\ q.pc = pc /\ q.driver = d /\ q.order = o
          BY <1>1, <1>2, <4>2 DEF ReqType, Requests, d, o
        <4>4. req' = [req EXCEPT ![r] = q]
          BY <1>1, <4>1, <4>2 DEF ReqType
        <4> QED
          BY <1>1, <2>1, <4>3, <4>4, SlotTaken DEF Addressed
      <3> QED
        BY <3>1, <3>2
    <2>3. lock' \in [Drivers -> Orders \cup {None}] /\ held' \subseteq Drivers \X Orders
      BY <1>5, <2>1 DEF SetActiveOrder, TypeOK, d, o
    <2> QED
      BY <1>5, <2>2, <2>3 DEF SetActiveOrder, TypeOK, ReqType
  <1>6. CASE MarkMatched(r) \/ MarkRejected(r) \/ UnsetCandidate(r) \/ UpdateSessionFails(r)
    <2>1. d \in Drivers /\ o \in Orders
      BY <1>1, <1>6 DEF Addressed, MarkMatched, MarkRejected, UnsetCandidate, UpdateSessionFails,
                        Answers, Cancelling, d, o
    <2>2. ReqType'
      BY <1>1, <1>2, <1>6, SlotEnds, SlotGoesOn
      DEF MarkMatched, MarkRejected, UnsetCandidate, UpdateSessionFails, Answers, Cancelling
    <2>3. /\ [s EXCEPT !.status = "driver_found", !.matched = d] \in Sessions
          /\ [s EXCEPT !.cand = None] \in Sessions
      BY <1>1, <2>1 DEF Sessions
    <2>4. session' \in [Orders -> Sessions]
      BY <1>6, <2>3 DEF MarkMatched, MarkRejected, UnsetCandidate, UpdateSessionFails, TypeOK, d, o, s
    <2>5. rejected' \subseteq Orders \X Drivers
      BY <1>6, <2>1 DEF MarkMatched, MarkRejected, UnsetCandidate, UpdateSessionFails, TypeOK, d, o
    <2>6. UNCHANGED <<hash, geo, lock, lapsed, task, held, rounds, dropped>>
      BY <1>6 DEF MarkMatched, MarkRejected, UnsetCandidate, UpdateSessionFails
    <2> QED
      BY <2>2, <2>4, <2>5, <2>6 DEF TypeOK, ReqType
  <1>7. CASE SetCancelled(r) \/ FreeCandidate(r) \/ DeleteSession(r)
    <2>1. o \in Orders
      BY <1>1, <1>7 DEF Addressed, SetCancelled, FreeCandidate, DeleteSession, Answers, Cancelling, o
    <2>2. ReqType'
      BY <1>1, <1>2, <1>7, SlotEnds, SlotGoesOn DEF SetCancelled, FreeCandidate, DeleteSession, Cancelling
    <2>3. [s EXCEPT !.status = "cancelled"] \in Sessions
      BY <1>1 DEF Sessions
    <2>4. session' \in [Orders -> Sessions]
      BY <1>7, <2>3, Empty DEF SetCancelled, FreeCandidate, DeleteSession, TypeOK, o, s
    <2>5. lock' \in [Drivers -> Orders \cup {None}] /\ held' \subseteq Drivers \X Orders
      BY <1>7 DEF SetCancelled, FreeCandidate, DeleteSession, TypeOK
    <2>6. UNCHANGED <<hash, geo, rejected, lapsed, task, rounds>> /\ dropped' \subseteq Orders
      BY <1>7, <2>1 DEF SetCancelled, FreeCandidate, DeleteSession, TypeOK, o
    <2> QED
      BY <2>2, <2>4, <2>5, <2>6 DEF TypeOK, ReqType
  <1> QED
    BY <1>3, <1>4, <1>5, <1>6, <1>7 DEF Handle

(* The loop's copy of the session stays a session.                           *)
LEMMA SessionType ==
  ASSUME NEW s \in Sessions, NEW d \in Drivers, NEW x \in {"searching", "no_drivers"}
  PROVE  /\ Offered(s, d) \in Sessions
         /\ [s EXCEPT !.status = x] \in Sessions
  BY DEF Sessions, Offered

LEMMA DispatchType ==
  ASSUME TypeOK, NEW o \in Orders,
         StartDispatch(o) \/ Dispatch(o) \/ SessionExpires(o)
  PROVE  TypeOK'
  <1> USE Empty DEF presence, offers, history
  <1> DEFINE Tasks == [pc : TaskPcs, sess : Sessions]
             s == task[o].sess
  <1>1. task \in [Orders -> Tasks] /\ task[o] \in Tasks /\ s \in Sessions /\ session[o] \in Sessions
    BY DEF TypeOK
  <1>2. \A pc \in TaskPcs, x \in Sessions : [pc |-> pc, sess |-> x] \in Tasks
    OBVIOUS
  <1>3. \A pc \in TaskPcs : [task EXCEPT ![o].pc = pc] \in [Orders -> Tasks]
    BY <1>1
  <1>4. TaskPcs = {"new", "create", "first", "sleep", "pick", "publish", "giveup", "ended"}
    BY DEF TaskPcs
  <1> HIDE DEF Tasks, s
  <1>5. CASE StartDispatch(o) \/ Lapse(o) \/ SessionExpires(o)
    <2>1. task' \in [Orders -> Tasks]
      BY <1>1, <1>3, <1>4, <1>5 DEF StartDispatch, Lapse, SessionExpires, TaskGoto
    <2> QED
      BY <1>5, <2>1 DEF TypeOK, StartDispatch, Lapse, SessionExpires, Tasks
  <1>6. CASE CreateSession(o)
    <2>1. [NoSession EXCEPT !.status = "searching"] \in Sessions
      BY DEF NoSession, Sessions
    <2>2. task' \in [Orders -> Tasks]
      BY <1>1, <1>2, <1>4, <1>6, <2>1 DEF CreateSession
    <2> QED
      BY <1>6, <2>1, <2>2 DEF TypeOK, CreateSession, Tasks
  <1>7. CASE PickNextCandidate(o)
    <2>1. task' \in [Orders -> Tasks]
      <3>1. \A d \in Eligible(o) : Offered(s, d) \in Sessions
        BY <1>1, SessionType DEF TypeOK, Eligible
      <3> QED
        <4>1. ASSUME NEW d \in Eligible(o),
                     task' = [task EXCEPT ![o] = [pc |-> "publish", sess |-> Offered(s, d)]]
              PROVE  task' \in [Orders -> Tasks]
          BY <1>1, <1>2, <1>4, <3>1, <4>1
        <4>2. ASSUME NEW pc \in TaskPcs, TaskGoto(o, pc) PROVE task' \in [Orders -> Tasks]
          BY <1>3, <4>2 DEF TaskGoto
        <4> QED
          BY <1>4, <1>7, <4>1, <4>2 DEF PickNextCandidate, s
    <2>2. UNCHANGED <<hash, geo, lock, rejected, session, lapsed, req, held, rounds, dropped>>
      BY <1>7 DEF PickNextCandidate
    <2> QED
      BY <2>1, <2>2 DEF TypeOK, Tasks
  <1>8. CASE Publish(o)
    <2>1. task' \in [Orders -> Tasks]
      BY <1>1, <1>3, <1>4, <1>8 DEF Publish, TaskGoto
    <2>2. session' \in [Orders -> Sessions] /\ lapsed' \in [Orders -> BOOLEAN]
      BY <1>1, <1>8 DEF TypeOK, Publish, s
    <2>4. rounds' \in [Orders -> Nat]
      <3>1. rounds[o] + 1 \in Nat
        BY DEF TypeOK
      <3> QED
        BY <1>8, <3>1 DEF TypeOK, Publish
    <2>5. UNCHANGED <<hash, geo, lock, rejected, req, held, dropped>>
      BY <1>8 DEF Publish
    <2> QED
      BY <2>1, <2>2, <2>4, <2>5 DEF TypeOK, Tasks
  <1>9. CASE Wake(o)
    <2>1. task' \in [Orders -> Tasks]
      BY <1>1, <1>2, <1>4, <1>9, Empty DEF Wake
    <2>2. {<<o, d>> : d \in {session[o].cand} \ {None}} \subseteq Orders \X Drivers
      BY <1>1 DEF Sessions
    <2> QED
      BY <1>9, <2>1, <2>2 DEF TypeOK, Wake, Tasks
  <1>10. CASE GiveUp(o)
    <2>1. [s EXCEPT !.status = "no_drivers"] \in Sessions
      BY <1>1 DEF Sessions
    <2>2. session' \in [Orders -> Sessions]
      BY <1>1, <1>10, <2>1 DEF GiveUp, TypeOK, s
    <2>3. task' \in [Orders -> Tasks]
      BY <1>1, <1>2, <1>4, <1>10, Empty DEF GiveUp
    <2> QED
      BY <1>10, <2>2, <2>3 DEF TypeOK, GiveUp, Tasks
  <1> QED
    BY <1>5, <1>6, <1>7, <1>8, <1>9, <1>10 DEF Dispatch

LEMMA NextType == TypeOK /\ [Next]_vars => TypeOK'
  <1> SUFFICES ASSUME TypeOK, [Next]_vars PROVE TypeOK'
    OBVIOUS
  <1>1. ASSUME NEW d \in Drivers, StatusExpires(d) PROVE TypeOK'
    BY <1>1, Empty DEF StatusExpires, TypeOK, offers, history
  <1>2. CASE UNCHANGED vars
    BY <1>2 DEF vars, presence, offers, history, TypeOK
  <1>3. CASE Crash
    <2>1. req' \in [Reqs -> Requests] /\ \A r \in Reqs : Addressed(req'[r])
      BY <1>3, IdleSlot DEF Crash, Addressed, Answers, Cancelling
    <2>2. task' \in [Orders -> [pc : TaskPcs, sess : Sessions]]
      BY <1>3, Empty DEF Crash, TypeOK, TaskPcs
    <2> QED
      BY <1>3, <2>1, <2>2 DEF Crash, TypeOK, presence, offers, history
  <1> QED
    BY <1>1, <1>2, <1>3, ArriveType, HandleType, DispatchType DEF Next

(* Theorem: every variable keeps its type.                                   *)
THEOREM TypeCorrect == Spec => []TypeOK
  BY InitTypeOK, NextType, PTL DEF Spec

-----------------------------------------------------------------------------
(* Locks.  Only SetActiveOrder writes an order into a lock, and only the     *)
(* clean-up of a cancel clears one without releasing the claim.              *)
LEMMA CancelsStep == TypeOK /\ NoCancels /\ [Next]_vars => NoCancels'
  <1> SUFFICES ASSUME TypeOK, "cancel" \notin Env, [Next]_vars, NEW r \in Reqs,
                      \A x \in Reqs : req[x].pc \notin Cancelling
               PROVE  req'[r].pc \notin Cancelling
    BY DEF NoCancels
  <1> USE DEF TypeOK, Requests, Cancelling
  <1>1. Idle.pc = "idle"
    BY IdleSlot
  <1>2. CASE req' = req
    BY <1>2
  <1>3. ASSUME NEW x \in Reqs, NEW q, req' = [req EXCEPT ![x] = q], q.pc \notin Cancelling
        PROVE  req'[r].pc \notin Cancelling
    BY <1>3
  <1>4. ASSUME NEW x \in Reqs, Arrive(x) PROVE req'[r].pc \notin Cancelling
    <2>1. PICK q : (req' = [req EXCEPT ![x] = q] /\ q.pc \notin Cancelling) \/ req' = req
      BY <1>4 DEF Arrive, GoOnline, GoOffline, UpdateLocation, FreeDriver, Respond, CancelDispatch, Start, Slot, Answers, Cancelling
    <2> QED
      BY <1>2, <1>3, <2>1
  <1>5. ASSUME NEW x \in Reqs, Handle(x) PROVE req'[r].pc \notin Cancelling
    <2>1. CASE End(x)
      BY <1>1, <2>1 DEF End
    <2>2. ASSUME NEW pc \in {"unclaim", "match", "unset"}, Goto(x, pc) PROVE req'[r].pc \notin Cancelling
      BY <2>2 DEF Goto
    <2>3. CASE SetActiveOrder(x) /\ ~End(x)
      BY <2>3 DEF SetActiveOrder
    <2> QED
      BY <1>5, <2>1, <2>2, <2>3
      DEF Handle, SetOnline, DeleteStatus, ClearActiveOrder, UpdateDriverLocation, SetFree, SetActiveOrder,
          SetBusy, MarkMatched, MarkRejected, UnsetCandidate, UpdateSessionFails,
          SetCancelled, FreeCandidate, DeleteSession
  <1>6. ASSUME NEW o \in Orders, StartDispatch(o) \/ Dispatch(o) \/ SessionExpires(o) PROVE req' = req
    BY <1>6 DEF Dispatch, StartDispatch, CreateSession, PickNextCandidate, Publish, Lapse, Wake, GiveUp,
                SessionExpires
  <1>7. ASSUME NEW d \in Drivers, StatusExpires(d) PROVE req' = req
    BY <1>7 DEF StatusExpires
  <1>8. CASE Crash
    BY <1>1, <1>8 DEF Crash
  <1> QED
    BY <1>2, <1>4, <1>5, <1>6, <1>7, <1>8 DEF Next, vars

LEMMA HeldStep == TypeOK /\ NoCancels /\ HeldIsLocked /\ [Next]_vars => HeldIsLocked'
  <1> SUFFICES ASSUME TypeOK, NoCancels, "cancel" \notin Env, [Next]_vars,
                      \A h \in held : lock[h[1]] = h[2]
               PROVE  \A h \in held' : lock'[h[1]] = h[2]
    BY DEF HeldIsLocked
  <1> USE DEF TypeOK
  <1>1. CASE UNCHANGED <<lock, held>>
    BY <1>1
  <1>2. ASSUME NEW d, lock' = [lock EXCEPT ![d] = None], Release(d)
        PROVE  \A h \in held' : lock'[h[1]] = h[2]
    BY <1>2 DEF Release
  <1>3. ASSUME NEW r \in Reqs, Arrive(r) PROVE \A h \in held' : lock'[h[1]] = h[2]
    BY <1>1, <1>2, <1>3
    DEF Arrive, GoOnline, GoOffline, UpdateLocation, FreeDriver, Respond, CancelDispatch, history
  <1>4. ASSUME NEW r \in Reqs, SetActiveOrder(r) PROVE \A h \in held' : lock'[h[1]] = h[2]
    <2>1. req[r].driver \in Drivers /\ req[r].order \in Orders
      BY <1>4 DEF SetActiveOrder, Addressed, Answers, Cancelling
    <2>2. CASE Unclaimed(req[r].driver)
      <3>1. \A h \in held : h[1] # req[r].driver
        BY <2>1, <2>2, MatchingAssumption DEF Unclaimed
      <3> QED
        BY <1>4, <2>1, <2>2, <3>1 DEF SetActiveOrder
    <2> QED
      BY <1>1, <1>4, <2>2 DEF SetActiveOrder
  <1>5. ASSUME NEW r \in Reqs, Handle(r), ~SetActiveOrder(r) PROVE \A h \in held' : lock'[h[1]] = h[2]
    <2>1. req[r].pc \notin Cancelling
      BY DEF NoCancels
    <2> QED
      BY <1>1, <1>2, <1>5, <2>1
      DEF Handle, SetOnline, DeleteStatus, ClearActiveOrder, UpdateDriverLocation, SetFree,
          SetBusy, MarkMatched, MarkRejected, UnsetCandidate, UpdateSessionFails,
          SetCancelled, FreeCandidate, DeleteSession, Cancelling, history
  <1>6. ASSUME NEW o \in Orders, StartDispatch(o) \/ Dispatch(o) \/ SessionExpires(o)
        PROVE  UNCHANGED <<lock, held>>
    BY <1>6 DEF Dispatch, StartDispatch, CreateSession, PickNextCandidate, Publish, Lapse, Wake, GiveUp,
                SessionExpires, history
  <1>7. ASSUME NEW d \in Drivers, StatusExpires(d) PROVE UNCHANGED <<lock, held>>
    BY <1>7 DEF StatusExpires, history
  <1>8. CASE Crash
    BY <1>1, <1>8 DEF Crash, history
  <1> QED
    BY <1>1, <1>3, <1>4, <1>5, <1>6, <1>7, <1>8 DEF Next, vars, history

-----------------------------------------------------------------------------
(* Orderly answers: what the loop, the answers in flight and the locks know  *)
(* of each other.                                                            *)
Coherent == LoopInv /\ AnswerInv /\ LockInv /\ OneDriverPerOrder

(* Steps of presence: nothing of an offer moves, locks are cleared at most.  *)
LEMMA QuietStep ==
  ASSUME TypeOK, Orderly, Coherent, UNCHANGED <<session, lapsed, task, rounds>>,
         \A d \in Drivers : lock'[d] \in {lock[d], None},
         \A r \in Reqs : \/ req'[r] = req[r]
                         \/ req[r].pc \notin Answers /\ req'[r].pc \notin Answers
  PROVE  Coherent'
  <1> USE DEF Coherent
  <1>1. LoopInv'
    BY DEF LoopInv
  <1>2. AnswerInv'
    BY DEF AnswerInv
  <1>3. LockInv'
    BY MatchingAssumption DEF LockInv, Answers
  <1>4. OneDriverPerOrder'
    BY MatchingAssumption DEF OneDriverPerOrder
  <1> QED
    BY <1>1, <1>2, <1>3, <1>4

LEMMA PresenceStep ==
  ASSUME TypeOK, Orderly, Coherent, NEW r \in Reqs,
         \/ \E d \in Drivers : GoOnline(r, d) \/ GoOffline(r, d) \/ UpdateLocation(r, d) \/ FreeDriver(r, d)
         \/ SetOnline(r) \/ DeleteStatus(r) \/ ClearActiveOrder(r) \/ UpdateDriverLocation(r) \/ SetFree(r)
  PROVE  Coherent'
  <1> USE DEF offers, history
  <1>1. UNCHANGED <<session, lapsed, task, rounds>>
    BY DEF GoOnline, GoOffline, UpdateLocation, FreeDriver, SetOnline, DeleteStatus, ClearActiveOrder,
           UpdateDriverLocation, SetFree
  <1>2. \A d \in Drivers : lock'[d] \in {lock[d], None}
    BY DEF TypeOK, GoOnline, GoOffline, UpdateLocation, FreeDriver, SetOnline, DeleteStatus,
           ClearActiveOrder, UpdateDriverLocation, SetFree
  <1>3. req[r].pc \notin Answers
    BY IdleSlot DEF GoOnline, GoOffline, UpdateLocation, FreeDriver, SetOnline, DeleteStatus, ClearActiveOrder,
           UpdateDriverLocation, SetFree, Start, Answers
  <1>4. \E q : (req' = [req EXCEPT ![r] = q] /\ q.pc \notin Answers) \/ req' = req
    <2>1. CASE End(r)
      BY <2>1, IdleSlot DEF End, Answers
    <2>2. CASE Goto(r, "unclaim")
      <3>1. [req[r] EXCEPT !.pc = "unclaim"].pc = "unclaim"
        BY DEF TypeOK, Requests
      <3>2. req' = [req EXCEPT ![r] = [req[r] EXCEPT !.pc = "unclaim"]]
        BY <2>2 DEF Goto
      <3> QED
        BY <3>1, <3>2 DEF Answers
    <2>3. ASSUME NEW d \in Drivers, NEW pc \in {"online", "offline", "move", "free"}, NEW h,
                 req' = [req EXCEPT ![r] = Slot(pc, d, None, NoSession, h)]
          PROVE  \E q : req' = [req EXCEPT ![r] = q] /\ q.pc \notin Answers
      <3>1. Slot(pc, d, None, NoSession, h).pc \notin Answers
        BY DEF Slot, Answers
      <3> QED
        BY <2>3, <3>1
    <2>4. ASSUME NEW d \in Drivers,
                 GoOnline(r, d) \/ GoOffline(r, d) \/ UpdateLocation(r, d) \/ FreeDriver(r, d)
          PROVE  (\E q : req' = [req EXCEPT ![r] = q] /\ q.pc \notin Answers) \/ req' = req
      BY <2>3, <2>4 DEF GoOnline, GoOffline, UpdateLocation, FreeDriver, Start
    <2> QED
      BY <2>1, <2>2, <2>4 DEF SetOnline, DeleteStatus, ClearActiveOrder, UpdateDriverLocation, SetFree
  <1>5. \A x \in Reqs : \/ req'[x] = req[x]
                        \/ req[x].pc \notin Answers /\ req'[x].pc \notin Answers
    BY <1>3, <1>4 DEF TypeOK
  <1> QED
    BY <1>1, <1>2, <1>5, QuietStep

LEMMA RespondStep ==
  ASSUME TypeOK, Orderly, Coherent, NEW r \in Reqs, NEW d \in Drivers, NEW o \in Orders,
         NEW pc \in {"claim", "reject"}, Respond(r, d, o, pc)
  PROVE  Coherent'
  <1> USE DEF Coherent, Respond, offers, history
  <1> DEFINE q == Slot(pc, d, o, session[o], NoHash)
  <1>1. q.pc = pc /\ q.driver = d /\ q.order = o /\ q.sess = session[o]
    BY DEF Slot
  <1>2. req' = [req EXCEPT ![r] = q] /\ req[r].pc = "idle"
    BY IdleSlot DEF Start
  <1> HIDE DEF q
  <1>3. UNCHANGED <<session, lapsed, task, rounds, lock>>
    OBVIOUS
  <1>4. task[o].pc = "sleep"
    BY MatchingAssumption DEF LoopInv, TypeOK, TaskPcs
  <1>5. \A s \in Reqs : req[s].pc \in Answers => req[s].order # o
    BY DEF AnswerInv, Orderly
  <1>6. LoopInv'
    BY <1>3 DEF LoopInv
  <1>7. AnswerInv'
    BY <1>1, <1>2, <1>3, <1>4, <1>5 DEF AnswerInv, TypeOK
  <1>8. LockInv'
    BY <1>1, <1>2, <1>3 DEF LockInv, TypeOK
  <1>9. OneDriverPerOrder'
    BY <1>3 DEF OneDriverPerOrder
  <1> QED
    BY <1>6, <1>7, <1>8, <1>9

(* Claiming: nobody else holds the order, for the session is still searching *)
(* and this is its only answer.                                              *)
LEMMA ClaimStep ==
  ASSUME TypeOK, Orderly, Coherent, NEW r \in Reqs, SetActiveOrder(r)
  PROVE  Coherent'
  <1> USE DEF Coherent, SetActiveOrder, offers, history
  <1> DEFINE d == req[r].driver
             o == req[r].order
  <1>1. d \in Drivers /\ o \in Orders
    BY DEF TypeOK, Addressed, Answers, Cancelling
  <1>2. /\ task[o].pc = "sleep" /\ session[o].status = "searching"
        /\ \A s \in Reqs : req[s].pc \in Answers /\ req[s].order = o => s = r
    BY DEF AnswerInv, Answers
  <1>3. UNCHANGED <<session, lapsed, task, rounds>>
    OBVIOUS
  <1>4. LoopInv'
    BY <1>3 DEF LoopInv
  <1>5. CASE ~Unclaimed(d)
    <2>1. req' = [req EXCEPT ![r] = Idle] /\ lock' = lock
      BY <1>5 DEF End
    <2>2. AnswerInv'
      BY <1>3, <2>1, IdleSlot DEF AnswerInv, TypeOK, Answers
    <2>3. LockInv'
      BY <1>3, <2>1, IdleSlot DEF LockInv, TypeOK
    <2> QED
      BY <1>3, <1>4, <2>1, <2>2, <2>3 DEF OneDriverPerOrder
  <1>6. CASE Unclaimed(d)
    <2>1. PICK pc \in {"match", "busy"} : req' = [req EXCEPT ![r].pc = pc, ![r].hash = hash[d]]
      BY <1>6
    <2>2. /\ \A x \in Reqs \ {r} : req'[x] = req[x]
          /\ req'[r].pc = pc /\ req'[r].driver = d /\ req'[r].order = o /\ req'[r].sess = req[r].sess
      BY <2>1 DEF TypeOK, Requests
    <2>3. lock' = [lock EXCEPT ![d] = o]
      BY <1>6
    <2>4. \A e \in Drivers : lock[e] # o
      BY <1>1, <1>2 DEF LockInv, Answers
    <2>5. AnswerInv'
      BY <1>3, <2>2 DEF AnswerInv, Answers
    <2>6. LockInv'
      <3> SUFFICES ASSUME NEW e \in Drivers, NEW p \in Orders, lock'[e] = p
                   PROVE  /\ task[p].pc \notin {"new", "create"}
                          /\ \/ session[p].status = "none"
                             \/ session[p].status = "driver_found" /\ session[p].matched = e
                             \/ \E x \in Reqs : /\ req'[x].pc \in {"busy", "match"}
                                                /\ req'[x].driver = e /\ req'[x].order = p
        BY <1>3 DEF LockInv
      <3>1. CASE e = d
        BY <1>1, <1>2, <2>2, <2>3, <3>1 DEF TypeOK
      <3>2. CASE e # d
        <4>1. lock[e] = p
          BY <1>1, <2>3, <3>2 DEF TypeOK
        <4>2. \A x \in Reqs : req[x].driver = e => req'[x] = req[x]
          BY <2>2, <3>2
        <4> QED
          BY <4>1, <4>2 DEF LockInv
      <3> QED
        BY <3>1, <3>2
    <2>7. OneDriverPerOrder'
      BY <1>1, <2>3, <2>4 DEF OneDriverPerOrder, TypeOK
    <2> QED
      BY <1>4, <2>5, <2>6, <2>7
  <1> QED
    BY <1>5, <1>6

LEMMA GoesOnStep ==
  ASSUME TypeOK, Orderly, Coherent, NEW r \in Reqs, SetBusy(r) \/ MarkRejected(r)
  PROVE  Coherent'
  <1> USE DEF Coherent, SetBusy, MarkRejected, offers, history
  <1>1. UNCHANGED <<session, lapsed, task, rounds, lock>>
    OBVIOUS
  <1>2. /\ \A x \in Reqs \ {r} : req'[x] = req[x]
        /\ \/ req[r].pc = "busy" /\ req'[r].pc = "match"
           \/ req[r].pc = "reject" /\ req'[r].pc = "unset"
        /\ req'[r].driver = req[r].driver /\ req'[r].order = req[r].order
        /\ req'[r].sess = req[r].sess
    BY DEF TypeOK, Requests, Goto
  <1>3. LoopInv'
    BY <1>1 DEF LoopInv
  <1>4. AnswerInv'
    BY <1>1, <1>2 DEF AnswerInv, Answers
  <1>5. LockInv'
    BY <1>1, <1>2 DEF LockInv
  <1> QED
    BY <1>1, <1>3, <1>4, <1>5 DEF OneDriverPerOrder

(* The answer is written: the session it was given to is still the same.     *)
LEMMA AnswerStep ==
  ASSUME TypeOK, Orderly, Coherent, NEW r \in Reqs, MarkMatched(r) \/ UnsetCandidate(r)
  PROVE  Coherent'
  <1> USE DEF Coherent
  <1> DEFINE d == req[r].driver
             o == req[r].order
  <1>1. d \in Drivers /\ o \in Orders /\ req[r].pc \in {"match", "unset"}
    BY DEF TypeOK, Addressed, Answers, Cancelling, MarkMatched, UnsetCandidate
  <1>2. /\ task[o].pc = "sleep" /\ session[o].status = "searching" /\ req[r].sess = session[o]
        /\ session[o].cand = d
        /\ \A s \in Reqs : req[s].pc \in Answers /\ req[s].order = o => s = r
    BY <1>1 DEF AnswerInv, Answers
  <1>3. UNCHANGED <<lapsed, task, rounds, lock>> /\ req' = [req EXCEPT ![r] = Idle]
    BY DEF MarkMatched, UnsetCandidate, history, End
  <1>4. session[o] \in Sessions
    BY <1>1 DEF TypeOK
  <1>5. \A p \in Orders \ {o} : session'[p] = session[p]
    BY <1>1 DEF TypeOK, MarkMatched, UnsetCandidate
  <1>6. /\ session'[o].tried = session[o].tried
        /\ \/ session'[o].status = "driver_found" /\ session'[o].matched = d
           \/ session'[o].status = "searching" /\ req[r].pc = "unset"
    <2>1. CASE MarkMatched(r)
      <3>1. session'[o] = [session[o] EXCEPT !.status = "driver_found", !.matched = d]
        BY <1>1, <1>2, <2>1 DEF TypeOK, MarkMatched
      <3> QED
        BY <1>4, <3>1 DEF Sessions
    <2>2. CASE UnsetCandidate(r)
      <3>1. session'[o] = [session[o] EXCEPT !.cand = None]
        BY <1>1, <1>2, <2>2 DEF TypeOK, UnsetCandidate
      <3> QED
        BY <1>2, <1>4, <2>2, <3>1 DEF Sessions, UnsetCandidate
    <2> QED
      BY <2>1, <2>2
  <1>7. LoopInv'
    BY <1>2, <1>3, <1>5, <1>6 DEF LoopInv
  <1>8. AnswerInv'
    <2> SUFFICES ASSUME NEW s \in Reqs, req'[s].pc \in Answers
                 PROVE  /\ s # r /\ req'[s] = req[s] /\ req[s].order # o
                        /\ req[s].order \in Orders
      BY <1>3, <1>5 DEF AnswerInv, TypeOK
    <2> QED
      BY <1>1, <1>2, <1>3, IdleSlot DEF TypeOK, Addressed, Answers, Cancelling
  <1>9. LockInv'
    <2> SUFFICES ASSUME NEW e \in Drivers, NEW p \in Orders, lock[e] = p
                 PROVE  \/ session'[p].status = "none"
                        \/ session'[p].status = "driver_found" /\ session'[p].matched = e
                        \/ \E x \in Reqs : /\ req'[x].pc \in {"busy", "match"}
                                           /\ req'[x].driver = e /\ req'[x].order = p
      BY <1>3 DEF LockInv
    <2>1. CASE p = o
      BY <1>1, <1>2, <1>6, <2>1 DEF LockInv, Answers
    <2>2. CASE p # o
      BY <1>3, <1>5, <2>2 DEF LockInv, TypeOK
    <2> QED
      BY <2>1, <2>2
  <1> QED
    BY <1>3, <1>7, <1>8, <1>9 DEF OneDriverPerOrder

(* The loop: while it is not asleep no answer is in flight, and it wakes     *)
(* only when there is none.                                                  *)
LEMMA LoopStep ==
  ASSUME TypeOK, Orderly, Coherent, NEW o \in Orders,
         StartDispatch(o) \/ Dispatch(o) \/ SessionExpires(o)
  PROVE  Coherent'
  <1> USE DEF Coherent, offers, history, presence, TaskGoto
  <1>1. UNCHANGED <<req, lock>>
    BY DEF StartDispatch, Dispatch, SessionExpires, CreateSession, PickNextCandidate, Publish, Lapse, Wake,
           GiveUp
  <1>2. /\ task[o] \in [pc : TaskPcs, sess : Sessions] /\ task[o].sess \in Sessions
        /\ session[o] \in Sessions /\ rounds[o] \in Nat /\ MaxRounds \in Nat \ {0}
    BY MatchingAssumption DEF TypeOK
  <1>3. \A p \in Orders \ {o} : /\ task'[p] = task[p] /\ session'[p] = session[p]
                                /\ lapsed'[p] = lapsed[p] /\ rounds'[p] = rounds[p]
    BY DEF TypeOK, StartDispatch, Dispatch, SessionExpires, CreateSession, PickNextCandidate, Publish, Lapse,
           Wake, GiveUp
  <1>4. \A r \in Reqs : req[r].pc \in Answers => req[r].order \in Orders
    BY DEF TypeOK, Addressed, Answers, Cancelling
  <1>5. CASE Lapse(o)
    <2>1. UNCHANGED <<task, session, rounds>> /\ task[o].pc = "sleep"
      BY <1>5 DEF Lapse, Orderly
    <2> QED
      BY <1>1, <1>3, <2>1 DEF LoopInv, AnswerInv, LockInv, OneDriverPerOrder
  <1>6. CASE ~Lapse(o)
    <2>1. \A r \in Reqs : req[r].pc \in Answers => req[r].order # o
      BY <1>6 DEF AnswerInv, StartDispatch, Dispatch, SessionExpires, CreateSession, PickNextCandidate,
             Publish, Wake, GiveUp, Answering, Orderly
    <2>2. AnswerInv'
      BY <1>1, <1>3, <1>4, <2>1 DEF AnswerInv
    <2>3. LockInv' /\ LoopInv'
      <3>1. \A d \in Drivers : lock[d] = o => /\ task[o].pc \notin {"new", "create"}
                                              /\ \/ session[o].status = "none"
                                                 \/ session[o].status = "driver_found" /\ session[o].matched = d
        BY <2>1 DEF LockInv, Answers
      <3> SUFFICES /\ \A d \in Drivers : lock[d] = o =>
                        /\ task'[o].pc \notin {"new", "create"}
                        /\ \/ session'[o].status = "none"
                           \/ session'[o].status = "driver_found" /\ session'[o].matched = d
                   /\ LoopInv'
        BY <1>1, <1>3 DEF LockInv
      <3>2. CASE StartDispatch(o)
        BY <1>2, <1>3, <3>1, <3>2 DEF StartDispatch, LoopInv, TypeOK
      <3>3. CASE CreateSession(o)
        BY <1>2, <1>3, <3>1, <3>3 DEF CreateSession, LoopInv, TypeOK, NoSession
      <3>4. CASE PickNextCandidate(o)
        <4>1. UNCHANGED <<session, lapsed, rounds>> /\ task[o].pc \in {"first", "pick"}
          BY <3>4 DEF PickNextCandidate
        <4>2. ASSUME NEW d \in Drivers,
                     task' = [task EXCEPT ![o] = [pc |-> "publish", sess |-> Offered(task[o].sess, d)]]
              PROVE  LoopInv'
          <5>1. task'[o].pc = "publish" /\ task'[o].sess = Offered(task[o].sess, d)
            BY <4>2 DEF TypeOK
          <5>2. /\ task'[o].sess.status = "searching" /\ task'[o].sess.cand \in Drivers
                /\ task'[o].sess.tried = rounds[o] + 1 /\ rounds[o] + 1 <= MaxRounds
            BY <1>2, <4>1, <5>1 DEF LoopInv, Offered, Sessions
          <5> QED
            BY <1>2, <1>3, <4>1, <5>1, <5>2 DEF LoopInv
        <4>3. ASSUME TaskGoto(o, IF task[o].pc = "first" THEN "sleep" ELSE "giveup")
              PROVE  LoopInv'
          <5>1. /\ task'[o].pc = IF task[o].pc = "first" THEN "sleep" ELSE "giveup"
                /\ task'[o].sess = task[o].sess
            BY <1>2, <4>3 DEF TypeOK
          <5> QED
            BY <1>2, <1>3, <4>1, <5>1 DEF LoopInv
        <4>4. LoopInv'
          BY <3>4, <4>2, <4>3 DEF PickNextCandidate, Eligible, TypeOK
        <4>5. task'[o].pc \notin {"new", "create"}
          BY <1>2, <3>4 DEF PickNextCandidate, TypeOK
        <4> QED
          BY <3>1, <4>1, <4>4, <4>5
      <3>5. CASE Publish(o)
        BY <1>2, <1>3, <3>1, <3>5 DEF Publish, LoopInv, TypeOK
      <3>6. CASE Wake(o)
        BY <1>2, <1>3, <3>1, <3>6 DEF Wake, LoopInv, TypeOK, Searching, RoundsUsed
      <3>7. CASE GiveUp(o)
        BY <1>2, <1>3, <3>1, <3>7 DEF GiveUp, LoopInv, TypeOK, Sessions
      <3>8. CASE SessionExpires(o)
        BY <1>2, <1>3, <3>1, <3>8 DEF SessionExpires, LoopInv, TypeOK, NoSession
      <3> QED
        BY <1>6, <3>2, <3>3, <3>4, <3>5, <3>6, <3>7, <3>8 DEF Dispatch
    <2> QED
      BY <1>1, <2>2, <2>3 DEF OneDriverPerOrder
  <1> QED
    BY <1>5, <1>6

LEMMA OrderlyStep == TypeOK /\ NoCancels /\ Orderly /\ Coherent /\ [Next]_vars => Coherent'
  <1> SUFFICES ASSUME TypeOK, NoCancels, Orderly, Coherent, [Next]_vars PROVE Coherent'
    OBVIOUS
  <1>1. "cancel" \notin Env /\ "error" \notin Env /\ ~Crash /\ \A r \in Reqs : req[r].pc \notin Cancelling
    BY DEF Orderly, NoCancels, Crash
  <1>2. ASSUME NEW r \in Reqs, Arrive(r) PROVE Coherent'
    BY <1>1, <1>2, PresenceStep, RespondStep DEF Arrive, CancelDispatch
  <1>3. ASSUME NEW r \in Reqs, Handle(r) PROVE Coherent'
    BY <1>1, <1>3, PresenceStep, ClaimStep, GoesOnStep, AnswerStep
    DEF Handle, UpdateSessionFails, SetCancelled, FreeCandidate, DeleteSession, Cancelling
  <1>4. ASSUME NEW o \in Orders, StartDispatch(o) \/ Dispatch(o) \/ SessionExpires(o) PROVE Coherent'
    BY <1>4, LoopStep
  <1>5. CASE UNCHANGED <<lock, session, lapsed, task, rounds, req>>
    BY <1>5, QuietStep
  <1>6. ASSUME NEW d \in Drivers, StatusExpires(d) PROVE Coherent'
    BY <1>5, <1>6 DEF StatusExpires, offers, history
  <1>7. CASE UNCHANGED vars
    BY <1>5, <1>7 DEF vars, offers, history
  <1> QED
    BY <1>1, <1>2, <1>3, <1>4, <1>6, <1>7 DEF Next

LEMMA InitIInv == Init => IInv
  <1> SUFFICES ASSUME Init PROVE IInv
    OBVIOUS
  <1>1. TypeOK
    BY InitTypeOK
  <1>2. NoCancels /\ HeldIsLocked
    BY IdleSlot DEF Init, NoCancels, HeldIsLocked, Cancelling
  <1>3. LoopInv
    BY MatchingAssumption DEF Init, LoopInv, NoSession
  <1>4. AnswerInv /\ LockInv /\ OneDriverPerOrder
    BY IdleSlot, MatchingAssumption DEF Init, AnswerInv, LockInv, OneDriverPerOrder, Answers
  <1> QED
    BY <1>1, <1>2, <1>3, <1>4 DEF IInv

LEMMA NextIInv == IInv /\ [Next]_vars => IInv'
  BY NextType, CancelsStep, HeldStep, OrderlyStep DEF IInv, Coherent, Orderly

(* Theorem: the inductive invariant holds in every reachable state.          *)
THEOREM Invariance == Spec => []IInv
  BY InitIInv, NextIInv, PTL DEF Spec

(* Theorem: without cancels a driver who claimed an order keeps its lock     *)
(* until FreeDriver or GoOffline releases it, whatever else fails, dies,     *)
(* expires or interleaves.                                                   *)
THEOREM LocksSafe == Spec => []HeldIsLocked
  <1>1. IInv => HeldIsLocked
    BY DEF IInv
  <1> QED
    BY <1>1, Invariance, PTL

(* Theorem: with orderly answers an order is claimed by one driver at most.  *)
THEOREM AssignmentSafe == Spec => []OneDriverPerOrder
  <1>1. IInv => OneDriverPerOrder
    BY DEF IInv, OneDriverPerOrder
  <1> QED
    BY <1>1, Invariance, PTL

(* Theorem: with orderly answers nobody is offered an order after its last   *)
(* round.                                                                    *)
THEOREM RoundsSafe == Spec => []RoundsBounded
  <1>1. IInv => RoundsBounded
    BY DEF IInv, RoundsBounded, LoopInv
  <1> QED
    BY <1>1, Invariance, PTL

(* Theorem: with orderly answers a matched session is never written again.   *)
THEOREM MatchSafe == Spec => MatchFinal
  <1>1. ASSUME IInv, [Next]_vars, Orderly, NEW o \in Orders, session[o].status = "driver_found"
        PROVE  session'[o] = session[o] \/ (session'[o] = NoSession /\ "expiry" \in Env)
    <2> USE DEF IInv, offers, history
    <2>1. TypeOK /\ NoCancels /\ LoopInv /\ AnswerInv
      BY <1>1
    <2>2. CASE UNCHANGED session
      BY <2>2
    <2>3. ASSUME NEW r \in Reqs, Arrive(r) PROVE UNCHANGED session
      BY <2>3 DEF Arrive, GoOnline, GoOffline, UpdateLocation, FreeDriver, Respond, CancelDispatch
    <2>4. ASSUME NEW r \in Reqs, MarkMatched(r) \/ UnsetCandidate(r) PROVE session'[o] = session[o]
      <3>1. session[req[r].order].status = "searching"
        BY <2>1, <2>4 DEF MarkMatched, UnsetCandidate, AnswerInv, Answers
      <3> QED
        BY <1>1, <2>1, <2>4, <3>1 DEF MarkMatched, UnsetCandidate, TypeOK
    <2>5. ASSUME NEW r \in Reqs, Handle(r), ~MarkMatched(r), ~UnsetCandidate(r) PROVE UNCHANGED session
      <3>1. req[r].pc \notin Cancelling
        BY <1>1, <2>1 DEF NoCancels, Orderly
      <3> QED
        BY <2>5, <3>1
        DEF Handle, SetOnline, DeleteStatus, ClearActiveOrder, UpdateDriverLocation, SetFree,
            SetActiveOrder, SetBusy, MarkRejected, UpdateSessionFails, SetCancelled,
            FreeCandidate, DeleteSession, Cancelling
    <2>6. ASSUME NEW p \in Orders, CreateSession(p) \/ Publish(p) \/ GiveUp(p)
          PROVE  session'[o] = session[o]
      <3>1. session[p].status # "driver_found"
        BY <2>1, <2>6 DEF CreateSession, Publish, GiveUp, LoopInv
      <3> QED
        BY <1>1, <2>1, <2>6, <3>1 DEF CreateSession, Publish, GiveUp, TypeOK
    <2>7. ASSUME NEW p \in Orders, SessionExpires(p)
          PROVE  session'[o] = session[o] \/ (session'[o] = NoSession /\ "expiry" \in Env)
      BY <2>1, <2>7 DEF SessionExpires, TypeOK
    <2>8. ASSUME NEW p \in Orders, StartDispatch(p) \/ PickNextCandidate(p) \/ Lapse(p) \/ Wake(p)
          PROVE  UNCHANGED session
      BY <2>8 DEF StartDispatch, PickNextCandidate, Lapse, Wake
    <2>9. ASSUME NEW d \in Drivers, StatusExpires(d) PROVE UNCHANGED session
      BY <2>9 DEF StatusExpires
    <2>10. ~Crash
      BY <1>1 DEF Orderly, Crash
    <2> QED
      BY <1>1, <2>2, <2>3, <2>4, <2>5, <2>6, <2>7, <2>8, <2>9, <2>10 DEF Next, Dispatch, vars
  <1>2. IInv /\ [Next]_vars =>
          [Orderly => \A o \in Orders : session[o].status = "driver_found" =>
              \/ session'[o] = session[o]
              \/ session'[o] = NoSession /\ "expiry" \in Env]_vars
    BY <1>1
  <1> QED
    BY <1>2, Invariance, PTL DEF Spec, MatchFinal
=============================================================================
