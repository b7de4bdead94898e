-------------------------------- MODULE Email --------------------------------
(***************************************************************************)
(* email-service.  A goroutine hands the mail to the provider while the    *)
(* handler stores two Redis keys for seven days: an id of its own making   *)
(* under the name provider_id, which leads to the log, then the log.  A    *)
(* webhook that names that id reads the log, changes it and stores both    *)
(* again.  The provider is never told the id: what it reports by its own   *)
(* is not found, and only who read the id from the status answer (the      *)
(* repository's functional test does) can report a delivery.               *)
(***************************************************************************)
EXTENDS Naturals

CONSTANTS Reqs,
          Emails,       \* the ids SendEmail draws
          MaxRequests,  \* bound on the requests that arrive
          Faults        \* TRUE: Redis commands and the provider fail, the process dies

VARIABLES mailIds,      \* the ids drawn so far
          sending,      \* emails whose goroutine has not called the provider yet
          mailed,       \* emails the provider accepted
          mapped,       \* emails found by their provider_id
          keyGone,      \* history: emails whose provider_id has expired
          idShown,        \* history: emails whose provider_id a status answer could show
          log,          \* log[e]: NoLog, or its status and whether delivered_at is set
          failed,       \* history: emails whose provider_id could not be stored
          heard,        \* history: emails in whose log a delivery was stored
          raced,        \* history: emails whose log was stored from a stale copy
          mailJob, mailArrived
mailVars == <<mailIds, sending, mailed, mapped, keyGone, idShown, log, failed, heard, raced,
              mailJob, mailArrived>>

NoLog == [status |-> "none", at |-> FALSE]
Queued == [status |-> "queued", at |-> FALSE]
Logs == {NoLog} \cup [status : {"queued", "sent", "delivered", "bounced", "spam"}, at : BOOLEAN]
Idle == [op |-> "none"]

TypeOK ==
    /\ \A S \in {mailIds, sending, mailed, mapped, keyGone, idShown, failed, heard, raced} :
          S \subseteq Emails
    /\ log \in [Emails -> Logs]
    /\ \A r \in Reqs : mailJob[r].op \in {"none", "find", "map", "log"}

Init == /\ mailIds = {} /\ sending = {} /\ mailed = {} /\ mapped = {} /\ keyGone = {}
        /\ idShown = {} /\ log = [e \in Emails |-> NoLog]
        /\ failed = {} /\ heard = {} /\ raced = {}
        /\ mailJob = [r \in Reqs |-> Idle] /\ mailArrived = 0

Begin(r, job) == /\ mailJob[r] = Idle /\ mailArrived < MaxRequests /\ mailArrived' = mailArrived + 1
                 /\ mailJob' = [mailJob EXCEPT ![r] = job]
Then(r, op) == mailJob' = [mailJob EXCEPT ![r] = IF op = "none" THEN Idle ELSE [@ EXCEPT !.op = op]]

(* Mutant: the log is stored before the key that leads to it. *)
LogFirst(op) == CASE op = "start" -> "log" [] op = "log" -> "map" [] OTHER -> "none"
(* The order of SaveEmailLog. *)
After(op) == CASE op = "start" -> "map" [] op = "map" -> "log" [] OTHER -> "none"

-----------------------------------------------------------------------------
(* The template was found.  The Idempotency-Key is not used: a retry is      *)
(* another email.                                                            *)
SendEmail(r, e) ==
    /\ e \notin mailIds /\ mailIds' = mailIds \cup {e}
    /\ Begin(r, [op |-> After("start"), email |-> e, seen |-> NoLog, new |-> Queued])
    /\ sending' = sending \cup {e}
    /\ UNCHANGED <<mailed, mapped, keyGone, idShown, log, failed, heard, raced>>

(* acs.SendEmail: an error is logged, and the email stays queued. *)
CallProvider(e) ==
    /\ e \in sending /\ sending' = sending \ {e}
    /\ \/ mailed' = mailed \cup {e}
       \/ Faults /\ UNCHANGED mailed
    /\ UNCHANGED <<mailIds, mapped, keyGone, idShown, log, failed, heard, raced, mailJob,
                   mailArrived>>

(* The error of this command is not looked at. *)
SetProviderKey(r) ==
    LET e == mailJob[r].email IN
    /\ mailJob[r].op = "map" /\ Then(r, After("map"))
    /\ \/ /\ mapped' = mapped \cup {e} /\ keyGone' = keyGone \ {e}
          /\ UNCHANGED failed
       \/ Faults /\ failed' = failed \cup {e} /\ UNCHANGED <<mapped, keyGone>>
    /\ UNCHANGED <<mailIds, sending, mailed, idShown, log, heard, raced, mailArrived>>

SetLog(r) ==
    LET q == mailJob[r] e == q.email IN
    /\ q.op = "log" /\ Then(r, After("log"))
    /\ log' = [log EXCEPT ![e] = q.new] /\ idShown' = idShown \cup {e}
    /\ heard' = IF q.new.status = "delivered" THEN heard \cup {e} ELSE heard
    /\ raced' = IF q.seen # log[e] THEN raced \cup {e} ELSE raced
    /\ UNCHANGED <<mailIds, sending, mailed, mapped, keyGone, failed, mailArrived>>

(* Seven days after the last store of the key. *)
ProviderKeyExpires(e) ==
    /\ e \in mapped /\ mapped' = mapped \ {e} /\ keyGone' = keyGone \cup {e}
    /\ UNCHANGED <<mailIds, sending, mailed, idShown, log, failed, heard, raced, mailJob,
                   mailArrived>>

LogExpires(e) ==
    /\ log[e] # NoLog /\ log' = [log EXCEPT ![e] = NoLog] /\ heard' = heard \ {e}
    /\ UNCHANGED <<mailIds, sending, mailed, mapped, keyGone, idShown, failed, raced, mailJob,
                   mailArrived>>

-----------------------------------------------------------------------------
(* Mutant: an event makes a new record. *)
NewRecord(copy, s) == [status |-> s, at |-> (s = "delivered")]
Changed(copy, s) == [status |-> s, at |-> copy.at \/ s = "delivered"]

(* Who read the provider_id reports an event of the mail, sent or not: the   *)
(* key is found, or the event is answered like any other.                    *)
HandleWebhook(r, e, s) ==
    /\ e \in idShown
    /\ \/ /\ e \in mapped
          /\ Begin(r, [op |-> "find", email |-> e, seen |-> NoLog,
                       new |-> [status |-> s, at |-> FALSE]])
       \/ /\ e \notin mapped /\ mailArrived < MaxRequests /\ mailArrived' = mailArrived + 1
          /\ UNCHANGED mailJob
    /\ UNCHANGED <<mailIds, sending, mailed, mapped, keyGone, idShown, log, failed, heard, raced>>

(* The provider reports on a mail it accepted, by an id of its own.          *)
ProviderReports(e) ==
    /\ e \in mailed /\ mailArrived < MaxRequests /\ mailArrived' = mailArrived + 1
    /\ UNCHANGED <<mailIds, sending, mailed, mapped, keyGone, idShown, log, failed, heard, raced,
                   mailJob>>

GetEmailStatus(r) ==
    LET q == mailJob[r] e == q.email IN
    /\ q.op = "find"
    /\ mailJob' = [mailJob EXCEPT ![r] =
          IF log[e] = NoLog THEN Idle
          ELSE [op |-> After("start"), email |-> e, seen |-> log[e],
                new |-> Changed(log[e], q.new.status)]]
    /\ UNCHANGED <<mailIds, sending, mailed, mapped, keyGone, idShown, log, failed, heard, raced,
                   mailArrived>>

Die(r) == /\ Faults /\ mailJob[r] # Idle /\ Then(r, "none")
          /\ UNCHANGED <<mailIds, sending, mailed, mapped, keyGone, idShown, log, failed, heard,
                         raced, mailArrived>>

Next == \/ \E e \in Emails : \/ CallProvider(e) \/ ProviderReports(e)
                            \/ ProviderKeyExpires(e) \/ LogExpires(e)
        \/ \E r \in Reqs : \/ \E e \in Emails : SendEmail(r, e)
                           \/ \E e \in Emails, s \in {"sent", "delivered", "bounced", "spam"} :
                                HandleWebhook(r, e, s)
                           \/ GetEmailStatus(r) \/ SetProviderKey(r) \/ SetLog(r) \/ Die(r)
Spec == Init /\ [][Next]_mailVars

-----------------------------------------------------------------------------
(* Properties *)

(* Wherever the process stops, a log that its own provider_id does not lead  *)
(* to has one that could not be stored or has expired.                       *)
LogReachable == \A e \in Emails : log[e] # NoLog => e \in mapped \cup failed \cup keyGone

(* The time of a delivery that was stored outlives every later event, while  *)
(* the log lives, but for events whose handlers overlap.                     *)
DeliveryKept == \A e \in heard \ raced : log[e].at

(* Together: every log can be found by its provider_id, and no event takes   *)
(* back the time of a delivery.                                              *)
EmailSafe == TypeOK /\ LogReachable /\ DeliveryKept
=============================================================================
