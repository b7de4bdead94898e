---------------------------- MODULE Notification ----------------------------
(***************************************************************************)
(* notification-service: one user's preferences, one event's templates.    *)
(* Both are changed by reading the row, changing some columns of the copy  *)
(* and writing all of them back.  A preference row that cannot be read     *)
(* counts as the defaults when it is changed, and as no objection when a   *)
(* notification is sent.                                                   *)
(***************************************************************************)
EXTENDS Naturals

CONSTANTS Reqs, Channels,
          MaxRequests,  \* bound on the requests that arrive
          Faults        \* TRUE: statements fail, the process dies

VARIABLES prefs,        \* prefs[c]: channel c enabled; the defaults when there is no row
          template,     \* template[c]: "none", "active" or "inactive"
          wish,         \* history: what the user last asked of each channel
          spoiled,      \* history: channels a stale or failed read has set
          unwanted,     \* history: channels sent on, not critical, against the wish of the time
          offline,      \* history: channels whose template an administrator took down
          stale,        \* history: channels whose template a stale copy put back
          noteJob, noteArrived
noteVars == <<prefs, template, wish, spoiled, unwanted, offline, stale, noteJob, noteArrived>>

Idle == [op |-> "none"]
Defaults == [c \in Channels |-> TRUE]
States == {"none", "active", "inactive"}

TypeOK ==
    /\ prefs \in [Channels -> BOOLEAN] /\ wish \in [Channels -> BOOLEAN]
    /\ template \in [Channels -> States]
    /\ spoiled \subseteq Channels /\ unwanted \subseteq Channels
    /\ offline \subseteq Channels /\ stale \subseteq Channels
    /\ \A r \in Reqs : noteJob[r].op \in {"none", "prefs", "create", "update", "find", "log"}

Init == /\ prefs = Defaults /\ wish = Defaults /\ template = [c \in Channels |-> "none"]
        /\ spoiled = {} /\ unwanted = {} /\ offline = {} /\ stale = {}
        /\ noteJob = [r \in Reqs |-> Idle] /\ noteArrived = 0

Begin(r, job) == /\ noteJob[r] = Idle /\ noteArrived < MaxRequests /\ noteArrived' = noteArrived + 1
                 /\ noteJob' = [noteJob EXCEPT ![r] = job]
End(r) == noteJob' = [noteJob EXCEPT ![r] = Idle]

-----------------------------------------------------------------------------
(* Preferences. *)

(* Mutant: the request is laid over the defaults. *)
OverDefaults(row) == Defaults
OverRow(row) == row

(* With or without a row, and also when the row cannot be read. *)
UpdatePreferences(r, c, on) ==
    /\ \/ Begin(r, [op |-> "prefs", channel |-> c, row |-> [OverRow(prefs) EXCEPT ![c] = on],
                    seen |-> prefs, failed |-> FALSE])
       \/ /\ Faults
          /\ Begin(r, [op |-> "prefs", channel |-> c, row |-> [Defaults EXCEPT ![c] = on],
                       seen |-> prefs, failed |-> TRUE])
    /\ UNCHANGED <<prefs, template, wish, spoiled, unwanted, offline, stale>>

UpsertPreferences(r) ==
    LET q == noteJob[r] IN
    /\ q.op = "prefs" /\ End(r)
    /\ prefs' = q.row
    /\ wish' = [wish EXCEPT ![q.channel] = q.row[q.channel]]
    /\ spoiled' = (spoiled \cup {c \in Channels : q.failed \/ q.seen[c] # prefs[c]}) \ {q.channel}
    /\ UNCHANGED <<template, unwanted, offline, stale, noteArrived>>

-----------------------------------------------------------------------------
(* Templates. *)

(* No active template was found. *)
CreateTemplate(r, c) ==
    /\ template[c] # "active" /\ Begin(r, [op |-> "create", channel |-> c])
    /\ UNCHANGED <<prefs, template, wish, spoiled, unwanted, offline, stale>>

(* Mutant: a unique index over the active templates only. *)
NoneActive(s) == s # "active"
(* The unique index counts inactive templates too. *)
NoneAtAll(s) == s = "none"
InsertTemplate(r) ==
    LET c == noteJob[r].channel IN
    /\ noteJob[r].op = "create" /\ End(r)
    /\ template' = IF NoneAtAll(template[c]) THEN [template EXCEPT ![c] = "active"] ELSE template
    /\ UNCHANGED <<prefs, wish, spoiled, unwanted, offline, stale, noteArrived>>

(* With is_active in the request, or without. *)
UpdateTemplate(r, c) ==
    /\ template[c] # "none"
    /\ \/ \E s \in {"active", "inactive"} :
            Begin(r, [op |-> "update", channel |-> c, state |-> s, asked |-> TRUE])
       \/ Begin(r, [op |-> "update", channel |-> c, state |-> template[c], asked |-> FALSE])
    /\ UNCHANGED <<prefs, template, wish, spoiled, unwanted, offline, stale>>

SaveTemplate(r) ==
    LET q == noteJob[r] c == q.channel IN
    /\ q.op = "update" /\ End(r)
    /\ template' = [template EXCEPT ![c] = q.state]
    /\ offline' = IF ~q.asked THEN offline
                  ELSE IF q.state = "inactive" THEN offline \cup {c} ELSE offline \ {c}
    /\ stale' = IF q.asked THEN stale \ {c}
                ELSE IF q.state # template[c] THEN stale \cup {c} ELSE stale
    /\ UNCHANGED <<prefs, wish, spoiled, unwanted, noteArrived>>

DeactivateTemplate(c) ==
    /\ template[c] # "none"
    /\ template' = [template EXCEPT ![c] = "inactive"]
    /\ offline' = offline \cup {c} /\ stale' = stale \ {c}
    /\ UNCHANGED <<prefs, wish, spoiled, unwanted, noteJob, noteArrived>>

-----------------------------------------------------------------------------
(* Sending. *)

(* Mutant: any priority overrides the user's choice. *)
Anyway(enabled, critical) == TRUE
Wanted(enabled, critical) == enabled \/ critical

(* A preference that cannot be read does not stop it; with both overrides    *)
(* the template is not looked up.                                            *)
SendNotification(r, c, critical, overrides) ==
    /\ \/ Wanted(prefs[c], critical) \/ Faults
    /\ Begin(r, [op |-> IF overrides THEN "log" ELSE "find", channel |-> c,
                 against |-> ~critical /\ ~wish[c],
                 excused |-> c \in spoiled \/ ~Wanted(prefs[c], critical)])
    /\ UNCHANGED <<prefs, template, wish, spoiled, unwanted, offline, stale>>

FindTemplate(r) ==
    LET q == noteJob[r] IN
    /\ q.op = "find"
    /\ IF template[q.channel] = "active" THEN noteJob' = [noteJob EXCEPT ![r].op = "log"] ELSE End(r)
    /\ UNCHANGED <<prefs, template, wish, spoiled, unwanted, offline, stale, noteArrived>>

(* The log row is all there is of a notification. *)
CreateNotificationLog(r) ==
    LET q == noteJob[r] IN
    /\ q.op = "log" /\ End(r)
    /\ unwanted' = IF q.against /\ ~q.excused THEN unwanted \cup {q.channel} ELSE unwanted
    /\ UNCHANGED <<prefs, template, wish, spoiled, offline, stale, noteArrived>>

-----------------------------------------------------------------------------
Die(r) == /\ Faults /\ noteJob[r] # Idle /\ End(r)
          /\ UNCHANGED <<prefs, template, wish, spoiled, unwanted, offline, stale, noteArrived>>

Requests(r) ==
    \E c \in Channels :
      \/ \E on \in BOOLEAN : UpdatePreferences(r, c, on)
      \/ CreateTemplate(r, c) \/ UpdateTemplate(r, c)
      \/ \E critical, overrides \in BOOLEAN : SendNotification(r, c, critical, overrides)

Next == \/ \E c \in Channels : DeactivateTemplate(c)
        \/ \E r \in Reqs : \/ Requests(r) \/ UpsertPreferences(r) \/ InsertTemplate(r)
                           \/ SaveTemplate(r) \/ FindTemplate(r) \/ CreateNotificationLog(r)
                           \/ Die(r)
Spec == Init /\ [][Next]_noteVars

-----------------------------------------------------------------------------
(* Properties *)

(* The stored preferences are what the user last asked of every channel,     *)
(* but for the channels a stale copy or a failed read has written over.      *)
WishKept == \A c \in Channels : c \notin spoiled => prefs[c] = wish[c]

(* A channel that the user had closed gets no notification that is not       *)
(* critical, unless its preference was lost or could not be read.            *)
MutedHolds == unwanted = {}

(* A template an administrator took down stays down until one puts it up or  *)
(* a copy read before that is saved; creating it again does not.             *)
TakenDownHolds == \A c \in offline \ stale : template[c] = "inactive"

(* Together: preferences are what the user asked for and sends obey them,    *)
(* and a template taken down stays down.                                     *)
NotificationSafe == TypeOK /\ WishKept /\ MutedHolds /\ TakenDownHolds
=============================================================================
