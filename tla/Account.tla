------------------------------ MODULE Account -------------------------------
(***************************************************************************)
(* user-service, the rows users keep about themselves: the profile, the    *)
(* driver's vehicle and the settings.  Rows are created after a look that  *)
(* finds none, and edited by saving a changed copy of the whole row.       *)
(***************************************************************************)
EXTENDS Naturals, FiniteSets

CONSTANTS Reqs, None, Users,
          Plates,       \* plate numbers that are sent
          Prefs,        \* fields of the settings
          MaxRequests,  \* bound on the requests that arrive
          Faults        \* TRUE: statements fail, the process dies

VARIABLES profiles,     \* profiles[u]: rows of user_profiles
          vehicles,     \* vehicles[u]: the driver's row, NoVehicle before there is one
          approved,     \* drivers whose row has verification_status 'verified'
          onDuty,       \* drivers whose row has is_online
          settings,     \* settings[u][f]: the request that set it, 0: the default
          chosen,       \* history: the last request that saved a value of a row's field
          overlapped,   \* history: rows that two requests edited at once
          revoked,      \* history: drivers who lost the status while online, or while a
                        \* request that may take them there was on its way
          accountJob, accountArrived
standing == <<approved, onDuty, revoked>>
accountVars == <<profiles, vehicles, settings, chosen, overlapped, standing, accountJob, accountArrived>>

Ids == 0..MaxRequests
Rows == {"vehicle", "settings"}
Fields == Prefs \cup {"colour"}
Idle == [op |-> "none", user |-> None]
NoVehicle == [plate |-> None, colour |-> 0]

TypeOK ==
    /\ profiles \in [Users -> Nat]
    /\ vehicles \in [Users -> [plate : Plates \cup {None}, colour : Ids]]
    /\ approved \subseteq Users /\ onDuty \subseteq Users /\ revoked \subseteq Users
    /\ settings \in [Users -> [Prefs -> Ids]] /\ chosen \in [Users -> [Fields -> Ids]]
    /\ overlapped \subseteq Users \X Rows
    /\ \A r \in Reqs : accountJob[r].op \in {"none", "profile", "driver", "vehicle", "toggle", "settings"}

Init == /\ profiles = [u \in Users |-> 0] /\ vehicles = [u \in Users |-> NoVehicle]
        /\ settings = [u \in Users |-> [f \in Prefs |-> 0]]
        /\ chosen = [u \in Users |-> [f \in Fields |-> 0]] /\ overlapped = {}
        /\ approved = {} /\ onDuty = {} /\ revoked = {}
        /\ accountJob = [r \in Reqs |-> Idle] /\ accountArrived = 0

Stored == <<profiles, vehicles, settings, standing>>

Begin(r, job) ==
    /\ accountJob[r] = Idle /\ accountArrived < MaxRequests /\ accountArrived' = accountArrived + 1
    /\ accountJob' = [accountJob EXCEPT ![r] = job]
    /\ overlapped' = IF job.op \in Rows /\ \E s \in Reqs : accountJob[s].op = job.op /\ accountJob[s].user = job.user
                     THEN overlapped \cup {<<job.user, job.op>>} ELSE overlapped
    /\ UNCHANGED <<Stored, chosen>>
End(r) == accountJob' = [accountJob EXCEPT ![r] = Idle]

Chooses(u, fields, i) == chosen' = [chosen EXCEPT ![u] = [f \in Fields |-> IF f \in fields THEN i ELSE @[f]]]

-----------------------------------------------------------------------------
(* Rows that are created: a look that finds none, or that fails, and an      *)
(* INSERT that the UNIQUE columns judge.                                     *)

CreateProfile(r, u) ==
    /\ profiles[u] = 0 \/ Faults
    /\ Begin(r, [op |-> "profile", user |-> u])

CreateDriverProfile(r, u, p) ==
    /\ vehicles[u] = NoVehicle \/ Faults
    /\ Begin(r, [op |-> "driver", user |-> u, plate |-> p, id |-> accountArrived + 1])

(* Mutant: the tables have no UNIQUE user_id. *)
NoIndex(u) == TRUE
NoRow(u) == profiles[u] = 0

InsertProfile(r) ==
    LET u == accountJob[r].user IN
    /\ accountJob[r].op = "profile" /\ End(r)
    /\ profiles' = IF NoRow(u) THEN [profiles EXCEPT ![u] = @ + 1] ELSE profiles
    /\ UNCHANGED <<vehicles, settings, chosen, overlapped, standing, accountArrived>>

Taken(u, p) == \E v \in Users \ {u} : vehicles[v].plate = p

(* A new driver is pending and offline. *)
InsertDriverProfile(r) ==
    LET q == accountJob[r] u == q.user IN
    /\ q.op = "driver" /\ End(r)
    /\ IF vehicles[u] = NoVehicle /\ ~Taken(u, q.plate)
       THEN /\ vehicles' = [vehicles EXCEPT ![u] = [plate |-> q.plate, colour |-> q.id]]
            /\ approved' = approved \ {u} /\ onDuty' = onDuty \ {u}
            /\ Chooses(u, {"colour"}, q.id)
       ELSE UNCHANGED <<vehicles, approved, onDuty, chosen>>
    /\ UNCHANGED <<profiles, settings, overlapped, revoked, accountArrived>>

-----------------------------------------------------------------------------
(* Rows that are edited.  A field that is not sent keeps the copy's value.   *)

UpdateDriverProfile(r, u, p, paint) ==
    LET i == accountArrived + 1
        row == vehicles[u] IN
    /\ row # NoVehicle
    /\ Begin(r, [op |-> "vehicle", user |-> u, plate |-> IF p = None THEN row.plate ELSE p,
                 colour |-> IF paint THEN i ELSE row.colour, sent |-> IF paint THEN {"colour"} ELSE {}])

(* The six columns of the vehicle, unless another driver has the plate. *)
SaveDriverProfile(r) ==
    LET q == accountJob[r] u == q.user IN
    /\ q.op = "vehicle" /\ End(r)
    /\ IF Taken(u, q.plate) THEN UNCHANGED <<vehicles, chosen>>
       ELSE /\ vehicles' = [vehicles EXCEPT ![u].plate = q.plate, ![u].colour = q.colour]
            /\ Chooses(u, q.sent, q.colour)
    /\ UNCHANGED <<profiles, settings, overlapped, standing, accountArrived>>

(* Mutant: an empty row takes the place of the one that was read. *)
OverDefaults(row) == [f \in Prefs |-> 0]
(* The defaults only stand in for a row that is not there. *)
OverRow(row) == row

(* GetSettings, and the fields that are sent. *)
UpdateSettings(r, u, fields) ==
    LET i == accountArrived + 1 IN
    Begin(r, [op |-> "settings", user |-> u, id |-> i, sent |-> fields,
              copy |-> [f \in Prefs |-> IF f \in fields THEN i ELSE OverRow(settings[u])[f]]])

(* INSERT ... ON CONFLICT DO UPDATE of every column. *)
SaveSettings(r) ==
    LET q == accountJob[r] IN
    /\ q.op = "settings" /\ End(r)
    /\ settings' = [settings EXCEPT ![q.user] = q.copy]
    /\ Chooses(q.user, q.sent, q.id)
    /\ UNCHANGED <<profiles, vehicles, overlapped, standing, accountArrived>>

(* Mutant: any driver goes online. *)
AnyDriver(u, on) == TRUE
(* Only a verified driver goes online; anybody goes offline. *)
MayToggle(u, on) == u \in approved \/ ~on

(* The status is read first, is_online written later whatever the status is by then. *)
ToggleDriverOnline(r, u, on) ==
    /\ vehicles[u] # NoVehicle /\ MayToggle(u, on)
    /\ Begin(r, [op |-> "toggle", user |-> u, on |-> on])

GoingOnline(r, u) == accountJob[r].op = "toggle" /\ accountJob[r].user = u /\ accountJob[r].on

SaveOnline(r) ==
    LET q == accountJob[r] u == q.user IN
    /\ q.op = "toggle" /\ End(r)
    /\ onDuty' = IF q.on THEN onDuty \cup {u} ELSE onDuty \ {u}
    /\ revoked' = IF q.on \/ \E s \in Reqs \ {r} : GoingOnline(s, u) THEN revoked ELSE revoked \ {u}
    /\ UNCHANGED <<profiles, vehicles, settings, chosen, overlapped, approved, accountArrived>>

(* External: no handler writes verification_status, whoever runs the         *)
(* platform sets it in the table, and takes it back.                         *)
SetVerification(u) ==
    /\ vehicles[u] # NoVehicle
    /\ \/ approved' = approved \cup {u} /\ revoked' = revoked \ {u}
       \/ /\ approved' = approved \ {u}
          /\ revoked' = IF u \in onDuty \/ \E r \in Reqs : GoingOnline(r, u)
                        THEN revoked \cup {u} ELSE revoked
    /\ UNCHANGED <<profiles, vehicles, settings, onDuty, chosen, overlapped, accountJob, accountArrived>>

-----------------------------------------------------------------------------
Fail(r) == /\ Faults /\ accountJob[r] # Idle /\ End(r)
           /\ UNCHANGED <<Stored, chosen, overlapped, accountArrived>>

Requests(r, u) ==
    \/ CreateProfile(r, u)
    \/ \E p \in Plates : CreateDriverProfile(r, u, p)
    \/ \E p \in Plates \cup {None}, paint \in BOOLEAN : UpdateDriverProfile(r, u, p, paint)
    \/ \E fields \in SUBSET Prefs : UpdateSettings(r, u, fields)
    \/ \E on \in BOOLEAN : ToggleDriverOnline(r, u, on)

Next == \/ \E r \in Reqs :
            \/ \E u \in Users : Requests(r, u)
            \/ InsertProfile(r) \/ InsertDriverProfile(r) \/ SaveDriverProfile(r)
            \/ SaveSettings(r) \/ SaveOnline(r) \/ Fail(r)
        \/ \E u \in Users : SetVerification(u)
Spec == Init /\ [][Next]_accountVars

-----------------------------------------------------------------------------
(* Properties *)

(* Handlers that look at the same time leave one row, one plate per driver.  *)
OneRow == /\ \A u \in Users : profiles[u] <= 1
          /\ \A u, v \in Users : vehicles[u].plate = vehicles[v].plate => u = v \/ vehicles[u] = NoVehicle

(* A setting or a colour is the one last saved for it, though every edit     *)
(* writes the whole row, unless two edits of that row overlapped.            *)
EditsKept ==
    \A u \in Users :
        /\ <<u, "settings">> \in overlapped \/ \A f \in Prefs : settings[u][f] = chosen[u][f]
        /\ <<u, "vehicle">> \in overlapped \/ vehicles[u].colour = chosen[u]["colour"]

(* Who is online is verified, or lost the status while online or while a     *)
(* request that had already read it was about to write is_online; edits of   *)
(* the row and a registration, however they interleave, bring nobody online, *)
(* and who went offline after losing the status stays offline.               *)
OnlineVerified == \A u \in onDuty : u \in approved \/ u \in revoked

(* Together: one row each, edits are lost only to edits that overlap, and    *)
(* only a driver who was verified when it was checked is online.             *)
AccountSafe == TypeOK /\ OneRow /\ EditsKept /\ OnlineVerified
=============================================================================
