----------------------------- MODULE UserProfile -----------------------------
(***************************************************************************)
(* user-service, for one user: the profile and who referred it, the        *)
(* addresses and which is the default, the driver's documents.  A default  *)
(* is written with its address and made the only one by a transaction      *)
(* afterwards, whose error is dropped.                                     *)
(***************************************************************************)
EXTENDS Naturals, FiniteSets

CONSTANTS Reqs, None,
          Referrers,    \* users whose referral code is sent
          Addresses, Documents,
          MaxRequests,  \* bound on the requests that arrive
          Faults        \* TRUE: statements fail, the process dies

VARIABLES referredBy,
          referrals,    \* history: statements that set it
          addresses, defaults, \* the rows, and those with is_default
          unsettled,    \* history: defaults whose transaction did not run
          documents,    \* documents[d]: "none", "pending", "approved" or "rejected"
          judged,       \* history: documents an administrator decided on
          userJob, userArrived
userVars == <<referredBy, referrals, addresses, defaults, unsettled, documents, judged, userJob, userArrived>>

Idle == [op |-> "none", id |-> None, copy |-> None, default |-> FALSE]
Ops == {"none", "profile", "refer", "insert", "update", "default"}
Ids == Referrers \cup Addresses \cup {None}

TypeOK ==
    /\ referredBy \in Referrers \cup {None} /\ referrals \in Nat
    /\ defaults \subseteq addresses /\ addresses \subseteq Addresses /\ unsettled \subseteq defaults
    /\ documents \in [Documents -> {"none", "pending", "approved", "rejected"}]
    /\ judged \subseteq Documents
    /\ userJob \in [Reqs -> [op : Ops, id : Ids, copy : Referrers \cup {None}, default : BOOLEAN]]

Init == /\ referredBy = None /\ referrals = 0
        /\ addresses = {} /\ defaults = {} /\ unsettled = {}
        /\ documents = [d \in Documents |-> "none"] /\ judged = {}
        /\ userJob = [r \in Reqs |-> Idle] /\ userArrived = 0

Begin(r, op, id, copy, default) ==
    /\ userJob[r] = Idle /\ userArrived < MaxRequests /\ userArrived' = userArrived + 1
    /\ userJob' = [userJob EXCEPT ![r] = [op |-> op, id |-> id, copy |-> copy, default |-> default]]
End(r) == userJob' = [userJob EXCEPT ![r] = Idle]
Profile == <<referredBy, referrals>>
Places == <<addresses, defaults, unsettled>>
Papers == <<documents, judged>>

-----------------------------------------------------------------------------
(* The profile. *)

(* UpdateProfile, SetAvatarURL: a copy of the row is changed and saved. *)
UpdateProfile(r) ==
    /\ Begin(r, "profile", None, referredBy, FALSE)
    /\ UNCHANGED <<Profile, Places, Papers>>

(* Mutant: the copy's referred_by is saved too. *)
WholeCopy(copy) == copy
(* The columns of the statement leave referred_by alone. *)
Saved(copy) == referredBy

SaveProfile(r) ==
    /\ userJob[r].op = "profile" /\ End(r)
    /\ referredBy' = Saved(userJob[r].copy)
    /\ UNCHANGED <<referrals, Places, Papers, userArrived>>

(* Mutant: anyone may be referred again. *)
Anyone == TRUE
NotReferred == referredBy = None

ApplyReferralCode(r, b) ==
    /\ NotReferred /\ Begin(r, "refer", b, None, FALSE)
    /\ UNCHANGED <<Profile, Places, Papers>>

ApplyReferral(r) ==
    /\ userJob[r].op = "refer" /\ End(r)
    /\ referredBy' = userJob[r].id /\ referrals' = referrals + 1
    /\ UNCHANGED <<Places, Papers, userArrived>>

-----------------------------------------------------------------------------
(* Addresses. *)

CreateAddress(r, a, default) ==
    /\ a \notin addresses /\ \A s \in Reqs : userJob[s].id # a
    /\ Begin(r, "insert", a, None, default)
    /\ UNCHANGED <<Profile, Places, Papers>>

UpdateAddress(r, a, default) ==
    /\ a \in addresses /\ Begin(r, "update", a, None, default)
    /\ UNCHANGED <<Profile, Places, Papers>>

SetDefaultAddress(r, a) ==
    /\ Begin(r, "default", a, None, TRUE)
    /\ UNCHANGED <<Profile, Places, Papers>>

(* The row, is_default included; an UPDATE of a row deleted since matches none. *)
WriteAddress(r) ==
    LET q == userJob[r] a == q.id
        exists == q.op = "insert" \/ a \in addresses IN
    /\ q.op \in {"insert", "update"}
    /\ addresses' = IF exists THEN addresses \cup {a} ELSE addresses
    /\ defaults' = IF exists /\ q.default THEN defaults \cup {a} ELSE defaults \ {a}
    /\ unsettled' = unsettled \ {a}
    /\ IF q.default THEN userJob' = [userJob EXCEPT ![r].op = "default"] ELSE End(r)
    /\ UNCHANGED <<Profile, Papers, userArrived>>

(* Mutant: the other defaults are not cleared. *)
AddDefault(a) == defaults \cup {a}
OnlyDefault(a) == {a}

(* One transaction.  Without such a row it leaves no default at all. *)
MakeDefault(r) ==
    LET a == userJob[r].id IN
    /\ userJob[r].op = "default" /\ End(r)
    /\ defaults' = OnlyDefault(a) \cap addresses /\ unsettled' = {}
    /\ UNCHANGED <<addresses, Profile, Papers, userArrived>>

DeleteAddress(a) ==
    /\ addresses' = addresses \ {a} /\ defaults' = defaults \ {a} /\ unsettled' = unsettled \ {a}
    /\ UNCHANGED <<Profile, Papers, userJob, userArrived>>

-----------------------------------------------------------------------------
(* The driver's documents: one statement each. *)

UploadDocument(d) ==
    /\ documents[d] = "none" /\ d \notin judged
    /\ documents' = [documents EXCEPT ![d] = "pending"]
    /\ UNCHANGED <<Profile, Places, judged, userJob, userArrived>>

(* Any decision, over an earlier one too. *)
VerifyDocument(d, s) ==
    /\ documents[d] # "none"
    /\ documents' = [documents EXCEPT ![d] = s] /\ judged' = judged \cup {d}
    /\ UNCHANGED <<Profile, Places, userJob, userArrived>>

(* Mutant: a DELETE without its condition. *)
AnyDocument(s) == s # "none"
Deletable(s) == s = "pending"

DeleteDocument(d) ==
    /\ Deletable(documents[d])
    /\ documents' = [documents EXCEPT ![d] = "none"]
    /\ UNCHANGED <<Profile, Places, judged, userJob, userArrived>>

-----------------------------------------------------------------------------
Fail(r) ==
    LET q == userJob[r] IN
    /\ Faults /\ q # Idle /\ End(r)
    /\ unsettled' = IF q.op = "default" THEN unsettled \cup ({q.id} \cap defaults) ELSE unsettled
    /\ UNCHANGED <<Profile, addresses, defaults, Papers, userArrived>>

Requests(r) ==
    \/ UpdateProfile(r) \/ \E b \in Referrers : ApplyReferralCode(r, b)
    \/ \E a \in Addresses : \/ SetDefaultAddress(r, a)
                            \/ \E default \in BOOLEAN : CreateAddress(r, a, default) \/ UpdateAddress(r, a, default)

Next == \/ \E a \in addresses : DeleteAddress(a)
        \/ \E d \in Documents : \/ UploadDocument(d) \/ DeleteDocument(d)
                                \/ \E s \in {"approved", "rejected"} : VerifyDocument(d, s)
        \/ \E r \in Reqs : \/ Requests(r) \/ SaveProfile(r) \/ ApplyReferral(r)
                           \/ WriteAddress(r) \/ MakeDefault(r) \/ Fail(r)
Spec == Init /\ [][Next]_userVars

-----------------------------------------------------------------------------
(* Properties *)

(* A user who was referred stays referred, whatever copies of the profile    *)
(* are saved, and is referred again only by handlers that overlap the first. *)
ReferralKept == /\ referrals > 0 => referredBy # None
                /\ referrals <= Cardinality(Reqs)

(* There are no more defaults than one, and one for each handler or failure  *)
(* between an address and the transaction that makes it the only one.        *)
OneDefault ==
    Cardinality(defaults) <= 1 + Cardinality({r \in Reqs : userJob[r].op = "default"})
                               + Cardinality(unsettled)

(* A document that was decided on is not deleted by its driver. *)
JudgedKept == \A d \in judged : documents[d] # "none"

(* Together: a referral is not lost, one address is the default, and a       *)
(* document that was decided on stays, but for handlers that overlap.        *)
ProfileSafe == TypeOK /\ ReferralKept /\ OneDefault /\ JudgedKept
=============================================================================
