------------------------------ MODULE Security ------------------------------
(***************************************************************************)
(* security-service, for one user and one address: failed logins raise     *)
(* flags by an automatic rule, administrators resolve flags, and block and *)
(* unblock the address.  Every statement commits by itself.                *)
(***************************************************************************)
EXTENDS Naturals, FiniteSets

CONSTANTS Reqs, Admins, None,
          failedLoginThreshold,
          MaxRequests,  \* bound on the requests that arrive
          Faults        \* TRUE: statements fail, the process dies

VARIABLES recent,       \* failed attempts inside the window, the last of those recorded
          attempts,     \* failed attempts in all, numbered as they are recorded
          flags,        \* flags the rule has raised
          raised,       \* history: the attempts whose handlers raised them
          missed,       \* history: the attempts whose handlers ended between attempt and flag
          open,         \* the flag administrators work on: resolved or not
          resolver,     \* resolved_by of that flag
          resolvers,    \* history: administrators whose request succeeded
          blocked,      \* rows of the address that are active and have not expired
          lifted,       \* its other rows
          secJob, secArrived
secVars == <<recent, attempts, flags, raised, missed, open, resolver, resolvers, blocked, lifted,
             secJob, secArrived>>

Idle == [op |-> "none", admin |-> None, n |-> 0]
Ops == {"none", "count", "flag", "resolve", "block"}

TypeOK ==
    /\ {recent, attempts, flags, blocked, lifted} \subseteq Nat /\ recent <= attempts
    /\ raised \cup missed \subseteq Nat
    /\ open \in BOOLEAN /\ resolver \in Admins \cup {None} /\ resolvers \subseteq Admins
    /\ secJob \in [Reqs -> [op : Ops, admin : Admins \cup {None}, n : Nat]]

Init == /\ recent = 0 /\ attempts = 0 /\ flags = 0 /\ raised = {} /\ missed = {}
        /\ open = TRUE /\ resolver = None /\ resolvers = {}
        /\ blocked = 0 /\ lifted = 0
        /\ secJob = [r \in Reqs |-> Idle] /\ secArrived = 0

Begin(r, op, a, n) ==
    /\ secJob[r] = Idle /\ secArrived < MaxRequests /\ secArrived' = secArrived + 1
    /\ secJob' = [secJob EXCEPT ![r] = [op |-> op, admin |-> a, n |-> n]]
End(r) == secJob' = [secJob EXCEPT ![r] = Idle]
Logins == <<recent, attempts, flags, raised, missed>>
Flag == <<open, resolver, resolvers>>
Address == <<blocked, lifted>>

-----------------------------------------------------------------------------
(* Mutants: the rule fires one attempt late; it fires at any attempt.        *)
Later(n) == n > failedLoginThreshold
AnyCount(n) == TRUE
Reached(n) == n >= failedLoginThreshold

(* InsertLoginAttempt; a successful attempt ends there. *)
RecordLoginAttempt(r) ==
    /\ Begin(r, "count", None, attempts + 1)
    /\ recent' = recent + 1 /\ attempts' = attempts + 1
    /\ UNCHANGED <<flags, raised, missed, Flag, Address>>

(* checkAndAutoFlag *)
CountFailedLoginsInWindow(r) ==
    /\ secJob[r].op = "count"
    /\ IF Reached(recent) THEN secJob' = [secJob EXCEPT ![r].op = "flag"] ELSE End(r)
    /\ UNCHANGED <<Logins, Flag, Address, secArrived>>

InsertFraudFlag(r) ==
    /\ secJob[r].op = "flag" /\ End(r)
    /\ flags' = flags + 1 /\ raised' = raised \cup {secJob[r].n}
    /\ UNCHANGED <<recent, attempts, missed, Flag, Address, secArrived>>

(* The oldest attempt leaves the window. *)
Age == /\ recent > 0 /\ recent' = recent - 1
       /\ UNCHANGED <<attempts, flags, raised, missed, Flag, Address, secJob, secArrived>>

-----------------------------------------------------------------------------
(* Mutant: an UPDATE without its condition. *)
AnyFlag == TRUE
StillOpen == open

ResolveFraudFlag(r, a) ==
    /\ open /\ Begin(r, "resolve", a, 0)
    /\ UNCHANGED <<Logins, Flag, Address>>

UpdateFraudFlag(r) ==
    LET a == secJob[r].admin IN
    /\ secJob[r].op = "resolve" /\ End(r)
    /\ IF StillOpen THEN open' = FALSE /\ resolver' = a /\ resolvers' = resolvers \cup {a}
                    ELSE UNCHANGED Flag
    /\ UNCHANGED <<Logins, Address, secArrived>>

-----------------------------------------------------------------------------
(* Mutant: no unique index on ip_address. *)
NoIndex == TRUE
UniqueIndex == blocked + lifted = 0

(* No active block was found. *)
BlockIP(r) ==
    /\ blocked = 0 /\ Begin(r, "block", None, 0)
    /\ UNCHANGED <<Logins, Flag, Address>>

(* A lifted or expired row of the address is counted by the index too: the   *)
(* request to block it again, which the check let through, fails here.       *)
InsertIPBlock(r) ==
    /\ secJob[r].op = "block" /\ End(r)
    /\ IF UniqueIndex THEN blocked' = blocked + 1 /\ UNCHANGED lifted ELSE UNCHANGED Address
    /\ UNCHANGED <<Logins, Flag, secArrived>>

(* Or expires_at has passed. *)
UnblockIP == /\ blocked > 0 /\ blocked' = blocked - 1 /\ lifted' = lifted + 1
             /\ UNCHANGED <<Logins, Flag, secJob, secArrived>>

-----------------------------------------------------------------------------
(* The errors of the rule's statements are swallowed; others are returned. *)
Fail(r) ==
    /\ Faults /\ secJob[r] # Idle /\ End(r)
    /\ missed' = IF secJob[r].op \in {"count", "flag"} THEN missed \cup {secJob[r].n} ELSE missed
    /\ UNCHANGED <<recent, attempts, flags, raised, Flag, Address, secArrived>>

Next == Age \/ UnblockIP
        \/ \E r \in Reqs : \/ RecordLoginAttempt(r) \/ CountFailedLoginsInWindow(r) \/ InsertFraudFlag(r)
                           \/ \E a \in Admins : ResolveFraudFlag(r, a)
                           \/ UpdateFraudFlag(r) \/ BlockIP(r) \/ InsertIPBlock(r) \/ Fail(r)
Spec == Init /\ [][Next]_secVars

-----------------------------------------------------------------------------
(* Properties *)

(* Every attempt in the window that has enough others before it there has    *)
(* raised a flag, is being judged, or lost its handler: however the handlers *)
(* overlap and the window moves, none is judged on too few.                  *)
RuleFires ==
    \A n \in (attempts - recent + failedLoginThreshold)..attempts :
        \/ n \in raised \cup missed
        \/ \E r \in Reqs : secJob[r].op \in {"count", "flag"} /\ secJob[r].n = n

(* The rule fires once for each attempt past the threshold, and once more at *)
(* most for every handler that overlaps.                                     *)
RuleBounded ==
    flags > 0 => flags <= attempts - (failedLoginThreshold - 1) + (Cardinality(Reqs) - 1)

(* One administrator resolves a flag, and is the one its row names.          *)
ResolvedByOne == resolvers = (IF open THEN {} ELSE {resolver}) /\ (open => resolver = None)

(* However requests to block and unblock an address overlap, it has one      *)
(* block in force at most.  (The openapi, :385-416, lets an address that was *)
(* unblocked, or whose block expired, be blocked again; the unique column    *)
(* does not, and such a request fails after its check has let it through.)   *)
OneBlock == blocked <= 1

(* Together: the rule fires for enough failed logins and not beyond them, a  *)
(* flag is resolved by one administrator, an address has one block in force. *)
SecuritySafe == TypeOK /\ RuleFires /\ RuleBounded /\ ResolvedByOne /\ OneBlock
=============================================================================
