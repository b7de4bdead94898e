-------------------------------- MODULE Auth --------------------------------
(***************************************************************************)
(* auth-service, for one account.  Refresh tokens, sessions and reset      *)
(* tokens live in maps of the process, each critical section of its mutex  *)
(* one step; the account is a row.  A refresh deletes the old token in one *)
(* section and issues the new one in another.                              *)
(***************************************************************************)
EXTENDS Naturals, FiniteSets

CONSTANTS Reqs,
          ResetTokens,  \* the reset tokens VerifyOTP hands out
          MaxRequests   \* bound on the requests that arrive

VARIABLES cred,         \* "none", "unverified" or "verified"
          tokens,       \* live refresh tokens, [login, gen]
          sessions,     \* listed sessions, one for each token issued
          current,      \* those with IsCurrent
          resets,       \* live reset tokens
          gen,          \* gen[l]: tokens issued so far to the l-th login
          logins, cut,  \* history: logins accepted, and how many before the last LogoutAll
          straddle,     \* history: logins a handler was issuing a token for at that moment
          given, uses,  \* history: reset tokens handed out, password updates by each
          cutShort,         \* history: handlers of a reset token that ended after the update
          authJob, authArrived
authVars == <<cred, tokens, sessions, current, resets, gen, logins, cut, straddle,
              given, uses, cutShort, authJob, authArrived>>

Logins == 1..MaxRequests
Issued == [login : Logins, gen : Logins]
Idle == [op |-> "none", login |-> 0, token |-> "none"]
Ops == {"none", "register", "verify", "issue", "reset", "delete", "change", "prune"}

TypeOK ==
    /\ cred \in {"none", "unverified", "verified"}
    /\ tokens \subseteq Issued /\ sessions \subseteq Issued /\ current \subseteq Issued
    /\ resets \subseteq given /\ given \subseteq ResetTokens
    /\ gen \in [Logins -> 0..MaxRequests] /\ {logins, cut} \subseteq 0..MaxRequests
    /\ straddle \subseteq Logins
    /\ uses \in [ResetTokens -> Nat] /\ cutShort \in [ResetTokens -> Nat]
    /\ authJob \in [Reqs -> [op : Ops, login : 0..MaxRequests,
                             token : ResetTokens \cup {"none"}]]

(* The account may be an old one. *)
Init ==
    /\ cred \in {"none", "verified"}
    /\ tokens = {} /\ sessions = {} /\ current = {} /\ resets = {}
    /\ gen = [l \in Logins |-> 0] /\ logins = 0 /\ cut = 0 /\ straddle = {} /\ given = {}
    /\ uses = [k \in ResetTokens |-> 0] /\ cutShort = [k \in ResetTokens |-> 0]
    /\ authJob = [r \in Reqs |-> Idle] /\ authArrived = 0

Begin(r, op, l, k) ==
    /\ authJob[r] = Idle /\ authArrived < MaxRequests /\ authArrived' = authArrived + 1
    /\ authJob' = [authJob EXCEPT ![r] = [op |-> op, login |-> l, token |-> k]]
Then(r, op) == authJob' = [authJob EXCEPT ![r].op = op]
End(r) == authJob' = [authJob EXCEPT ![r] = Idle]

-----------------------------------------------------------------------------
(* The account. *)

(* Two look-ups before it; that names are unique is the table's business. *)
Register(r) ==
    /\ cred = "none" /\ Begin(r, "register", 0, "none")
    /\ UNCHANGED <<cred, tokens, sessions, current, resets, gen, logins, cut, straddle, given, uses, cutShort>>

(* An account without an e-mail address is verified by the next statement. *)
CreateCredential(r) ==
    /\ authJob[r].op = "register"
    /\ IF cred = "none" THEN cred' = "unverified" /\ (Then(r, "verify") \/ End(r))
                        ELSE UNCHANGED cred /\ End(r)
    /\ UNCHANGED <<tokens, sessions, current, resets, gen, logins, cut, straddle, given, uses, cutShort, authArrived>>

SetPhoneVerified(r) ==
    /\ authJob[r].op = "verify"
    /\ cred' = "verified" /\ End(r)
    /\ UNCHANGED <<tokens, sessions, current, resets, gen, logins, cut, straddle, given, uses, cutShort, authArrived>>

(* A code of type registration, or of type reset, was accepted. *)
VerifyOTP ==
    /\ \/ /\ cred' = IF cred = "none" THEN "none" ELSE "verified"
          /\ UNCHANGED <<resets, given>>
       \/ \E k \in ResetTokens \ given : /\ resets' = resets \cup {k} /\ given' = given \cup {k}
                                         /\ UNCHANGED cred
    /\ UNCHANGED <<tokens, sessions, current, gen, logins, cut, straddle, uses, cutShort, authJob, authArrived>>

-----------------------------------------------------------------------------
(* Tokens and sessions. *)

(* The password matches; the copy read is issued a token later. *)
Login(r) ==
    /\ cred = "verified"
    /\ logins' = logins + 1 /\ Begin(r, "issue", logins + 1, "none")
    /\ UNCHANGED <<cred, tokens, sessions, current, resets, gen, cut, straddle, given, uses, cutShort>>

(* Mutant: the old token stays good. *)
KeepOld(t) == tokens
Without(t) == tokens \ {t}

RefreshToken(r, t) ==
    /\ t \in tokens
    /\ tokens' = Without(t) /\ Begin(r, "issue", t.login, "none")
    /\ UNCHANGED <<cred, sessions, current, resets, gen, logins, cut, straddle, given, uses, cutShort>>

(* Mutant: the other sessions are not marked. *)
AddCurrent(s) == current \cup {s}
OnlyCurrent(s) == {s}

(* One critical section: the token, and a session of its own. *)
generateTokens(r) ==
    LET l == authJob[r].login
        t == [login |-> l, gen |-> gen[l] + 1] IN
    /\ authJob[r].op = "issue" /\ End(r)
    /\ gen' = [gen EXCEPT ![l] = @ + 1]
    /\ tokens' = tokens \cup {t} /\ sessions' = sessions \cup {t} /\ current' = OnlyCurrent(t)
    /\ UNCHANGED <<cred, resets, logins, cut, straddle, given, uses, cutShort, authArrived>>

(* The session of the token stays listed. *)
Logout(t) ==
    /\ t \in tokens /\ tokens' = tokens \ {t}
    /\ UNCHANGED <<cred, sessions, current, resets, gen, logins, cut, straddle, given, uses, cutShort, authJob, authArrived>>

(* Mutant: the sessions go and their tokens stay. *)
TokensStay == tokens
NoTokens == {}

LogoutAll ==
    /\ tokens' = NoTokens /\ sessions' = {} /\ current' = {}
    /\ cut' = logins
    /\ straddle' = {authJob[r].login : r \in {r \in Reqs : authJob[r].op = "issue"}}
    /\ UNCHANGED <<cred, resets, gen, logins, given, uses, cutShort, authJob, authArrived>>

(* Not the token that came with it. *)
RevokeSession(s) ==
    /\ s \in sessions
    /\ sessions' = sessions \ {s} /\ current' = current \ {s}
    /\ UNCHANGED <<cred, tokens, resets, gen, logins, cut, straddle, given, uses, cutShort, authJob, authArrived>>

-----------------------------------------------------------------------------
(* Passwords. *)

ResetPassword(r, k) ==
    /\ k \in resets /\ cred # "none" /\ Begin(r, "reset", 0, k)
    /\ UNCHANGED <<cred, tokens, sessions, current, resets, gen, logins, cut, straddle, given, uses, cutShort>>

(* The current password was right in the copy read. *)
ChangePassword(r) ==
    /\ cred # "none" /\ Begin(r, "change", 0, "none")
    /\ UNCHANGED <<cred, tokens, sessions, current, resets, gen, logins, cut, straddle, given, uses, cutShort>>

UpdatePassword(r) ==
    LET k == authJob[r].token IN
    /\ \/ authJob[r].op = "reset" /\ Then(r, "delete") /\ uses' = [uses EXCEPT ![k] = @ + 1]
       \/ authJob[r].op = "change" /\ Then(r, "prune") /\ UNCHANGED uses
    /\ UNCHANGED <<cred, tokens, sessions, current, resets, gen, logins, cut, straddle, given, cutShort, authArrived>>

(* Mutant: a reset token is good until the process ends. *)
StillGood(k) == resets
Spent(k) == resets \ {k}

deleteResetToken(r) ==
    /\ authJob[r].op = "delete" /\ End(r)
    /\ resets' = Spent(authJob[r].token)
    /\ UNCHANGED <<cred, tokens, sessions, current, gen, logins, cut, straddle, given, uses, cutShort, authArrived>>

(* The other sessions go, their tokens stay. *)
pruneSessions(r) ==
    /\ authJob[r].op = "prune" /\ End(r)
    /\ sessions' = sessions \cap current /\ current' = sessions \cap current
    /\ UNCHANGED <<cred, tokens, resets, gen, logins, cut, straddle, given, uses, cutShort, authArrived>>

-----------------------------------------------------------------------------
(* A statement fails, or its acknowledgement is lost. *)
Fail(r) ==
    /\ authJob[r].op \in {"register", "verify", "reset", "delete", "change", "prune"}
    /\ End(r)
    /\ cutShort' = IF authJob[r].op = "delete" THEN [cutShort EXCEPT ![authJob[r].token] = @ + 1] ELSE cutShort
    /\ UNCHANGED <<cred, tokens, sessions, current, resets, gen, logins, cut, straddle, given, uses, authArrived>>

(* The maps go with the process. *)
Restart ==
    /\ tokens' = {} /\ sessions' = {} /\ current' = {} /\ resets' = {}
    /\ authJob' = [r \in Reqs |-> Idle]
    /\ UNCHANGED <<cred, gen, logins, cut, straddle, given, uses, cutShort, authArrived>>

Requests(r) == \/ Register(r) \/ Login(r) \/ ChangePassword(r)
               \/ \E t \in tokens : RefreshToken(r, t)
               \/ \E k \in resets : ResetPassword(r, k)
Handle(r) == \/ CreateCredential(r) \/ SetPhoneVerified(r) \/ generateTokens(r)
             \/ UpdatePassword(r) \/ deleteResetToken(r) \/ pruneSessions(r)

Next == \/ VerifyOTP \/ LogoutAll \/ Restart
        \/ \E t \in tokens : Logout(t)
        \/ \E s \in sessions : RevokeSession(s)
        \/ \E r \in Reqs : Requests(r) \/ Handle(r) \/ Fail(r)
Spec == Init /\ [][Next]_authVars

-----------------------------------------------------------------------------
(* Properties *)

(* A login is worth one refresh token at a time: between the deletion of the *)
(* old token and the issue of the new one no other handler can rotate it.    *)
TokenPerLogin ==
    \A l \in Logins :
        Cardinality({t \in tokens : t.login = l})
          + Cardinality({r \in Reqs : authJob[r].op = "issue" /\ authJob[r].login = l}) <= 1

(* A logout from everywhere is outlived only by the logins a handler was     *)
(* issuing a token for at that moment, however often they rotate it later.   *)
LogoutAllHolds == \A t \in tokens : t.login <= cut => t.login \in straddle

(* One session at most is the current one, and it is a listed one.           *)
OneCurrent == Cardinality(current) <= 1 /\ current \subseteq sessions

(* A reset token changes the password once, and again only for handlers that *)
(* overlap, or after one that could not delete it.                           *)
ResetOnce == \A k \in ResetTokens : uses[k] <= Cardinality(Reqs) + cutShort[k]

(* Together: one refresh token for each login, none that outlives a logout   *)
(* from everywhere, one current session, one use of a reset token, each but  *)
(* for the handlers that overlap the change.                                 *)
AuthSafe == TypeOK /\ TokenPerLogin /\ LogoutAllHolds /\ OneCurrent /\ ResetOnce
=============================================================================
