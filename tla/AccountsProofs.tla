--------------------------- MODULE AccountsProofs ---------------------------
(***************************************************************************)
(* Proofs about the services of Services that keep accounts and guard      *)
(* them, for every value of the constants: tokens and sessions, one-time   *)
(* codes, attempts and flags, rows of users and documents.                 *)
(***************************************************************************)
EXTENDS ServicesProofs

-----------------------------------------------------------------------------
(* auth-service *)

Issues(r, l) == authJob[r].op = "issue" /\ authJob[r].login = l
ResettingBy(k) == {r \in Reqs : authJob[r].op = "reset" /\ authJob[r].token = k}
DeletingOf(k) == {r \in Reqs : authJob[r].op = "delete" /\ authJob[r].token = k}

AuthTypes == /\ Auth!TypeOK
             /\ authArrived \in Nat /\ authArrived <= Bound["auth"]
             /\ logins <= authArrived /\ cut <= logins
             /\ \A l \in Auth!Logins : /\ gen[l] <= authArrived
                                       /\ \A r \in Reqs : Issues(r, l) => gen[l] < authArrived
             /\ \A r \in Reqs : /\ authJob[r].op = "issue" => authJob[r].login \in 1..logins
                                /\ authJob[r].op \in {"reset", "delete"} => authJob[r].token \in given

(* A login has a token, or a handler that is to issue one, or neither; what  *)
(* there is of a login from before the last LogoutAll was being issued then. *)
OneToken ==
    /\ \A t, u \in tokens : t.login = u.login => t = u
    /\ \A r, s \in Reqs : authJob[r].op = "issue" /\ Issues(s, authJob[r].login) => r = s
    /\ \A t \in tokens, r \in Reqs : ~Issues(r, t.login)
    /\ \A t \in tokens : t.login <= logins
    /\ \A t \in tokens : t.login <= cut => t.login \in straddle
    /\ \A r \in Reqs : authJob[r].op = "issue" /\ authJob[r].login <= cut
                         => authJob[r].login \in straddle

OneSession == current \subseteq sessions /\ \A s, t \in current : s = t

(* As long as the token is good, every use of it is a handler that is about  *)
(* to delete it or could not; the handlers before their update still count.  *)
ResetUses ==
    \A k \in ResetTokens :
        /\ uses[k] + Cardinality(ResettingBy(k)) <= Cardinality(Reqs) + cutShort[k]
        /\ k \in resets => uses[k] <= Cardinality(DeletingOf(k)) + cutShort[k]
        /\ k \notin given => uses[k] = 0

AuthInv == AuthTypes /\ OneToken /\ OneSession /\ ResetUses

LEMMA AuthBound == Bound["auth"] \in Nat
  BY ServicesAssumption DEF ServiceNames

(* What a slot holds, and what it does to those who reset.                   *)
LEMMA AuthSlot ==
  ASSUME AuthInv, NEW r \in Reqs
  PROVE  /\ authJob[r].op \in Auth!Ops /\ authJob[r].login \in 0..Bound["auth"]
         /\ authJob[r].token \in ResetTokens \cup {"none"}
         /\ authJob[r] = [op |-> authJob[r].op, login |-> authJob[r].login,
                          token |-> authJob[r].token]
  BY DEF AuthInv, AuthTypes, Auth!TypeOK

LEMMA AuthAfter ==
  ASSUME AuthInv, NEW r \in Reqs, NEW j, authJob' = [authJob EXCEPT ![r] = j]
  PROVE  authJob'[r] = j /\ \A s \in Reqs : s # r => authJob'[s] = authJob[s]
  BY DEF AuthInv, AuthTypes, Auth!TypeOK

-----------------------------------------------------------------------------
(* Types and counts. *)


AuthJobs == [op : Auth!Ops, login : 0..Bound["auth"], token : ResetTokens \cup {"none"}]

LEMMA AuthSlots ==
  ASSUME AuthInv, NEW r \in Reqs, NEW j \in AuthJobs, authJob' = [authJob EXCEPT ![r] = j]
  PROVE  authJob' \in [Reqs -> AuthJobs]
  BY DEF AuthInv, AuthTypes, Auth!TypeOK, AuthJobs

LEMMA AuthJobsOK ==
  ASSUME AuthInv
  PROVE  authJob \in [Reqs -> AuthJobs] /\ Auth!Idle \in AuthJobs
  BY AuthBound DEF AuthInv, AuthTypes, Auth!TypeOK, AuthJobs, Auth!Idle, Auth!Ops

(* The steps of one slot: those that write nothing the types are about.      *)
LEMMA AuthTypesKept ==
  ASSUME AuthInv, NEW r \in Reqs, NEW j \in AuthJobs, authJob' = [authJob EXCEPT ![r] = j],
         cred' \in {"none", "unverified", "verified"},
         tokens' \subseteq Auth!Issued, sessions' \subseteq Auth!Issued,
         current' \subseteq Auth!Issued, resets' \subseteq resets,
         UNCHANGED <<given, logins, cut, straddle>>,
         gen' \in [Auth!Logins -> 0..Bound["auth"]],
         uses' \in [ResetTokens -> Nat], cutShort' \in [ResetTokens -> Nat],
         authArrived' \in {authArrived, authArrived + 1}, authArrived' <= Bound["auth"],
         \A l \in Auth!Logins : /\ gen'[l] <= authArrived'
                                /\ \A s \in Reqs : Issues(s, l)' => gen'[l] < authArrived',
         j.op = "issue" => j.login \in 1..logins,
         j.op \in {"reset", "delete"} => j.token \in given
  PROVE  AuthTypes'
  <1>1. authJob' \in [Reqs -> AuthJobs]
    BY AuthSlots
  <1>2. Auth!TypeOK'
    BY <1>1 DEF AuthInv, AuthTypes, Auth!TypeOK, AuthJobs
  <1>3. /\ authArrived' \in Nat /\ authArrived' <= Bound["auth"]
        /\ logins' <= authArrived' /\ cut' <= logins'
    BY AuthBound DEF AuthInv, AuthTypes, Auth!TypeOK
  <1>4. \A s \in Reqs : /\ authJob'[s].op = "issue" => authJob'[s].login \in 1..logins'
                        /\ authJob'[s].op \in {"reset", "delete"} => authJob'[s].token \in given'
    BY AuthAfter DEF AuthInv, AuthTypes
  <1> QED
    BY <1>2, <1>3, <1>4 DEF AuthTypes

LEMMA AuthBegins ==
  ASSUME AuthInv, NEW r \in Reqs, NEW op \in Auth!Ops, NEW l \in 0..Bound["auth"],
         NEW k \in ResetTokens \cup {"none"}, Auth!Begin(r, op, l, k)
  PROVE  LET j == [op |-> op, login |-> l, token |-> k] IN
         /\ j \in AuthJobs /\ j.op = op /\ j.login = l /\ j.token = k
         /\ authJob' = [authJob EXCEPT ![r] = j] /\ authJob[r].op = "none"
         /\ authArrived' = authArrived + 1 /\ authArrived' <= Bound["auth"]
         /\ authArrived \in Nat
  BY AuthBound DEF AuthInv, AuthTypes, Auth!Begin, Auth!Idle, AuthJobs

LEMMA AuthCounts ==
  ASSUME AuthInv
  PROVE  /\ gen \in [Auth!Logins -> 0..Bound["auth"]] /\ authArrived \in Nat
         /\ authArrived <= Bound["auth"]
         /\ logins \in 0..Bound["auth"] /\ cut \in 0..Bound["auth"]
         /\ \A l \in Auth!Logins : /\ gen[l] \in Nat /\ gen[l] <= authArrived
                                   /\ \A s \in Reqs : Issues(s, l) => gen[l] < authArrived
         /\ uses \in [ResetTokens -> Nat] /\ cutShort \in [ResetTokens -> Nat]
         /\ cred \in {"none", "unverified", "verified"}
         /\ tokens \subseteq Auth!Issued /\ sessions \subseteq Auth!Issued
         /\ current \subseteq Auth!Issued /\ resets \subseteq given /\ given \subseteq ResetTokens
  BY AuthBound DEF AuthInv, AuthTypes, Auth!TypeOK

(* A request arrives.                                                        *)
LEMMA AuthTypesRequest ==
  ASSUME AuthInv, NEW r \in Reqs, Auth!Requests(r)
  PROVE  AuthTypes'
  <1>1. ASSUME NEW op \in Auth!Ops, NEW l \in 0..Bound["auth"],
               NEW k \in ResetTokens \cup {"none"}, Auth!Begin(r, op, l, k),
               UNCHANGED <<cred, sessions, current, resets, gen, logins, cut, straddle, given,
                           uses, cutShort>>,
               tokens' \subseteq tokens,
               op = "issue" => l \in 1..logins, op \in {"reset", "delete"} => k \in given
        PROVE  AuthTypes'
    <2> DEFINE j == [op |-> op, login |-> l, token |-> k]
    <2>1. /\ j \in AuthJobs /\ authJob' = [authJob EXCEPT ![r] = j]
          /\ j.op = op /\ j.login = l /\ j.token = k
          /\ authArrived' = authArrived + 1 /\ authArrived' <= Bound["auth"]
          /\ authArrived \in Nat
      BY <1>1, AuthBegins
    <2>2. \A m \in Auth!Logins : gen'[m] <= authArrived' /\ gen'[m] < authArrived'
      BY <1>1, <2>1, AuthCounts
    <2> HIDE DEF j
    <2> QED
      BY <1>1, <2>1, <2>2, AuthCounts, AuthTypesKept
  <1>2. CASE Auth!Register(r) \/ Auth!ChangePassword(r)
    BY <1>2, <1>1, AuthBound DEF Auth!Register, Auth!ChangePassword, Auth!Ops
  <1>3. ASSUME NEW k \in resets, Auth!ResetPassword(r, k)
        PROVE  AuthTypes'
    BY <1>3, <1>1, AuthBound, AuthCounts DEF Auth!ResetPassword, Auth!Ops
  <1>4. ASSUME NEW t \in tokens, Auth!RefreshToken(r, t)
        PROVE  AuthTypes'
    <2>1. t.login \in 1..logins /\ t.login \in 0..Bound["auth"]
      BY AuthCounts, AuthBound DEF AuthInv, OneToken, Auth!Issued, Auth!Logins
    <2> QED
      BY <1>4, <1>1, <2>1 DEF Auth!RefreshToken, Auth!Without, Auth!Ops
  <1>5. CASE Auth!Login(r)
    <2> DEFINE j == [op |-> "issue", login |-> logins + 1, token |-> "none"]
    <2>1. logins \in Nat /\ logins <= authArrived /\ authArrived < Bound["auth"]
      BY <1>5, AuthBound DEF AuthInv, AuthTypes, Auth!TypeOK, Auth!Login, Auth!Begin
    <2>2. logins + 1 \in 0..Bound["auth"] /\ logins' = logins + 1
      BY <2>1, <1>5, AuthBound, AuthCounts DEF Auth!Login
    <2>3. /\ j \in AuthJobs /\ authJob' = [authJob EXCEPT ![r] = j]
          /\ authArrived' = authArrived + 1 /\ authArrived' <= Bound["auth"]
      BY <1>5, <2>2, AuthBegins DEF Auth!Login, Auth!Ops
    <2>4. UNCHANGED <<cred, tokens, sessions, current, resets, gen, cut, straddle, given, uses,
                      cutShort>>
      BY <1>5 DEF Auth!Login
    <2>5. Auth!TypeOK'
      BY <2>2, <2>3, <2>4, AuthSlots DEF AuthInv, AuthTypes, Auth!TypeOK, AuthJobs
    <2>6. /\ authArrived' \in Nat /\ logins' <= authArrived' /\ cut' <= logins'
      BY <2>1, <2>2, <2>3, <2>4, AuthCounts DEF AuthInv, AuthTypes
    <2>7. \A m \in Auth!Logins : gen'[m] <= authArrived' /\ gen'[m] < authArrived'
      BY <2>3, <2>4, AuthCounts
    <2>8. \A s \in Reqs : /\ authJob'[s].op = "issue" => authJob'[s].login \in 1..logins'
                          /\ authJob'[s].op \in {"reset", "delete"}
                               => authJob'[s].token \in given'
      BY <2>1, <2>2, <2>3, <2>4, AuthAfter DEF AuthInv, AuthTypes
    <2> QED
      BY <2>3, <2>5, <2>6, <2>7, <2>8 DEF AuthTypes
  <1> QED
    BY <1>2, <1>3, <1>4, <1>5 DEF Auth!Requests

(* A handler goes on, or ends.                                               *)
LEMMA AuthTypesHandle ==
  ASSUME AuthInv, NEW r \in Reqs, Auth!Handle(r) \/ Auth!Fail(r)
  PROVE  AuthTypes'
  <1>1. ASSUME NEW op \in {"verify", "prune"} \cup {"delete"}, Auth!Then(r, op),
               op = "delete" => authJob[r].op = "reset"
        PROVE  \E j \in AuthJobs : /\ authJob' = [authJob EXCEPT ![r] = j] /\ j.op # "issue"
                                   /\ j.op \in {"reset", "delete"} => j.token \in given
    <2> DEFINE j == [authJob[r] EXCEPT !.op = op]
    <2>1. j \in AuthJobs /\ j.op = op /\ j.token = authJob[r].token
      BY AuthJobsOK DEF AuthJobs, Auth!Ops
    <2>2. authJob' = [authJob EXCEPT ![r] = j]
      BY <1>1, AuthJobsOK DEF Auth!Then
    <2>3. op = "delete" => authJob[r].token \in given
      BY <1>1 DEF AuthInv, AuthTypes
    <2> QED
      BY <2>1, <2>2, <2>3
  <1>2. ASSUME Auth!End(r)
        PROVE  \E j \in AuthJobs : /\ authJob' = [authJob EXCEPT ![r] = j] /\ j.op # "issue"
                                   /\ j.op \in {"reset", "delete"} => j.token \in given
    BY <1>2, AuthJobsOK DEF Auth!End, Auth!Idle
  <1>3. ASSUME NEW j \in AuthJobs, authJob' = [authJob EXCEPT ![r] = j], j.op # "issue",
               j.op \in {"reset", "delete"} => j.token \in given,
               UNCHANGED <<given, logins, cut, straddle, gen, authArrived>>,
               cred' \in {"none", "unverified", "verified"},
               tokens' \subseteq Auth!Issued, sessions' \subseteq Auth!Issued,
               current' \subseteq Auth!Issued, resets' \subseteq resets,
               uses' \in [ResetTokens -> Nat], cutShort' \in [ResetTokens -> Nat]
        PROVE  AuthTypes'
    <2>1. \A l \in Auth!Logins, s \in Reqs : Issues(s, l)' => Issues(s, l)
      BY <1>3, AuthAfter DEF Issues
    <2> QED
      BY <1>3, <2>1, AuthCounts, AuthTypesKept
  <1>4. CASE Auth!CreateCredential(r)
    BY <1>4, <1>1, <1>2, <1>3, AuthCounts DEF Auth!CreateCredential
  <1>5. CASE Auth!SetPhoneVerified(r)
    BY <1>5, <1>2, <1>3, AuthCounts DEF Auth!SetPhoneVerified
  <1>6. CASE Auth!UpdatePassword(r)
    <2>1. uses' \in [ResetTokens -> Nat]
      BY <1>6, AuthCounts DEF Auth!UpdatePassword
    <2> QED
      BY <1>6, <2>1, <1>1, <1>3, AuthCounts DEF Auth!UpdatePassword
  <1>7. CASE Auth!deleteResetToken(r)
    BY <1>7, <1>2, <1>3, AuthCounts DEF Auth!deleteResetToken, Auth!Spent
  <1>8. CASE Auth!pruneSessions(r)
    BY <1>8, <1>2, <1>3, AuthCounts DEF Auth!pruneSessions
  <1>9. CASE Auth!Fail(r)
    <2>1. authJob[r].op = "delete" => authJob[r].token \in ResetTokens
      BY AuthCounts DEF AuthInv, AuthTypes
    <2>2. cutShort' \in [ResetTokens -> Nat]
      BY <1>9, <2>1, AuthCounts DEF Auth!Fail
    <2> QED
      BY <1>9, <2>2, <1>2, <1>3, AuthCounts DEF Auth!Fail
  <1>10. CASE Auth!generateTokens(r)
    <2> PICK l : l = authJob[r].login
      OBVIOUS
    <2> DEFINE t == [login |-> l, gen |-> gen[l] + 1]
    <2>1. l \in 1..logins /\ l \in Auth!Logins /\ Issues(r, l)
      BY <1>10, AuthBound, AuthCounts DEF AuthInv, AuthTypes, Auth!generateTokens, Auth!Logins, Issues
    <2>2. gen[l] \in Nat /\ gen[l] < authArrived
      BY <2>1, AuthCounts
    <2>3. gen[l] + 1 \in 0..Bound["auth"] /\ gen[l] + 1 \in Auth!Logins
      BY <2>2, AuthBound, AuthCounts DEF Auth!Logins
    <2>4. t \in Auth!Issued
      BY <2>1, <2>3 DEF Auth!Issued
    <2>5. /\ gen' = [gen EXCEPT ![l] = gen[l] + 1]
          /\ tokens' = tokens \cup {t} /\ sessions' = sessions \cup {t} /\ current' = {t}
          /\ authJob' = [authJob EXCEPT ![r] = Auth!Idle]
          /\ UNCHANGED <<cred, resets, logins, cut, straddle, given, uses, cutShort, authArrived>>
      BY <1>10 DEF Auth!generateTokens, Auth!OnlyCurrent, Auth!End
    <2>6. gen' \in [Auth!Logins -> 0..Bound["auth"]]
      BY <2>3, <2>5, AuthCounts
    <2>7. \A s \in Reqs : ~Issues(s, l)'
      <3>1. \A s \in Reqs : Issues(s, l) => s = r
        BY <2>1 DEF AuthInv, OneToken, Issues
      <3>2. \A s \in Reqs : s # r => authJob'[s] = authJob[s]
        BY <2>5, AuthJobsOK
      <3>3. authJob'[r].op = "none"
        BY <2>5, AuthJobsOK DEF Auth!Idle
      <3> QED
        BY <3>1, <3>2, <3>3 DEF Issues
    <2>8. \A m \in Auth!Logins : /\ gen'[m] <= authArrived'
                                 /\ \A s \in Reqs : Issues(s, m)' => gen'[m] < authArrived'
      <3> SUFFICES ASSUME NEW m \in Auth!Logins
                   PROVE  /\ gen'[m] <= authArrived'
                          /\ \A s \in Reqs : Issues(s, m)' => gen'[m] < authArrived'
        OBVIOUS
      <3>1. CASE m = l
        <4>1. gen'[l] = gen[l] + 1 /\ authArrived' = authArrived
          BY <2>1, <2>5, AuthCounts
        <4>2. authArrived \in Nat
          BY AuthCounts
        <4>3. gen[l] \in Nat
          BY <2>2
        <4> QED
          BY <3>1, <4>1, <4>2, <4>3, <2>2, <2>7
      <3>2. CASE m # l
        <4>1. gen'[m] = gen[m]
          BY <3>2, <2>5, AuthCounts
        <4>2. \A s \in Reqs : Issues(s, m)' => Issues(s, m)
          BY <2>5, AuthJobsOK DEF Issues, Auth!Idle
        <4> QED
          BY <4>1, <4>2, <2>5, AuthCounts
      <3> QED
        BY <3>1, <3>2
    <2>9. Auth!Idle.op = "none" /\ Auth!Idle \in AuthJobs
      BY AuthJobsOK DEF Auth!Idle
    <2> HIDE DEF t
    <2> QED
      BY <2>4, <2>5, <2>6, <2>8, <2>9, AuthCounts, AuthTypesKept
  <1> QED
    BY <1>4, <1>5, <1>6, <1>7, <1>8, <1>9, <1>10 DEF Auth!Handle

(* What moves no slot, and the restart of the process.                       *)
LEMMA AuthTypesRest ==
  ASSUME AuthInv,
         \/ Auth!VerifyOTP \/ Auth!LogoutAll \/ Auth!Restart \/ UNCHANGED auth
         \/ \E t \in tokens : Auth!Logout(t)
         \/ \E s \in sessions : Auth!RevokeSession(s)
  PROVE  AuthTypes'
  <1> USE DEF AuthInv, AuthTypes, Auth!TypeOK, Issues
  <1>1. CASE Auth!VerifyOTP
    BY <1>1 DEF Auth!VerifyOTP
  <1>2. CASE Auth!LogoutAll
    <2>1. straddle' \subseteq Auth!Logins
      BY <1>2, AuthBound, AuthCounts DEF Auth!LogoutAll, Auth!Logins
    <2> QED
      BY <1>2, <2>1 DEF Auth!LogoutAll, Auth!NoTokens
  <1>3. CASE Auth!Restart
    BY <1>3, AuthJobsOK DEF Auth!Restart, Auth!Idle, AuthJobs
  <1>4. CASE \/ UNCHANGED auth \/ \E t \in tokens : Auth!Logout(t)
             \/ \E s \in sessions : Auth!RevokeSession(s)
    BY <1>4 DEF auth, Auth!Logout, Auth!RevokeSession
  <1> QED
    BY <1>1, <1>2, <1>3, <1>4

-----------------------------------------------------------------------------
(* Tokens and logins. *)

(* Slots that do not issue change nothing here.                              *)
LEMMA OneTokenKept ==
  ASSUME AuthInv, tokens' \subseteq tokens, UNCHANGED <<logins, cut, straddle>>,
         \A r \in Reqs : authJob'[r].op = "issue" => authJob'[r] = authJob[r]
  PROVE  OneToken'
  BY DEF AuthInv, OneToken, Issues

LEMMA OneTokenRequest ==
  ASSUME AuthInv, NEW r \in Reqs, Auth!Requests(r)
  PROVE  OneToken'
  <1>1. ASSUME NEW op \in Auth!Ops \ {"issue"}, NEW k \in ResetTokens \cup {"none"},
               Auth!Begin(r, op, 0, k), UNCHANGED <<tokens, logins, cut, straddle>>
        PROVE  OneToken'
    <2>1. authJob'[r].op = op /\ \A s \in Reqs : s # r => authJob'[s] = authJob[s]
      BY <1>1, AuthJobsOK DEF Auth!Begin
    <2> QED
      BY <1>1, <2>1, OneTokenKept
  <1>2. CASE Auth!Register(r) \/ Auth!ChangePassword(r)
    BY <1>2, <1>1 DEF Auth!Register, Auth!ChangePassword, Auth!Ops
  <1>3. ASSUME NEW k \in resets, Auth!ResetPassword(r, k)
        PROVE  OneToken'
    BY <1>3, <1>1, AuthCounts DEF Auth!ResetPassword, Auth!Ops
  <1>4. ASSUME NEW t \in tokens, Auth!RefreshToken(r, t)
        PROVE  OneToken'
    <2>1. /\ tokens' = tokens \ {t} /\ UNCHANGED <<logins, cut, straddle>>
          /\ authJob'[r].op = "issue" /\ authJob'[r].login = t.login
          /\ \A s \in Reqs : s # r => authJob'[s] = authJob[s]
      BY <1>4, AuthJobsOK DEF Auth!RefreshToken, Auth!Without, Auth!Begin
    <2> QED
      BY <2>1 DEF AuthInv, OneToken, Issues
  <1>5. CASE Auth!Login(r)
    <2>1. /\ UNCHANGED <<tokens, cut, straddle>> /\ logins' = logins + 1
          /\ authJob'[r].op = "issue" /\ authJob'[r].login = logins + 1
          /\ \A s \in Reqs : s # r => authJob'[s] = authJob[s]
      BY <1>5, AuthJobsOK DEF Auth!Login, Auth!Begin
    <2>2. logins \in Nat
      BY AuthCounts, AuthBound
    <2>3. cut \in Nat /\ cut <= logins
      BY AuthCounts, AuthBound DEF AuthInv, AuthTypes
    <2>4. \A t \in tokens : t.login \in Nat /\ t.login <= logins
      BY AuthCounts, AuthBound DEF AuthInv, OneToken, Auth!Issued, Auth!Logins
    <2>5. \A s \in Reqs : authJob[s].op = "issue" => authJob[s].login \in 1..logins
      BY DEF AuthInv, AuthTypes
    <2>6. logins + 1 > logins /\ ~(logins + 1 <= cut) /\ logins + 1 \notin 1..logins
      BY <2>2, <2>3
    <2>7. \A t \in tokens : t.login # logins + 1 /\ t.login <= logins + 1
      BY <2>2, <2>4
    <2> QED
      BY <2>1, <2>5, <2>6, <2>7 DEF AuthInv, OneToken, Issues
  <1> QED
    BY <1>2, <1>3, <1>4, <1>5 DEF Auth!Requests

LEMMA OneTokenHandle ==
  ASSUME AuthInv, NEW r \in Reqs, Auth!Handle(r) \/ Auth!Fail(r)
  PROVE  OneToken'
  <1>1. CASE Auth!generateTokens(r)
    <2> DEFINE l == authJob[r].login
               t == [login |-> l, gen |-> gen[l] + 1]
    <2>1. /\ tokens' = tokens \cup {t} /\ UNCHANGED <<logins, cut, straddle>>
          /\ authJob[r].op = "issue" /\ authJob'[r].op = "none" /\ t.login = l
          /\ \A s \in Reqs : s # r => authJob'[s] = authJob[s]
      BY <1>1, AuthJobsOK DEF Auth!generateTokens, Auth!End, Auth!Idle
    <2>2. l \in 1..logins
      BY <2>1 DEF AuthInv, AuthTypes
    <2>3. l <= logins
      BY <2>2, AuthCounts, AuthBound
    <2> HIDE DEF l, t
    <2> QED
      BY <2>1, <2>3 DEF AuthInv, OneToken, Issues, l
  <1>2. CASE ~Auth!generateTokens(r)
    <2>1. /\ UNCHANGED <<tokens, logins, cut, straddle>>
          /\ \/ Auth!End(r)
             \/ \E op \in {"verify", "delete", "prune"} : Auth!Then(r, op)
      BY <1>2 DEF Auth!Handle, Auth!CreateCredential, Auth!SetPhoneVerified, Auth!UpdatePassword,
                  Auth!deleteResetToken, Auth!pruneSessions, Auth!Fail
    <2>2. Auth!End(r) => /\ authJob'[r].op # "issue"
                         /\ \A s \in Reqs : s # r => authJob'[s] = authJob[s]
      BY AuthJobsOK DEF Auth!End, Auth!Idle
    <2>3. ASSUME NEW op \in {"verify", "delete", "prune"}, Auth!Then(r, op)
          PROVE  /\ authJob'[r].op # "issue"
                 /\ \A s \in Reqs : s # r => authJob'[s] = authJob[s]
      BY <2>3, AuthJobsOK DEF Auth!Then, AuthJobs
    <2> QED
      BY <2>1, <2>2, <2>3, OneTokenKept
  <1> QED
    BY <1>1, <1>2

LEMMA OneTokenRest ==
  ASSUME AuthInv,
         \/ Auth!VerifyOTP \/ Auth!LogoutAll \/ Auth!Restart \/ UNCHANGED auth
         \/ \E t \in tokens : Auth!Logout(t)
         \/ \E s \in sessions : Auth!RevokeSession(s)
  PROVE  OneToken'
  <1>1. CASE Auth!LogoutAll
    <2>1. /\ tokens' = {} /\ UNCHANGED <<logins, authJob>> /\ cut' = logins
          /\ \A r \in Reqs : authJob[r].op = "issue" => authJob[r].login \in straddle'
      BY <1>1 DEF Auth!LogoutAll, Auth!NoTokens
    <2> QED
      BY <2>1 DEF AuthInv, OneToken, Issues
  <1>2. CASE Auth!Restart
    <2>1. \A r \in Reqs : authJob'[r].op = "none"
      BY <1>2 DEF Auth!Restart, Auth!Idle
    <2> QED
      BY <1>2, <2>1, OneTokenKept DEF Auth!Restart
  <1>3. CASE ~Auth!LogoutAll /\ ~Auth!Restart
    <2>1. tokens' \subseteq tokens /\ UNCHANGED <<logins, cut, straddle, authJob>>
      BY <1>3 DEF Auth!VerifyOTP, Auth!Logout, Auth!RevokeSession, auth
    <2> QED
      BY <2>1, OneTokenKept
  <1> QED
    BY <1>1, <1>2, <1>3

-----------------------------------------------------------------------------
(* Sessions and reset tokens. *)

LEMMA OneSessionStep ==
  ASSUME AuthInv, [Auth!Next]_auth
  PROVE  OneSession'
  <1>1. CASE \E r \in Reqs : Auth!generateTokens(r)
    BY <1>1 DEF AuthInv, OneSession, Auth!generateTokens, Auth!OnlyCurrent
  <1>2. CASE Auth!LogoutAll \/ Auth!Restart
    BY <1>2 DEF AuthInv, OneSession, Auth!LogoutAll, Auth!Restart
  <1>3. CASE \/ \E s \in sessions : Auth!RevokeSession(s)
             \/ \E r \in Reqs : Auth!pruneSessions(r)
    BY <1>3 DEF AuthInv, OneSession, Auth!RevokeSession, Auth!pruneSessions
  <1>4. CASE UNCHANGED <<sessions, current>>
    BY <1>4 DEF AuthInv, OneSession
  <1> QED
    BY <1>1, <1>2, <1>3, <1>4
    DEF Auth!Next, Auth!Requests, Auth!Handle, Auth!VerifyOTP, Auth!Logout, Auth!Register,
        Auth!Login, Auth!ChangePassword, Auth!RefreshToken, Auth!ResetPassword,
        Auth!CreateCredential, Auth!SetPhoneVerified, Auth!UpdatePassword,
        Auth!deleteResetToken, Auth!Fail, auth

LEMMA ResetSets ==
  ASSUME NEW k
  PROVE  /\ IsFiniteSet(ResettingBy(k)) /\ Cardinality(ResettingBy(k)) \in Nat
         /\ Cardinality(ResettingBy(k)) <= Cardinality(Reqs)
         /\ Cardinality(ResettingBy(k)') \in Nat
         /\ IsFiniteSet(DeletingOf(k)) /\ Cardinality(DeletingOf(k)) \in Nat
         /\ Cardinality(DeletingOf(k)') \in Nat
         /\ Cardinality(Reqs) \in Nat
         /\ Cardinality(ResettingBy(k)') + Cardinality(DeletingOf(k)') <= Cardinality(Reqs)
  <1>1. /\ ResettingBy(k) \subseteq Reqs /\ DeletingOf(k) \subseteq Reqs
        /\ ResettingBy(k)' \subseteq Reqs /\ DeletingOf(k)' \subseteq Reqs
        /\ ResettingBy(k)' \cap DeletingOf(k)' = {}
    BY DEF ResettingBy, DeletingOf
  <1>2. IsFiniteSet(Reqs)
    BY ServicesAssumption
  <1> QED
    BY <1>1, <1>2, SizeOfPart, SizeOfTwo, FS_CardinalityType

(* Nobody begins, counts or deletes: the handlers of a token at most go.     *)
LEMMA ResetQuiet ==
  ASSUME AuthInv, UNCHANGED <<uses, cutShort, given, resets>>,
         \A r \in Reqs : \/ authJob'[r] = authJob[r]
                         \/ /\ authJob'[r].op \notin {"reset", "delete"}
                            /\ authJob[r].op # "delete"
  PROVE  ResetUses'
  <1> SUFFICES ASSUME NEW k \in ResetTokens
               PROVE  /\ uses[k] + Cardinality(ResettingBy(k)') <= Cardinality(Reqs) + cutShort[k]
                      /\ k \in resets => uses[k] <= Cardinality(DeletingOf(k)') + cutShort[k]
                      /\ k \notin given => uses[k] = 0
    BY DEF ResetUses
  <1>1. DeletingOf(k)' = DeletingOf(k) /\ ResettingBy(k)' \subseteq ResettingBy(k)
    BY DEF DeletingOf, ResettingBy
  <1>2. Cardinality(ResettingBy(k)') <= Cardinality(ResettingBy(k))
    BY <1>1, ResetSets, SizeOfPart
  <1>3. Cardinality(ResettingBy(k)') \in Nat
    BY ResetSets
  <1>4. Cardinality(ResettingBy(k)) \in Nat
    BY ResetSets
  <1>5. Cardinality(Reqs) \in Nat
    BY ResetSets
  <1>6. uses[k] \in Nat
    BY AuthCounts
  <1>7. cutShort[k] \in Nat
    BY AuthCounts
  <1>8. /\ uses[k] + Cardinality(ResettingBy(k)) <= Cardinality(Reqs) + cutShort[k]
        /\ k \in resets => uses[k] <= Cardinality(DeletingOf(k)) + cutShort[k]
        /\ k \notin given => uses[k] = 0
    BY DEF AuthInv, ResetUses
  <1> QED
    BY <1>1, <1>2, <1>3, <1>4, <1>5, <1>6, <1>7, <1>8

(* The numbers of one token: what follows from them is arithmetic.           *)
LEMMA ResetNumbers ==
  ASSUME AuthInv, NEW k \in ResetTokens
  PROVE  /\ uses[k] \in Nat /\ cutShort[k] \in Nat
         /\ uses[k] + Cardinality(ResettingBy(k)) <= Cardinality(Reqs) + cutShort[k]
         /\ k \in resets => uses[k] <= Cardinality(DeletingOf(k)) + cutShort[k]
         /\ k \notin given => uses[k] = 0
  BY AuthCounts DEF AuthInv, ResetUses

(* A slot of token k moves: those of the other tokens are as they were.      *)
LEMMA ResetOne ==
  ASSUME AuthInv, NEW r \in Reqs, NEW k \in ResetTokens, given' = given,
         resets' = resets \/ resets' = resets \ {k},
         authJob[r].op \in {"none"} \/ (authJob[r].op \in {"reset", "delete"} /\ authJob[r].token = k),
         authJob'[r].op \in {"none"}
           \/ (authJob'[r].op \in {"reset", "delete"} /\ authJob'[r].token = k),
         \A s \in Reqs : s # r => authJob'[s] = authJob[s],
         \A i \in ResetTokens : i # k => uses'[i] = uses[i] /\ cutShort'[i] = cutShort[i],
         uses'[k] + Cardinality(ResettingBy(k)') <= Cardinality(Reqs) + cutShort'[k],
         k \in resets' => uses'[k] <= Cardinality(DeletingOf(k)') + cutShort'[k],
         k \in given
  PROVE  ResetUses'
  <1>1. \A i \in ResetTokens : i # k => ResettingBy(i)' = ResettingBy(i) /\ DeletingOf(i)' = DeletingOf(i)
    BY DEF ResettingBy, DeletingOf
  <1>2. \A i \in ResetTokens : i # k => (i \in resets' <=> i \in resets)
    OBVIOUS
  <1> QED
    BY <1>1, <1>2 DEF AuthInv, ResetUses

LEMMA ResetRequest ==
  ASSUME AuthInv, NEW r \in Reqs, Auth!Requests(r)
  PROVE  ResetUses'
  <1>1. ASSUME NEW k \in resets, Auth!ResetPassword(r, k)
        PROVE  ResetUses'
    <2>1. k \in ResetTokens /\ k \in given
      BY AuthCounts
    <2>2. /\ UNCHANGED <<resets, given, uses, cutShort>> /\ authJob[r].op = "none"
          /\ authJob'[r].op = "reset" /\ authJob'[r].token = k
          /\ \A s \in Reqs : s # r => authJob'[s] = authJob[s]
      BY <1>1, AuthJobsOK DEF Auth!ResetPassword, Auth!Begin, Auth!Idle
    <2>3. DeletingOf(k)' = DeletingOf(k)
      BY <2>2 DEF DeletingOf
    <2>4. uses[k] <= Cardinality(DeletingOf(k)) + cutShort[k]
      BY <2>1, ResetNumbers
    <2>5. Cardinality(ResettingBy(k)') + Cardinality(DeletingOf(k)) <= Cardinality(Reqs)
      BY <2>3, ResetSets
    <2>6. Cardinality(ResettingBy(k)') \in Nat
      BY ResetSets
    <2>7. Cardinality(DeletingOf(k)) \in Nat
      BY ResetSets
    <2>8. Cardinality(Reqs) \in Nat
      BY ResetSets
    <2>9. uses[k] \in Nat
      BY <2>1, ResetNumbers
    <2>10. cutShort[k] \in Nat
      BY <2>1, ResetNumbers
    <2>11. uses[k] + Cardinality(ResettingBy(k)') <= Cardinality(Reqs) + cutShort[k]
      BY <2>4, <2>5, <2>6, <2>7, <2>8, <2>9, <2>10
    <2> QED
      BY <2>1, <2>2, <2>3, <2>4, <2>11, ResetOne
  <1>2. ASSUME NEW op \in Auth!Ops \ {"reset", "delete"}, NEW l, NEW k, Auth!Begin(r, op, l, k),
               UNCHANGED <<uses, cutShort, given, resets>>
        PROVE  ResetUses'
    BY <1>2, AuthJobsOK, ResetQuiet DEF Auth!Begin, Auth!Idle
  <1>3. CASE \/ Auth!Register(r) \/ Auth!Login(r) \/ Auth!ChangePassword(r)
             \/ \E t \in tokens : Auth!RefreshToken(r, t)
    BY <1>2, <1>3 DEF Auth!Register, Auth!Login, Auth!ChangePassword, Auth!RefreshToken, Auth!Ops
  <1> QED
    BY <1>1, <1>3 DEF Auth!Requests

LEMMA ResetHandle ==
  ASSUME AuthInv, NEW r \in Reqs, Auth!Handle(r) \/ Auth!Fail(r)
  PROVE  ResetUses'
  <1> DEFINE k == authJob[r].token
  <1>1. CASE authJob[r].op \notin {"reset", "delete"}
    <2>1. /\ UNCHANGED <<uses, cutShort, given, resets>>
          /\ Auth!End(r) \/ Auth!Then(r, "verify") \/ Auth!Then(r, "prune")
      BY <1>1 DEF Auth!Handle, Auth!CreateCredential, Auth!SetPhoneVerified, Auth!generateTokens,
                  Auth!UpdatePassword, Auth!deleteResetToken, Auth!pruneSessions, Auth!Fail
    <2>2. \A s \in Reqs : s # r => authJob'[s] = authJob[s]
      BY <2>1, AuthJobsOK DEF Auth!End, Auth!Then, AuthJobs
    <2>3. authJob'[r].op \notin {"reset", "delete"}
      BY <2>1, AuthJobsOK DEF Auth!End, Auth!Idle, Auth!Then, AuthJobs
    <2> QED
      BY <1>1, <2>1, <2>2, <2>3, ResetQuiet
  <1>2. CASE authJob[r].op \in {"reset", "delete"}
    <2>1. PICK i \in ResetTokens : i = authJob[r].token /\ i \in given
      BY <1>2, AuthCounts DEF AuthInv, AuthTypes
    <2>2. given' = given
      BY <1>2 DEF Auth!Handle, Auth!CreateCredential, Auth!SetPhoneVerified, Auth!generateTokens,
                  Auth!UpdatePassword, Auth!deleteResetToken, Auth!pruneSessions, Auth!Fail
    <2>3. uses[i] \in Nat
      BY ResetNumbers
    <2>4. cutShort[i] \in Nat
      BY ResetNumbers
    <2>5. /\ uses[i] + Cardinality(ResettingBy(i)) <= Cardinality(Reqs) + cutShort[i]
          /\ i \in resets => uses[i] <= Cardinality(DeletingOf(i)) + cutShort[i]
      BY ResetNumbers
    <2>6. Cardinality(ResettingBy(i)) \in Nat
      BY ResetSets
    <2>7. Cardinality(DeletingOf(i)) \in Nat
      BY ResetSets
    <2>8. Cardinality(Reqs) \in Nat
      BY ResetSets
    <2>9. CASE Auth!UpdatePassword(r)
      <3>1. /\ authJob[r].op = "reset" /\ UNCHANGED <<resets, cutShort>>
            /\ uses' = [uses EXCEPT ![i] = @ + 1] /\ Auth!Then(r, "delete")
        BY <2>9, <1>2, <2>1 DEF Auth!UpdatePassword
      <3>2. /\ authJob'[r].op = "delete" /\ authJob'[r].token = i
            /\ \A s \in Reqs : s # r => authJob'[s] = authJob[s]
        BY <3>1, <2>1, AuthJobsOK DEF Auth!Then, AuthJobs
      <3>3. /\ ResettingBy(i)' = ResettingBy(i) \ {r} /\ r \in ResettingBy(i)
            /\ DeletingOf(i)' = DeletingOf(i) \cup {r} /\ r \notin DeletingOf(i)
        BY <3>1, <3>2, <2>1 DEF ResettingBy, DeletingOf
      <3>4. Cardinality(ResettingBy(i)') = Cardinality(ResettingBy(i)) - 1
        BY <3>3, ResetSets, SizeLess
      <3>5. Cardinality(DeletingOf(i)') = Cardinality(DeletingOf(i)) + 1
        BY <3>3, ResetSets, SizeMore
      <3>6. uses'[i] = uses[i] + 1 /\ \A j \in ResetTokens : j # i => uses'[j] = uses[j]
        BY <3>1, AuthCounts
      <3>7. uses'[i] + Cardinality(ResettingBy(i)') <= Cardinality(Reqs) + cutShort'[i]
        BY <3>1, <3>4, <3>6, <2>3, <2>4, <2>5, <2>6, <2>8
      <3>8. i \in resets' => uses'[i] <= Cardinality(DeletingOf(i)') + cutShort'[i]
        BY <3>1, <3>5, <3>6, <2>3, <2>4, <2>5, <2>7
      <3> QED
        BY <3>1, <3>2, <3>6, <3>7, <3>8, <2>1, <2>2, ResetOne
    <2>10. CASE Auth!deleteResetToken(r)
      <3>1. /\ authJob[r].op = "delete" /\ UNCHANGED <<uses, cutShort>>
            /\ resets' = resets \ {i} /\ authJob'[r].op = "none"
            /\ \A s \in Reqs : s # r => authJob'[s] = authJob[s]
        BY <2>10, <2>1, AuthJobsOK DEF Auth!deleteResetToken, Auth!Spent, Auth!End, Auth!Idle
      <3>2. ResettingBy(i)' = ResettingBy(i)
        BY <3>1 DEF ResettingBy
      <3> QED
        BY <3>1, <3>2, <2>1, <2>2, <2>5, ResetOne
    <2>11. CASE Auth!Fail(r)
      <3>1. /\ UNCHANGED <<uses, resets>> /\ authJob'[r].op = "none"
            /\ \A s \in Reqs : s # r => authJob'[s] = authJob[s]
            /\ cutShort' = IF authJob[r].op = "delete" THEN [cutShort EXCEPT ![i] = @ + 1]
                           ELSE cutShort
        BY <2>11, <2>1, AuthJobsOK DEF Auth!Fail, Auth!End, Auth!Idle
      <3>2. \A j \in ResetTokens : j # i => cutShort'[j] = cutShort[j]
        BY <3>1, AuthCounts
      <3>3. /\ ResettingBy(i)' = ResettingBy(i) \ {r} /\ DeletingOf(i)' = DeletingOf(i) \ {r}
            /\ r \in DeletingOf(i) <=> authJob[r].op = "delete"
        BY <3>1, <2>1 DEF ResettingBy, DeletingOf
      <3>4. /\ Cardinality(ResettingBy(i)') <= Cardinality(ResettingBy(i))
            /\ Cardinality(ResettingBy(i)') \in Nat
        BY <3>3, ResetSets, SizeLess
      <3>5. CASE authJob[r].op = "delete"
        <4>1. cutShort'[i] = cutShort[i] + 1
          BY <3>5, <3>1, AuthCounts
        <4>2. Cardinality(DeletingOf(i)') = Cardinality(DeletingOf(i)) - 1
          BY <3>5, <3>3, ResetSets, SizeLess
        <4>3. uses'[i] + Cardinality(ResettingBy(i)') <= Cardinality(Reqs) + cutShort'[i]
          BY <3>1, <3>4, <4>1, <2>3, <2>4, <2>5, <2>6, <2>8
        <4>4. i \in resets' => uses'[i] <= Cardinality(DeletingOf(i)') + cutShort'[i]
          BY <3>1, <4>1, <4>2, <2>3, <2>4, <2>5, <2>7
        <4> QED
          BY <3>1, <3>2, <4>3, <4>4, <2>1, <2>2, <1>2, ResetOne
      <3>6. CASE authJob[r].op # "delete"
        <4>1. cutShort' = cutShort /\ DeletingOf(i)' = DeletingOf(i)
          BY <3>6, <3>1, <3>3
        <4>2. uses'[i] + Cardinality(ResettingBy(i)') <= Cardinality(Reqs) + cutShort'[i]
          BY <3>1, <3>4, <4>1, <2>3, <2>4, <2>5, <2>6, <2>8
        <4> QED
          BY <3>1, <4>1, <4>2, <2>1, <2>2, <2>5, <1>2, ResetOne
      <3> QED
        BY <3>5, <3>6
    <2> QED
      BY <1>2, <2>9, <2>10, <2>11 DEF Auth!Handle, Auth!CreateCredential, Auth!SetPhoneVerified,
         Auth!generateTokens, Auth!pruneSessions
  <1> QED
    BY <1>1, <1>2

LEMMA ResetRest ==
  ASSUME AuthInv,
         \/ Auth!VerifyOTP \/ Auth!LogoutAll \/ Auth!Restart \/ UNCHANGED auth
         \/ \E t \in tokens : Auth!Logout(t)
         \/ \E s \in sessions : Auth!RevokeSession(s)
  PROVE  ResetUses'
  <1>1. CASE Auth!Restart
    <2> SUFFICES ASSUME NEW k \in ResetTokens
                 PROVE  /\ uses[k] + Cardinality(ResettingBy(k)')
                             <= Cardinality(Reqs) + cutShort[k]
                        /\ k \notin given => uses[k] = 0
      BY <1>1 DEF Auth!Restart, ResetUses
    <2>1. ResettingBy(k)' = {}
      BY <1>1 DEF Auth!Restart, Auth!Idle, ResettingBy
    <2>2. Cardinality(ResettingBy(k)') = 0
      BY <2>1, FS_EmptySet
    <2>3. uses[k] \in Nat
      BY ResetNumbers
    <2>4. cutShort[k] \in Nat
      BY ResetNumbers
    <2>5. Cardinality(ResettingBy(k)) \in Nat
      BY ResetSets
    <2>6. Cardinality(Reqs) \in Nat
      BY ResetSets
    <2> QED
      BY <2>2, <2>3, <2>4, <2>5, <2>6, ResetNumbers
  <1>2. CASE /\ ~Auth!Restart /\ resets' = resets
    <2>1. UNCHANGED <<uses, cutShort, given, authJob>>
      BY <1>2, AuthCounts DEF Auth!VerifyOTP, Auth!LogoutAll, Auth!Logout, Auth!RevokeSession, auth
    <2> QED
      BY <1>2, <2>1, ResetQuiet
  <1>3. CASE /\ ~Auth!Restart /\ resets' # resets
    <2>1. PICK k \in ResetTokens \ given :
             /\ resets' = resets \cup {k} /\ given' = given \cup {k}
             /\ UNCHANGED <<uses, cutShort, authJob>>
      BY <1>3 DEF Auth!VerifyOTP, Auth!LogoutAll, Auth!Logout, Auth!RevokeSession, auth
    <2>2. \A i \in ResetTokens : ResettingBy(i)' = ResettingBy(i) /\ DeletingOf(i)' = DeletingOf(i)
      BY <2>1 DEF ResettingBy, DeletingOf
    <2>3. 0 <= Cardinality(DeletingOf(k)) + cutShort[k]
      <3>1. cutShort[k] \in Nat
        BY AuthCounts
      <3>2. Cardinality(DeletingOf(k)) \in Nat
        BY ResetSets
      <3> QED
        BY <3>1, <3>2
    <2>4. uses[k] = 0
      BY ResetNumbers
    <2> QED
      BY <2>1, <2>2, <2>3, <2>4 DEF AuthInv, ResetUses
  <1> QED
    BY <1>1, <1>2, <1>3

-----------------------------------------------------------------------------
LEMMA AuthStep ==
  ASSUME AuthInv, [Auth!Next]_auth
  PROVE  AuthInv'
  <1>1. CASE \E r \in Reqs : Auth!Requests(r)
    BY <1>1, AuthTypesRequest, OneTokenRequest, ResetRequest, OneSessionStep DEF AuthInv
  <1>2. CASE \E r \in Reqs : Auth!Handle(r) \/ Auth!Fail(r)
    BY <1>2, AuthTypesHandle, OneTokenHandle, ResetHandle, OneSessionStep DEF AuthInv
  <1>3. CASE \/ Auth!VerifyOTP \/ Auth!LogoutAll \/ Auth!Restart \/ UNCHANGED auth
             \/ \E t \in tokens : Auth!Logout(t)
             \/ \E s \in sessions : Auth!RevokeSession(s)
    BY <1>3, AuthTypesRest, OneTokenRest, ResetRest, OneSessionStep DEF AuthInv
  <1> QED
    BY <1>1, <1>2, <1>3 DEF Auth!Next

LEMMA AuthInit == Init => AuthInv
  <1> SUFFICES ASSUME Auth!Init PROVE AuthInv
    BY DEF Init
  <1>1. AuthTypes
    BY AuthBound DEF Auth!Init, AuthTypes, Auth!TypeOK, Auth!Idle, Auth!Ops, Issues
  <1>2. OneToken /\ OneSession
    BY DEF Auth!Init, OneToken, OneSession, Auth!Idle, Issues
  <1>3. ResetUses
    <2> SUFFICES ASSUME NEW k \in ResetTokens
                 PROVE  0 + Cardinality(ResettingBy(k)) <= Cardinality(Reqs) + 0
      BY DEF Auth!Init, ResetUses
    <2>1. Cardinality(ResettingBy(k)) \in Nat
      BY ResetSets
    <2>2. Cardinality(Reqs) \in Nat
      BY ResetSets
    <2> QED
      BY <2>1, <2>2, ResetSets
  <1> QED
    BY <1>1, <1>2, <1>3 DEF AuthInv

LEMMA AuthSize == \A S : Auth!Cardinality(S) = Cardinality(S)
  BY DEF Auth!Cardinality, Cardinality

LEMMA AuthImplied == AuthInv => Auth!AuthSafe
  <1> SUFFICES ASSUME AuthInv PROVE Auth!AuthSafe
    OBVIOUS
  <1>1. Auth!TypeOK /\ Auth!LogoutAllHolds
    BY DEF AuthInv, AuthTypes, OneToken, Auth!LogoutAllHolds
  <1>2. Auth!TokenPerLogin
    <2> SUFFICES ASSUME NEW l \in Auth!Logins
                 PROVE  Cardinality({t \in tokens : t.login = l})
                          + Cardinality({r \in Reqs : authJob[r].op = "issue"
                                                      /\ authJob[r].login = l}) <= 1
      BY AuthSize, Zenon DEF Auth!TokenPerLogin
    <2> DEFINE T == {t \in tokens : t.login = l}
               I == {r \in Reqs : authJob[r].op = "issue" /\ authJob[r].login = l}
    <2>1. \A t, u \in T : t = u
      BY DEF AuthInv, OneToken
    <2>2. \A r, s \in I : r = s
      BY DEF AuthInv, OneToken, Issues
    <2>3. T = {} \/ I = {}
      BY DEF AuthInv, OneToken, Issues
    <2> HIDE DEF T, I
    <2>4. Cardinality(T) = IF T = {} THEN 0 ELSE 1
      BY <2>1, SizeOfOne
    <2>5. Cardinality(I) = IF I = {} THEN 0 ELSE 1
      BY <2>2, SizeOfOne
    <2>6. Cardinality(T) + Cardinality(I) <= 1
      BY <2>3, <2>4, <2>5
    <2> QED
      BY <2>6 DEF T, I
  <1>3. Auth!OneCurrent
    <2>1. Cardinality(current) = IF current = {} THEN 0 ELSE 1
      BY SizeOfOne DEF AuthInv, OneSession
    <2>2. Cardinality(current) <= 1
      BY <2>1
    <2> QED
      BY <2>2, AuthSize DEF AuthInv, OneSession, Auth!OneCurrent
  <1>4. Auth!ResetOnce
    <2> SUFFICES ASSUME NEW k \in ResetTokens
                 PROVE  uses[k] <= Cardinality(Reqs) + cutShort[k]
      BY AuthSize, Zenon DEF Auth!ResetOnce
    <2>1. uses[k] \in Nat
      BY ResetNumbers
    <2>2. cutShort[k] \in Nat
      BY ResetNumbers
    <2>3. Cardinality(ResettingBy(k)) \in Nat
      BY ResetSets
    <2>4. Cardinality(Reqs) \in Nat
      BY ResetSets
    <2> QED
      BY <2>1, <2>2, <2>3, <2>4, ResetNumbers
  <1> QED
    BY <1>1, <1>2, <1>3, <1>4 DEF Auth!AuthSafe

(* One refresh token for each login, none that outlives a logout from        *)
(* everywhere, one current session, and a reset token that is good once but  *)
(* for handlers that overlap or fail: for any number of handlers, logins and *)
(* tokens.                                                                   *)
THEOREM AuthSafety == Spec => []AuthSafe
  <1>1. Init => For("auth", AuthInv)
    BY AuthInit DEF For
  <1>2. For("auth", AuthInv) /\ [Next]_vars => For("auth", AuthInv)'
    BY Moves, AuthStep DEF For
  <1>3. For("auth", AuthInv) => AuthSafe
    BY AuthImplied DEF For, AuthSafe
  <1> QED
    BY <1>1, <1>2, <1>3, PTL DEF Spec

-----------------------------------------------------------------------------
(* One-time codes: auth-service, which counts first, and sms-service, which  *)
(* judges first.  What the two do alike is taken from Otp.                   *)

CountsFirst == focus = "otp"
CodeFocus == focus \in {"otp", "sms"}
Windows == 1..Bound["otp"]
CodeOps == {"none", "count", "expire", "store", "delete"}
CodeJobs == [op : CodeOps, code : 0..Bound["otp"]]

Making(r)  == \/ otpJob[r].op = "store"
              \/ CountsFirst /\ otpJob[r].op = "expire"
Owing(r)   == otpJob[r].op \in {"store", "count"}
MakingIt   == {r \in Reqs : Making(r)}
OwingIt    == {r \in Reqs : Owing(r)}
Deleting(c) == {r \in Reqs : otpJob[r].op = "delete" /\ otpJob[r].code = c}

CodeTypes == /\ Otp!TypeOK /\ otpArrived \in Nat /\ otpArrived <= Bound["otp"]
             /\ codes + Cardinality(MakingIt) <= otpArrived
             /\ \A r \in Reqs : /\ otpJob[r].op = "delete" => otpJob[r].code \in Windows
                                /\ CountsFirst => otpJob[r].op # "count"

(* sms-service has granted what it counted, what a handler is about to count *)
(* and what failed; the last to be granted was judged below the limit.       *)
WindowGrants ==
    IF CountsFirst
    THEN passed <= used /\ passed <= CodeLimit
    ELSE /\ passed <= used + Cardinality(OwingIt) + uncounted
         /\ passed <= CodeLimit + Cardinality(Reqs) - 1 + uncounted

LifeIsSet == used > 0 /\ ~lives => uncounted > 0 \/ \E r \in Reqs : otpJob[r].op = "expire"

(* As long as a code is stored every handler it was good for is about to     *)
(* delete it or could not.                                                   *)
CodeUses ==
    \A c \in Windows :
        /\ accepted[c] <= Cardinality(Reqs) + undeleted[c]
        /\ code = c => accepted[c] <= Cardinality(Deleting(c)) + undeleted[c]
        /\ c > codes => accepted[c] = 0

CodeInv == CodeTypes /\ WindowGrants /\ LifeIsSet /\ CodeUses

(* What differs between the two, by the service in focus.                    *)
SetLife(r) == \/ CountsFirst /\ Otp!SetCounterLife(r)
              \/ ~CountsFirst /\ Sms!SetCounterLife(r)
MakeCode(r) == \/ CountsFirst /\ Otp!StoreCode(r)
               \/ ~CountsFirst /\ Sms!StoreCode(r)
CodeFails(r) == \/ CountsFirst /\ Otp!Fail(r)
                \/ ~CountsFirst /\ Sms!Fail(r)
SmsCounts(r) == ~CountsFirst /\ Sms!IncrementRateLimit(r)
SmsJudges(r) == ~CountsFirst /\ Sms!JudgeRequest(r)
OtpCounts(r) == CountsFirst /\ Otp!CountRequest(r)

LEMMA CodeBound == Bound["otp"] \in Nat /\ CodeLimit \in Nat /\ CodeLimit > 0
  BY ServicesAssumption DEF ServiceNames

LEMMA CodeSlots ==
  ASSUME CodeInv
  PROVE  /\ otpJob \in [Reqs -> CodeJobs] /\ Otp!Idle \in CodeJobs
         /\ \A op \in CodeOps, c \in 0..Bound["otp"] : [op |-> op, code |-> c] \in CodeJobs
  BY CodeBound DEF CodeInv, CodeTypes, Otp!TypeOK, CodeJobs, CodeOps, Otp!Idle

LEMMA CodeNumbers ==
  ASSUME CodeInv
  PROVE  /\ used \in Nat /\ passed \in Nat /\ uncounted \in Nat /\ lives \in BOOLEAN
         /\ codes \in Nat /\ codes <= Bound["otp"] /\ code \in 0..codes
         /\ otpArrived \in Nat /\ otpArrived <= Bound["otp"]
         /\ accepted \in [Windows -> Nat] /\ undeleted \in [Windows -> Nat]
  BY CodeBound DEF CodeInv, CodeTypes, Otp!TypeOK, Otp!Codes, Windows

LEMMA CodeSets ==
  /\ IsFiniteSet(Reqs) /\ Cardinality(Reqs) \in Nat
  /\ IsFiniteSet(MakingIt) /\ Cardinality(MakingIt) \in Nat
  /\ IsFiniteSet(OwingIt) /\ Cardinality(OwingIt) \in Nat
  /\ \A c : /\ IsFiniteSet(Deleting(c)) /\ Cardinality(Deleting(c)) \in Nat
            /\ Cardinality(Deleting(c)) <= Cardinality(Reqs)
            /\ \A r \in Reqs \ Deleting(c) : Cardinality(Deleting(c)) + 1 <= Cardinality(Reqs)
  /\ \A r \in Reqs \ OwingIt : Cardinality(OwingIt) + 1 <= Cardinality(Reqs)
  <1>1. IsFiniteSet(Reqs)
    BY ServicesAssumption
  <1>2. Cardinality(Reqs) \in Nat
    BY <1>1, FS_CardinalityType
  <1>3. MakingIt \subseteq Reqs /\ OwingIt \subseteq Reqs
    BY DEF MakingIt, OwingIt
  <1>4. ASSUME NEW S, S \subseteq Reqs
        PROVE  /\ IsFiniteSet(S) /\ Cardinality(S) \in Nat /\ Cardinality(S) <= Cardinality(Reqs)
               /\ \A r \in Reqs \ S : Cardinality(S) + 1 <= Cardinality(Reqs)
    <2>1. IsFiniteSet(S) /\ Cardinality(S) \in Nat /\ Cardinality(S) <= Cardinality(Reqs)
      BY <1>1, <1>4, SizeOfPart
    <2>2. ASSUME NEW r \in Reqs \ S PROVE Cardinality(S) + 1 <= Cardinality(Reqs)
      <3>1. S \cup {r} \subseteq Reqs
        BY <1>4
      <3>2. Cardinality(S \cup {r}) = Cardinality(S) + 1
        BY <2>1, SizeMore
      <3>3. Cardinality(S \cup {r}) <= Cardinality(Reqs)
        BY <1>1, <3>1, SizeOfPart
      <3> QED
        BY <3>2, <3>3
    <2> QED
      BY <2>1, <2>2
  <1>5. \A c : Deleting(c) \subseteq Reqs
    BY DEF Deleting
  <1> QED
    BY <1>1, <1>2, <1>3, <1>4, <1>5

(* The steps of a handler, once for both services.                           *)
CodeHandler(r) == \/ OtpCounts(r) \/ SmsJudges(r) \/ SmsCounts(r) \/ SetLife(r) \/ MakeCode(r)
                  \/ Otp!Verify(r) \/ Otp!DeleteCode(r) \/ CodeFails(r)

LEMMA CodeMoves ==
  ASSUME CodeInv, CodeFocus, focus = "otp" => [Otp!Next]_otp, focus = "sms" => [Sms!Next]_otp
  PROVE  \/ UNCHANGED otp \/ Otp!CodeExpires \/ Otp!CounterExpires
         \/ \E r \in Reqs : CodeHandler(r)
  <1>1. CASE focus = "otp"
    <2>1. CountsFirst /\ \A r \in Reqs : otpJob[r].op # "count"
      BY <1>1 DEF CodeInv, CodeTypes, CountsFirst
    <2>2. \A r \in Reqs : ~Otp!IncrementRateLimit(r) /\ ~Otp!JudgeRequest(r)
      BY <2>1 DEF Otp!IncrementRateLimit, Otp!JudgeRequest
    <2>3. \A r \in Reqs : /\ Otp!CountRequest(r) => OtpCounts(r)
                          /\ Otp!SetCounterLife(r) => SetLife(r)
                          /\ Otp!StoreCode(r) => MakeCode(r)
                          /\ Otp!Fail(r) => CodeFails(r)
      BY <2>1 DEF OtpCounts, SetLife, MakeCode, CodeFails
    <2>4. Otp!Next \/ UNCHANGED otp
      BY <1>1
    <2> QED
      BY <2>2, <2>3, <2>4 DEF Otp!Next, CodeHandler
  <1>2. CASE focus = "sms"
    <2>1. ~CountsFirst
      BY <1>2 DEF CountsFirst
    <2>2. \A r \in Reqs : ~Sms!CountRequest(r)
      BY DEF Sms!CountRequest
    <2>3. \A r \in Reqs : /\ Sms!Verify(r) = Otp!Verify(r)
                          /\ Sms!DeleteCode(r) = Otp!DeleteCode(r)
      BY DEF Sms!Verify, Otp!Verify, Sms!DeleteCode, Otp!DeleteCode, Sms!Arrives, Otp!Arrives,
             Sms!Idle, Otp!Idle, Sms!End, Otp!End, Sms!Deleted, Otp!Deleted
    <2>4. Sms!CodeExpires = Otp!CodeExpires /\ Sms!CounterExpires = Otp!CounterExpires
      BY DEF Sms!CodeExpires, Otp!CodeExpires, Sms!CounterExpires, Otp!CounterExpires,
             Sms!Codeless, Otp!Codeless
    <2> QED
      BY <1>2, <2>1, <2>2, <2>3, <2>4
         DEF Sms!Next, CodeHandler, SmsCounts, SmsJudges, SetLife, MakeCode, CodeFails
  <1> QED
    BY <1>1, <1>2 DEF CodeFocus

(* What becomes of the slot.                                                 *)
LEMMA CodeSlot ==
  ASSUME CodeInv, NEW r \in Reqs, CodeHandler(r)
  PROVE  \E op \in CodeOps, c \in 0..Bound["otp"] :
            /\ otpJob' = [otpJob EXCEPT ![r] = [op |-> op, code |-> c]]
            /\ op = "delete" => Otp!Verify(r) /\ c = code /\ code \in Windows
            /\ op = "count" => ~CountsFirst /\ MakeCode(r)
            /\ op = "store" => \/ OtpCounts(r) \/ SmsJudges(r)
                               \/ CountsFirst /\ otpJob[r].op = "expire"
            /\ op = "expire" => OtpCounts(r) \/ SmsCounts(r)
  <1> USE DEF Otp!Goto, Sms!Goto, Otp!End, Sms!End, Otp!Idle, Sms!Idle, CodeOps
  <1>0. 0 \in 0..Bound["otp"]
    BY CodeBound
  <1>1. CASE OtpCounts(r)
    <2>1. \E op \in {"expire", "store", "none"} :
            otpJob' = [otpJob EXCEPT ![r] = [op |-> op, code |-> 0]]
      BY <1>1 DEF OtpCounts, Otp!CountRequest, Otp!Counted, Otp!AfterCount
    <2> QED
      BY <1>0, <1>1, <2>1
  <1>2. CASE SmsJudges(r)
    <2>1. otpJob' = [otpJob EXCEPT ![r] = [op |-> "store", code |-> 0]]
      BY <1>2 DEF SmsJudges, Sms!JudgeRequest
    <2> QED
      BY <1>0, <1>2, <2>1
  <1>3. CASE SmsCounts(r)
    BY <1>0, <1>3 DEF SmsCounts, Sms!IncrementRateLimit, Sms!Counted, Sms!AfterCount
  <1>4. CASE SetLife(r)
    BY <1>0, <1>4 DEF SetLife, Otp!SetCounterLife, Sms!SetCounterLife, Otp!AfterCount, Sms!AfterCount
  <1>5. CASE MakeCode(r)
    BY <1>0, <1>5 DEF MakeCode, Otp!StoreCode, Sms!StoreCode
  <1>6. CASE Otp!Verify(r)
    <2>1. code \in Windows /\ code \in 0..Bound["otp"]
      BY <1>6, CodeNumbers, CodeBound DEF Otp!Verify, Windows
    <2> QED
      BY <1>6, <2>1 DEF Otp!Verify
  <1>7. CASE Otp!DeleteCode(r)
    BY <1>0, <1>7 DEF Otp!DeleteCode
  <1>8. CASE CodeFails(r)
    BY <1>0, <1>8 DEF CodeFails, Otp!Fail, Sms!Fail
  <1> QED
    BY <1>1, <1>2, <1>3, <1>4, <1>5, <1>6, <1>7, <1>8 DEF CodeHandler


(* The counts of a slot that moves on.                                       *)
LEMMA CodeSetsAfter ==
  ASSUME CodeInv, CodeFocus, UNCHANGED focus, NEW r \in Reqs, NEW j \in CodeJobs,
         otpJob' = [otpJob EXCEPT ![r] = j]
  PROVE  /\ otpJob'[r] = j /\ \A s \in Reqs : s # r => otpJob'[s] = otpJob[s]
         /\ Making(r)' /\ ~Making(r) => Cardinality(MakingIt') = Cardinality(MakingIt) + 1
         /\ Making(r)' /\ Making(r) => Cardinality(MakingIt') = Cardinality(MakingIt)
         /\ ~Making(r)' /\ Making(r) => Cardinality(MakingIt') = Cardinality(MakingIt) - 1
         /\ ~Making(r)' /\ ~Making(r) => Cardinality(MakingIt') = Cardinality(MakingIt)
         /\ Owing(r)' /\ ~Owing(r) => Cardinality(OwingIt') = Cardinality(OwingIt) + 1
         /\ Owing(r)' /\ Owing(r) => Cardinality(OwingIt') = Cardinality(OwingIt)
         /\ ~Owing(r)' /\ Owing(r) => Cardinality(OwingIt') = Cardinality(OwingIt) - 1
         /\ ~Owing(r)' /\ ~Owing(r) => Cardinality(OwingIt') = Cardinality(OwingIt)
  <1>1. otpJob'[r] = j /\ \A s \in Reqs : s # r => otpJob'[s] = otpJob[s]
    BY CodeSlots
  <1>2. \A s \in Reqs : s # r => (Making(s)' <=> Making(s)) /\ (Owing(s)' <=> Owing(s))
    BY <1>1 DEF Making, Owing, CountsFirst
  <1>3. IsFiniteSet(MakingIt) /\ IsFiniteSet(OwingIt)
    BY CodeSets
  <1>4. MakingIt' = IF Making(r)' THEN MakingIt \cup {r} ELSE MakingIt \ {r}
    BY <1>2 DEF MakingIt
  <1>5. OwingIt' = IF Owing(r)' THEN OwingIt \cup {r} ELSE OwingIt \ {r}
    BY <1>2 DEF OwingIt
  <1>6. (r \in MakingIt <=> Making(r)) /\ (r \in OwingIt <=> Owing(r))
    BY DEF MakingIt, OwingIt
  <1>7. /\ Making(r)' /\ ~Making(r) => Cardinality(MakingIt') = Cardinality(MakingIt) + 1
        /\ ~Making(r)' /\ Making(r) => Cardinality(MakingIt') = Cardinality(MakingIt) - 1
    BY <1>3, <1>4, <1>6, SizeMore, SizeLess
  <1>8. (Making(r)' <=> Making(r)) => MakingIt' = MakingIt
    BY <1>4, <1>6
  <1>9. /\ Owing(r)' /\ ~Owing(r) => Cardinality(OwingIt') = Cardinality(OwingIt) + 1
        /\ ~Owing(r)' /\ Owing(r) => Cardinality(OwingIt') = Cardinality(OwingIt) - 1
    BY <1>3, <1>5, <1>6, SizeMore, SizeLess
  <1>10. (Owing(r)' <=> Owing(r)) => OwingIt' = OwingIt
    BY <1>5, <1>6
  <1> QED
    BY <1>1, <1>7, <1>8, <1>9, <1>10

(* What a handler does to the counters, the codes and what is owed.          *)
LEMMA CodeEffects ==
  ASSUME CodeInv, CodeFocus, UNCHANGED focus, NEW r \in Reqs, CodeHandler(r)
  PROVE  /\ otpJob' \in [Reqs -> CodeJobs]
         /\ \A s \in Reqs : s # r => otpJob'[s] = otpJob[s]
         /\ otpJob'[r].op = "delete" => otpJob'[r].code \in Windows
         /\ CountsFirst => otpJob'[r].op # "count"
  <1>1. PICK op \in CodeOps, c \in 0..Bound["otp"] :
            /\ otpJob' = [otpJob EXCEPT ![r] = [op |-> op, code |-> c]]
            /\ op = "delete" => c = code /\ code \in Windows
            /\ op = "count" => ~CountsFirst
    BY CodeSlot
  <1>2. [op |-> op, code |-> c] \in CodeJobs
    BY CodeSlots
  <1> QED
    BY <1>1, <1>2, CodeSlots

LEMMA CodeTypesKept ==
  ASSUME CodeInv, CodeFocus, UNCHANGED focus, NEW r \in Reqs, CodeHandler(r)
  PROVE  CodeTypes'
  <1>1. PICK op \in CodeOps, c \in 0..Bound["otp"] :
            /\ otpJob' = [otpJob EXCEPT ![r] = [op |-> op, code |-> c]]
            /\ op = "delete" => Otp!Verify(r)
            /\ op = "count" => ~CountsFirst /\ MakeCode(r)
            /\ op = "store" => \/ OtpCounts(r) \/ SmsJudges(r)
                               \/ CountsFirst /\ otpJob[r].op = "expire"
            /\ op = "expire" => OtpCounts(r) \/ SmsCounts(r)
    BY CodeSlot
  <1>2. [op |-> op, code |-> c] \in CodeJobs
    BY CodeSlots
  <1>3. otpJob'[r] = [op |-> op, code |-> c]
    BY <1>1, CodeSlots
  <1>4. Cardinality(MakingIt) \in Nat
    BY CodeSets
  <1>5. /\ Making(r)' /\ ~Making(r) => Cardinality(MakingIt') = Cardinality(MakingIt) + 1
        /\ Making(r)' /\ Making(r) => Cardinality(MakingIt') = Cardinality(MakingIt)
        /\ ~Making(r)' /\ Making(r) => Cardinality(MakingIt') = Cardinality(MakingIt) - 1
        /\ ~Making(r)' /\ ~Making(r) => Cardinality(MakingIt') = Cardinality(MakingIt)
    BY <1>1, <1>2, CodeSetsAfter
  <1>6. codes + Cardinality(MakingIt) <= otpArrived
    BY DEF CodeInv, CodeTypes
  <1>7. /\ otpArrived' \in Nat /\ otpArrived' <= Bound["otp"]
        /\ otpArrived' = otpArrived \/ (otpArrived' = otpArrived + 1 /\ otpJob[r].op = "none")
    BY CodeNumbers, CodeBound
       DEF CodeHandler, OtpCounts, Otp!CountRequest, SmsJudges, Sms!JudgeRequest, SmsCounts,
           Sms!IncrementRateLimit, SetLife, Otp!SetCounterLife, Sms!SetCounterLife, MakeCode,
           Otp!StoreCode, Sms!StoreCode, Otp!Verify, Otp!DeleteCode, CodeFails, Otp!Fail, Sms!Fail,
           Otp!Arrives, Sms!Arrives, Otp!Idle, Sms!Idle
  <1>8. codes' = IF MakeCode(r) THEN codes + 1 ELSE codes
    BY DEF CodeHandler, OtpCounts, Otp!CountRequest, SmsJudges, Sms!JudgeRequest, SmsCounts,
           Sms!IncrementRateLimit, SetLife, Otp!SetCounterLife, Sms!SetCounterLife, MakeCode,
           Otp!StoreCode, Sms!StoreCode, Otp!Verify, Otp!DeleteCode, CodeFails, Otp!Fail, Sms!Fail,
           Otp!Codeless, Sms!Codeless
  <1>9. MakeCode(r) => otpJob[r].op = "store"
    BY DEF MakeCode, Otp!StoreCode, Sms!StoreCode
  <1>10. codes' + Cardinality(MakingIt') <= otpArrived'
    <2>1. Making(r)' => \/ op = "store"
                        \/ CountsFirst /\ op = "expire"
      BY <1>3 DEF Making, CountsFirst
    <2>2. OtpCounts(r) \/ SmsJudges(r) => otpArrived' = otpArrived + 1 /\ otpJob[r].op = "none"
      BY DEF OtpCounts, Otp!CountRequest, SmsJudges, Sms!JudgeRequest, Otp!Arrives, Sms!Arrives,
             Otp!Idle, Sms!Idle
    <2>3. CountsFirst => ~SmsCounts(r)
      BY DEF SmsCounts
    <2>4. /\ otpJob[r].op = "store" => Making(r)
          /\ CountsFirst /\ otpJob[r].op = "expire" => Making(r)
          /\ otpJob[r].op = "none" => ~Making(r)
      BY DEF Making
    <2>5. MakeCode(r) => ~Making(r)' /\ otpArrived' = otpArrived
      <3>1. MakeCode(r) => op # "store" /\ op # "expire" /\ otpArrived' = otpArrived
        BY <1>3 DEF MakeCode, Otp!StoreCode, Sms!StoreCode, Otp!Goto, Sms!Goto, CodeInv, CodeTypes,
                    Otp!TypeOK, CountsFirst
      <3> QED
        BY <3>1, <2>1
    <2>6. codes \in Nat /\ otpArrived \in Nat
      BY CodeNumbers
    <2> HIDE DEF MakeCode, Making, CountsFirst
    <2>7. CASE MakeCode(r)
      <3>1. codes' = codes + 1 /\ Cardinality(MakingIt') = Cardinality(MakingIt) - 1
        BY <2>7, <1>5, <1>8, <1>9, <2>4, <2>5
      <3> QED
        BY <3>1, <2>5, <2>6, <2>7, <1>4, <1>6
    <2>8. CASE ~MakeCode(r) /\ Making(r)' /\ ~Making(r)
      <3>1. otpArrived' = otpArrived + 1
        BY <2>8, <2>1, <2>2, <2>3, <2>4, <1>1
      <3> QED
        BY <3>1, <2>8, <2>6, <1>4, <1>5, <1>6, <1>8
    <2>9. CASE /\ ~MakeCode(r)
               /\ ~Making(r)' \/ Making(r)
      <3>1. Cardinality(MakingIt') <= Cardinality(MakingIt) /\ Cardinality(MakingIt') \in Int
        BY <2>9, <1>4, <1>5
      <3> QED
        BY <3>1, <2>9, <2>6, <1>4, <1>6, <1>7, <1>8
    <2> QED
      BY <2>7, <2>8, <2>9
  <1>11. Otp!TypeOK'
    <2>1. /\ otpJob' \in [Reqs -> CodeJobs]
      BY CodeEffects
    <2>2. codes' \in 0..Bound["otp"]
      <3>1. Cardinality(MakingIt') \in Nat
        <4>1. MakingIt' \subseteq Reqs
          BY DEF MakingIt
        <4> QED
          BY <4>1, SizeOfPart, ServicesAssumption
      <3> QED
        BY <3>1, <1>7, <1>8, <1>10, CodeNumbers, CodeBound
    <2>3. used' \in Nat /\ passed' \in Nat /\ uncounted' \in Nat
      BY CodeNumbers
         DEF CodeHandler, OtpCounts, Otp!CountRequest, SmsJudges, Sms!JudgeRequest, SmsCounts,
           Sms!IncrementRateLimit, SetLife, Otp!SetCounterLife, Sms!SetCounterLife, MakeCode,
           Otp!StoreCode, Sms!StoreCode, Otp!Verify, Otp!DeleteCode, CodeFails, Otp!Fail, Sms!Fail
    <2>6. lives' = lives \/ SetLife(r)
      BY DEF CodeHandler, OtpCounts, Otp!CountRequest, SmsJudges, Sms!JudgeRequest, SmsCounts,
             Sms!IncrementRateLimit, MakeCode, Otp!StoreCode, Sms!StoreCode, Otp!Verify,
             Otp!DeleteCode, CodeFails, Otp!Fail, Sms!Fail
    <2>7. SetLife(r) => lives' \in BOOLEAN
      <3>1. SetLife(r) => lives' = (used > 0)
        BY DEF SetLife, Otp!SetCounterLife, Sms!SetCounterLife
      <3>2. (used > 0) \in BOOLEAN
        OBVIOUS
      <3> QED
        BY <3>1, <3>2, Zenon
    <2>9. lives \in BOOLEAN
      BY CodeNumbers
    <2>8. lives' \in BOOLEAN
      BY <2>6, <2>7, <2>9, Zenon
    <2>4. code' \in 0..codes'
      BY CodeNumbers
         DEF CodeHandler, OtpCounts, Otp!CountRequest, SmsJudges, Sms!JudgeRequest, SmsCounts,
           Sms!IncrementRateLimit, SetLife, Otp!SetCounterLife, Sms!SetCounterLife, MakeCode,
           Otp!StoreCode, Sms!StoreCode, Otp!Verify, Otp!DeleteCode, CodeFails, Otp!Fail, Sms!Fail,
           Otp!Codeless, Sms!Codeless, Otp!Deleted
    <2>5. accepted' \in [Windows -> Nat] /\ undeleted' \in [Windows -> Nat]
      <3>1. /\ code # 0 => code \in Windows
            /\ otpJob[r].op = "delete" => otpJob[r].code \in Windows
        BY CodeNumbers, CodeBound DEF CodeInv, CodeTypes, Windows
      <3>2. \A c1 \in Windows : accepted[c1] + 1 \in Nat /\ undeleted[c1] + 1 \in Nat
        BY CodeNumbers
      <3>3. accepted' = accepted \/ (code # 0 /\ accepted' = [accepted EXCEPT ![code] = accepted[code] + 1])
        BY DEF CodeHandler, OtpCounts, Otp!CountRequest, SmsJudges, Sms!JudgeRequest, SmsCounts,
           Sms!IncrementRateLimit, SetLife, Otp!SetCounterLife, Sms!SetCounterLife, MakeCode,
           Otp!StoreCode, Sms!StoreCode, Otp!Verify, Otp!DeleteCode, CodeFails, Otp!Fail, Sms!Fail,
           Otp!Codeless, Sms!Codeless
      <3>4. \/ undeleted' = undeleted
            \/ /\ otpJob[r].op = "delete"
               /\ undeleted' = [undeleted EXCEPT ![otpJob[r].code] = undeleted[otpJob[r].code] + 1]
        BY DEF CodeHandler, OtpCounts, Otp!CountRequest, SmsJudges, Sms!JudgeRequest, SmsCounts,
           Sms!IncrementRateLimit, SetLife, Otp!SetCounterLife, Sms!SetCounterLife, MakeCode,
           Otp!StoreCode, Sms!StoreCode, Otp!Verify, Otp!DeleteCode, CodeFails, Otp!Fail, Sms!Fail,
           Otp!Codeless, Sms!Codeless
      <3> QED
        BY <3>1, <3>2, <3>3, <3>4, CodeNumbers
    <2> QED
      BY <2>1, <2>2, <2>3, <2>4, <2>5, <2>8 DEF Otp!TypeOK, CodeJobs, CodeOps, Windows, Otp!Codes
  <1>12. \A s \in Reqs : /\ otpJob'[s].op = "delete" => otpJob'[s].code \in Windows
                         /\ CountsFirst' => otpJob'[s].op # "count"
    BY CodeEffects DEF CodeInv, CodeTypes, CountsFirst
  <1> QED
    BY <1>7, <1>10, <1>11, <1>12 DEF CodeTypes

(* The window, and the life of its counter.                                  *)
LEMMA CodeWindowKept ==
  ASSUME CodeInv, CodeFocus, UNCHANGED focus, NEW r \in Reqs, CodeHandler(r)
  PROVE  WindowGrants' /\ LifeIsSet'
  <1>1. PICK op \in CodeOps, c \in 0..Bound["otp"] :
            otpJob' = [otpJob EXCEPT ![r] = [op |-> op, code |-> c]]
    BY CodeSlot
  <1>2. [op |-> op, code |-> c] \in CodeJobs
    BY CodeSlots
  <1>3. otpJob'[r].op = op /\ \A s \in Reqs : s # r => otpJob'[s] = otpJob[s]
    BY <1>1, CodeSlots
  <1>4. Cardinality(OwingIt) \in Nat
    BY CodeSets
  <1>5. /\ Owing(r)' /\ ~Owing(r) => Cardinality(OwingIt') = Cardinality(OwingIt) + 1
        /\ Owing(r)' /\ Owing(r) => Cardinality(OwingIt') = Cardinality(OwingIt)
        /\ ~Owing(r)' /\ Owing(r) => Cardinality(OwingIt') = Cardinality(OwingIt) - 1
        /\ ~Owing(r)' /\ ~Owing(r) => Cardinality(OwingIt') = Cardinality(OwingIt)
    BY <1>1, <1>2, CodeSetsAfter
  <1>6. used \in Nat /\ passed \in Nat /\ uncounted \in Nat /\ CodeLimit \in Nat /\ CodeLimit > 0
    BY CodeNumbers, CodeBound
  <1>7. Cardinality(Reqs) \in Nat
    BY CodeSets
  <1>8. ~Owing(r) => Cardinality(OwingIt) + 1 <= Cardinality(Reqs)
    BY CodeSets DEF OwingIt
  <1>9. /\ Owing(r) <=> otpJob[r].op \in {"store", "count"}
        /\ Owing(r)' <=> op \in {"store", "count"}
    BY <1>3 DEF Owing
  <1>10. WindowGrants /\ LifeIsSet
    BY DEF CodeInv
  <1>11. CountsFirst' = CountsFirst
    BY DEF CountsFirst
  <1>12. ASSUME UNCHANGED <<used, passed, uncounted>>,
                Owing(r) => Owing(r)' \/ CountsFirst
         PROVE  WindowGrants'
    <2>1. CASE CountsFirst
      BY <1>12, <1>10, <1>11, <2>1 DEF WindowGrants
    <2>2. CASE ~CountsFirst
      <3>1. Cardinality(OwingIt) <= Cardinality(OwingIt') /\ Cardinality(OwingIt') \in Int
        BY <1>4, <1>5, <1>12, <2>2
      <3>2. passed <= used + Cardinality(OwingIt')  + uncounted
        BY <1>4, <1>6, <1>10, <2>2, <3>1 DEF WindowGrants
      <3> QED
        BY <1>12, <1>10, <1>11, <2>2, <3>2 DEF WindowGrants
    <2> QED
      BY <2>1, <2>2
  <1>13. ASSUME otpJob[r].op = "expire" => uncounted' > 0 \/ lives' \/ op = "expire",
                used' = used \/ used > 0 \/ op = "expire",
                uncounted' = uncounted \/ uncounted' = uncounted + 1, lives => lives'
         PROVE  LifeIsSet'
    <2>1. CASE used > 0 /\ ~lives
      BY <1>3, <1>6, <1>10, <1>13, <2>1 DEF LifeIsSet
    <2>2. CASE used = 0 /\ used' > 0
      BY <1>3, <1>13, <2>2 DEF LifeIsSet
    <2> QED
      BY <1>6, <1>13, <2>1, <2>2 DEF LifeIsSet
  <1>14. CASE OtpCounts(r)
    <2>1. /\ CountsFirst /\ otpJob[r].op = "none" /\ used' = used + 1
          /\ UNCHANGED <<lives, uncounted>>
          /\ \/ passed' = passed + 1 /\ used < CodeLimit /\ (used = 0 => op = "expire")
             \/ passed' = passed /\ used >= CodeLimit
      BY <1>14, <1>3, <1>6, CodeSlots
         DEF OtpCounts, Otp!CountRequest, Otp!Arrives, Otp!Idle, Otp!Below, Otp!Counted,
             Otp!IsFirst, Otp!Goto
    <2>2. WindowGrants'
      BY <2>1, <1>6, <1>10, <1>11 DEF WindowGrants
    <2> QED
      BY <2>1, <2>2, <1>6, <1>13
  <1>15. CASE SmsJudges(r)
    <2>1. /\ ~CountsFirst /\ otpJob[r].op = "none" /\ op = "store" /\ used < CodeLimit
          /\ passed' = passed + 1 /\ UNCHANGED <<used, lives, uncounted>>
      BY <1>15, <1>3, CodeSlots
         DEF SmsJudges, Sms!JudgeRequest, Sms!Arrives, Sms!Idle, Sms!Below, Sms!Goto
    <2>2. Cardinality(OwingIt') = Cardinality(OwingIt) + 1
      BY <2>1, <1>5, <1>9
    <2>3. Cardinality(OwingIt) + 1 <= Cardinality(Reqs)
      BY <2>1, <1>8, <1>9
    <2>4. passed <= used + Cardinality(OwingIt) + uncounted
      BY <2>1, <1>10 DEF WindowGrants
    <2>5. /\ passed' <= used' + Cardinality(OwingIt') + uncounted'
          /\ passed' <= CodeLimit + Cardinality(Reqs) - 1 + uncounted'
      BY <2>1, <2>2, <2>3, <2>4, <1>4, <1>6, <1>7
    <2> QED
      BY <2>1, <2>5, <1>11, <1>13 DEF WindowGrants
  <1>16. CASE SmsCounts(r)
    <2>1. /\ ~CountsFirst /\ otpJob[r].op = "count" /\ op \in {"expire", "none"}
          /\ used' = used + 1 /\ UNCHANGED <<passed, lives, uncounted>> /\ (used = 0 => op = "expire")
      BY <1>16, <1>3, <1>6, CodeSlots
         DEF SmsCounts, Sms!IncrementRateLimit, Sms!Counted, Sms!IsFirst, Sms!Goto, Sms!AfterCount
    <2>2. Cardinality(OwingIt') = Cardinality(OwingIt) - 1
      BY <2>1, <1>5, <1>9
    <2>3. passed <= used + Cardinality(OwingIt) + uncounted
      BY <2>1, <1>10 DEF WindowGrants
    <2>4. passed' <= used' + Cardinality(OwingIt') + uncounted'
      BY <2>1, <2>2, <2>3, <1>4, <1>6
    <2>5. WindowGrants'
      BY <2>1, <2>4, <1>10, <1>11 DEF WindowGrants
    <2> QED
      BY <2>1, <2>5, <1>6, <1>13
  <1>17. CASE SetLife(r)
    <2>1. /\ otpJob[r].op = "expire" /\ lives' = (used > 0)
          /\ UNCHANGED <<used, passed, uncounted>>
      BY <1>17 DEF SetLife, Otp!SetCounterLife, Sms!SetCounterLife
    <2> QED
      BY <2>1, <1>9, <1>12 DEF LifeIsSet
  <1>18. CASE MakeCode(r)
    <2>1. /\ otpJob[r].op = "store" /\ UNCHANGED <<used, lives, passed, uncounted>>
          /\ ~CountsFirst => op = "count"
      BY <1>18, <1>3, CodeSlots DEF MakeCode, Otp!StoreCode, Sms!StoreCode, Sms!Goto
    <2> QED
      BY <2>1, <1>9, <1>12, <1>13
  <1>19. CASE Otp!Verify(r) \/ Otp!DeleteCode(r)
    <2>1. /\ otpJob[r].op \in {"none", "delete"} /\ UNCHANGED <<used, lives, passed, uncounted>>
      BY <1>19 DEF Otp!Verify, Otp!DeleteCode, Otp!Arrives, Otp!Idle
    <2> QED
      BY <2>1, <1>9, <1>12, <1>13
  <1>20. CASE CodeFails(r)
    <2>1. /\ UNCHANGED <<used, lives, passed>>
          /\ uncounted' = uncounted \/ uncounted' = uncounted + 1
          /\ otpJob[r].op = "expire" => uncounted' = uncounted + 1
          /\ ~CountsFirst /\ Owing(r) => uncounted' = uncounted + 1
      BY <1>20, <1>9 DEF CodeFails, Otp!Fail, Sms!Fail
    <2>2. CASE Owing(r) /\ ~CountsFirst
      <3>1. Cardinality(OwingIt') >= Cardinality(OwingIt) - 1 /\ Cardinality(OwingIt') \in Int
        BY <2>2, <1>4, <1>5
      <3>2. passed <= used + Cardinality(OwingIt) + uncounted
        BY <2>2, <1>10 DEF WindowGrants
      <3>3. passed <= CodeLimit + Cardinality(Reqs) - 1 + uncounted
        BY <2>2, <1>10 DEF WindowGrants
      <3>4. /\ passed' <= used' + Cardinality(OwingIt') + uncounted'
            /\ passed' <= CodeLimit + Cardinality(Reqs) - 1 + uncounted'
        BY <2>1, <2>2, <3>1, <3>2, <3>3, <1>4, <1>6, <1>7
      <3> QED
        BY <2>1, <2>2, <3>4, <1>6, <1>11, <1>13 DEF WindowGrants
    <2>3. CASE ~Owing(r) /\ ~CountsFirst
      <3>1. Cardinality(OwingIt') >= Cardinality(OwingIt) /\ Cardinality(OwingIt') \in Int
        BY <2>3, <1>4, <1>5
      <3>2. passed <= used + Cardinality(OwingIt) + uncounted
        BY <2>3, <1>10 DEF WindowGrants
      <3>3. passed <= CodeLimit + Cardinality(Reqs) - 1 + uncounted
        BY <2>3, <1>10 DEF WindowGrants
      <3>4. /\ passed' <= used' + Cardinality(OwingIt') + uncounted'
            /\ passed' <= CodeLimit + Cardinality(Reqs) - 1 + uncounted'
        BY <2>1, <3>1, <3>2, <3>3, <1>4, <1>6, <1>7
      <3> QED
        BY <2>1, <2>3, <3>4, <1>6, <1>11, <1>13 DEF WindowGrants
    <2>4. CASE CountsFirst
      BY <2>1, <2>4, <1>6, <1>10, <1>11, <1>13 DEF WindowGrants
    <2> QED
      BY <2>2, <2>3, <2>4
  <1> QED
    BY <1>14, <1>15, <1>16, <1>17, <1>18, <1>19, <1>20 DEF CodeHandler

(* A code is good while it is stored, and its users are about to delete it.  *)
LEMMA CodeUsesKept ==
  ASSUME CodeInv, CodeFocus, UNCHANGED focus, NEW r \in Reqs, CodeHandler(r)
  PROVE  CodeUses'
  <1> SUFFICES ASSUME NEW c \in Windows
               PROVE  /\ accepted'[c] <= Cardinality(Reqs) + undeleted'[c]
                      /\ code' = c => accepted'[c] <= Cardinality(Deleting(c)') + undeleted'[c]
                      /\ c > codes' => accepted'[c] = 0
    BY DEF CodeUses
  <1>1. \A s \in Reqs : s # r => otpJob'[s] = otpJob[s]
    BY CodeEffects
  <1>2. /\ accepted[c] <= Cardinality(Reqs) + undeleted[c]
        /\ code = c => accepted[c] <= Cardinality(Deleting(c)) + undeleted[c]
        /\ c > codes => accepted[c] = 0
    BY DEF CodeInv, CodeUses
  <1>3. Cardinality(Reqs) \in Nat
    BY CodeSets
  <1>4. Cardinality(Deleting(c)) \in Nat
    BY CodeSets
  <1>5. accepted[c] \in Nat /\ undeleted[c] \in Nat
    BY CodeNumbers
  <1>6. code \in 0..codes /\ codes \in Nat /\ c \in Nat /\ c # 0
    BY CodeNumbers, CodeBound DEF Windows
  <1>7. CASE otpJob[r].op # "delete" /\ ~MakeCode(r) /\ ~Otp!Verify(r)
    <2>1. /\ UNCHANGED <<code, codes, accepted, undeleted>>
      BY <1>7 DEF CodeHandler, OtpCounts, Otp!CountRequest, SmsJudges, Sms!JudgeRequest, SmsCounts,
           Sms!IncrementRateLimit, SetLife, Otp!SetCounterLife, Sms!SetCounterLife, Otp!DeleteCode,
           CodeFails, Otp!Fail, Sms!Fail, Otp!Codeless, Sms!Codeless
    <2>2. otpJob'[r].op # "delete"
      BY <1>7, CodeSlot, CodeSlots
    <2>3. Deleting(c)' = Deleting(c)
      BY <1>1, <1>7, <2>2 DEF Deleting
    <2> QED
      BY <1>2, <2>1, <2>3
  <1>8. CASE MakeCode(r)
    <2>1. /\ code' = codes + 1 /\ codes' = codes + 1 /\ UNCHANGED <<accepted, undeleted>>
      BY <1>8 DEF MakeCode, Otp!StoreCode, Sms!StoreCode
    <2>2. Cardinality(Deleting(c)') \in Nat
      BY ServicesAssumption, SizeOfPart DEF Deleting
    <2> QED
      BY <2>1, <2>2, <1>2, <1>5, <1>6
  <1>9. CASE Otp!Verify(r)
    <2>1. /\ otpJob[r].op = "none" /\ UNCHANGED <<code, codes, undeleted>> /\ code \in Windows
          /\ accepted' = [accepted EXCEPT ![code] = @ + 1]
          /\ otpJob'[r].op = "delete" /\ otpJob'[r].code = code
      BY <1>9, <1>6, CodeSlots, CodeNumbers, CodeBound DEF Otp!Verify, Otp!Arrives, Otp!Idle, Windows
    <2>2. CASE c # code
      BY <2>1, <2>2, <1>2, CodeNumbers
    <2>3. CASE c = code
      <3>1. Deleting(c)' = Deleting(c) \cup {r} /\ r \notin Deleting(c)
        BY <2>1, <2>3, <1>1 DEF Deleting
      <3>2. Cardinality(Deleting(c)') = Cardinality(Deleting(c)) + 1
        BY <3>1, CodeSets, SizeMore
      <3>3. Cardinality(Deleting(c)) + 1 <= Cardinality(Reqs)
        BY <3>1, CodeSets
      <3>4. accepted'[c] = accepted[c] + 1 /\ undeleted'[c] = undeleted[c]
        BY <2>1, <2>3, CodeNumbers
      <3> QED
        BY <2>1, <2>3, <3>2, <3>3, <3>4, <1>2, <1>3, <1>4, <1>5, <1>6
    <2> QED
      BY <2>2, <2>3
  <1>10. CASE otpJob[r].op = "delete"
    <2>1. otpJob'[r].op # "delete"
      BY <1>10, CodeSlot, CodeSlots DEF Otp!Verify, Otp!Arrives, Otp!Idle
    <2>2. UNCHANGED <<accepted, codes>> /\ (Otp!DeleteCode(r) \/ CodeFails(r))
      BY <1>10 DEF CodeHandler, OtpCounts, Otp!CountRequest, SmsJudges, Sms!JudgeRequest, SmsCounts,
           Sms!IncrementRateLimit, SetLife, Otp!SetCounterLife, Sms!SetCounterLife, Otp!DeleteCode,
           MakeCode, Otp!StoreCode, Sms!StoreCode, Otp!Verify,
           CodeFails, Otp!Fail, Sms!Fail, Otp!Arrives, Sms!Arrives, Otp!Idle, Sms!Idle
    <2>3. CASE Otp!DeleteCode(r)
      BY <2>2, <2>3, <1>2, <1>6 DEF Otp!DeleteCode, Otp!Deleted
    <2>4. CASE CodeFails(r)
      <3>1. /\ UNCHANGED <<code, codes, accepted>>
            /\ undeleted' = [undeleted EXCEPT ![otpJob[r].code] = @ + 1]
        BY <2>4, <1>10 DEF CodeFails, Otp!Fail, Sms!Fail
      <3>2. CASE otpJob[r].code = c
        <4>1. Deleting(c)' = Deleting(c) \ {r} /\ r \in Deleting(c)
          BY <3>2, <2>1, <1>1, <1>10 DEF Deleting
        <4>2. Cardinality(Deleting(c)') = Cardinality(Deleting(c)) - 1
          BY <4>1, CodeSets, SizeLess
        <4>3. undeleted'[c] = undeleted[c] + 1
          BY <3>1, <3>2, CodeNumbers
        <4> QED
          BY <3>1, <4>2, <4>3, <1>2, <1>3, <1>4, <1>5
      <3>3. CASE otpJob[r].code # c
        <4>1. Deleting(c)' = Deleting(c)
          BY <3>3, <2>1, <1>1 DEF Deleting
        <4>2. undeleted'[c] = undeleted[c]
          BY <3>1, <3>3, CodeNumbers
        <4> QED
          BY <3>1, <4>1, <4>2, <1>2
      <3> QED
        BY <3>2, <3>3
    <2> QED
      BY <2>2, <2>3, <2>4
  <1> QED
    BY <1>7, <1>8, <1>9, <1>10

LEMMA CodeStep ==
  ASSUME CodeInv, CodeFocus, UNCHANGED focus,
         focus = "otp" => [Otp!Next]_otp, focus = "sms" => [Sms!Next]_otp
  PROVE  CodeInv'
  <1>1. CASE UNCHANGED otp
    BY <1>1 DEF otp, CodeInv, CodeTypes, Otp!TypeOK, WindowGrants, LifeIsSet, CodeUses, MakingIt,
       OwingIt, Making, Owing, Deleting, CountsFirst
  <1>2. CASE \E r \in Reqs : CodeHandler(r)
    BY <1>2, CodeTypesKept, CodeWindowKept, CodeUsesKept DEF CodeInv
  <1>3. CASE Otp!CodeExpires \/ Otp!CounterExpires
    <2>1. /\ UNCHANGED <<codes, accepted, undeleted, otpJob, otpArrived>>
          /\ code' \in {0, code}
          /\ \/ UNCHANGED <<used, lives, passed, uncounted>>
             \/ used' = 0 /\ lives' = FALSE /\ passed' = 0 /\ uncounted' = 0
      BY <1>3 DEF Otp!CodeExpires, Otp!CounterExpires, Otp!Codeless
    <2>2. /\ MakingIt' = MakingIt /\ OwingIt' = OwingIt /\ CountsFirst' = CountsFirst
          /\ \A c : Deleting(c)' = Deleting(c)
      BY <2>1 DEF MakingIt, OwingIt, Making, Owing, Deleting, CountsFirst
    <2>3. CodeTypes'
      <3>1. code' \in 0..codes'
        BY <2>1, CodeNumbers
      <3>2. /\ used' \in Nat /\ passed' \in Nat /\ uncounted' \in Nat
        BY <2>1, CodeNumbers
      <3>4. lives \in BOOLEAN
        BY CodeNumbers
      <3>5. lives' = lives \/ lives' = FALSE
        BY <2>1
      <3>6. lives' \in BOOLEAN
        BY <3>4, <3>5, Zenon
      <3>3. Otp!TypeOK'
        BY <2>1, <3>1, <3>2, <3>6 DEF CodeInv, CodeTypes, Otp!TypeOK
      <3> QED
        BY <2>1, <2>2, <3>3 DEF CodeInv, CodeTypes
    <2>4. WindowGrants'
      <3>1. Cardinality(OwingIt) \in Nat
        BY CodeSets
      <3>2. Cardinality(Reqs) \in Nat
        BY CodeSets
      <3>3. 0 <= CodeLimit /\ 0 <= 0 + Cardinality(OwingIt) + 0 /\ 0 <= CodeLimit + Cardinality(Reqs) - 1 + 0
        BY <3>1, <3>2, CodeBound
      <3>4. WindowGrants
        BY DEF CodeInv
      <3>5. CASE UNCHANGED <<used, passed, uncounted>>
        BY <3>4, <3>5, <2>2 DEF WindowGrants
      <3>6. CASE used' = 0 /\ passed' = 0 /\ uncounted' = 0
        BY <3>3, <3>6, <2>2 DEF WindowGrants
      <3> QED
        BY <2>1, <3>5, <3>6
    <2>5. LifeIsSet'
      BY <2>1 DEF CodeInv, LifeIsSet
    <2>6. CodeUses'
      <3>1. \A c \in Windows : c # 0
        BY CodeBound DEF Windows
      <3> QED
        BY <2>1, <2>2, <3>1 DEF CodeInv, CodeUses
    <2> QED
      BY <2>3, <2>4, <2>5, <2>6 DEF CodeInv
  <1> QED
    BY <1>1, <1>2, <1>3, CodeMoves

LEMMA CodeInit == Init => CodeInv
  <1> SUFFICES ASSUME Otp!Init PROVE CodeInv
    BY DEF Init
  <1>1. MakingIt = {} /\ OwingIt = {}
    BY DEF Otp!Init, Otp!Idle, MakingIt, OwingIt, Making, Owing
  <1>2. Cardinality(MakingIt) = 0 /\ Cardinality(OwingIt) = 0
    BY <1>1, FS_EmptySet
  <1>3. Cardinality(Reqs) \in Nat
    BY CodeSets
  <1>4. CodeTypes
    <2>1. Otp!TypeOK
      <3>1. /\ used \in Nat /\ passed \in Nat /\ uncounted \in Nat
            /\ code \in 0..codes /\ codes \in 0..Bound["otp"]
            /\ accepted \in [Otp!Codes -> Nat] /\ undeleted \in [Otp!Codes -> Nat]
        BY CodeBound DEF Otp!Init
      <3>2. lives \in BOOLEAN
        BY DEF Otp!Init
      <3>3. otpJob = [r \in Reqs |-> Otp!Idle] /\ 0 \in 0..Bound["otp"]
        BY CodeBound DEF Otp!Init
      <3> QED
        BY <3>1, <3>2, <3>3 DEF Otp!TypeOK, Otp!Idle
    <2>2. codes + Cardinality(MakingIt) <= otpArrived
      <3>1. codes = 0 /\ otpArrived = 0
        BY DEF Otp!Init
      <3> QED
        BY <1>2, <3>1
    <2> QED
      BY <2>1, <2>2, CodeBound DEF Otp!Init, CodeTypes, Otp!Idle
  <1>5. WindowGrants
    BY <1>2, <1>3, CodeBound DEF Otp!Init, WindowGrants
  <1>6. LifeIsSet
    BY DEF Otp!Init, LifeIsSet
  <1>7. CodeUses
    <2>1. \A c \in Windows : accepted[c] = 0 /\ undeleted[c] = 0 /\ c # code
      BY CodeBound DEF Otp!Init, Otp!Codes, Windows
    <2> QED
      BY <2>1, <1>3 DEF CodeUses
  <1> QED
    BY <1>4, <1>5, <1>6, <1>7 DEF CodeInv

LEMMA CodeImplied ==
  CodeInv => /\ focus = "otp" => Otp!OtpSafe
             /\ focus = "sms" => Sms!OtpSafe
  <1> SUFFICES ASSUME CodeInv
               PROVE  /\ focus = "otp" => Otp!OtpSafe
                      /\ focus = "sms" => Sms!OtpSafe
    OBVIOUS
  <1>1. Otp!TypeOK /\ Sms!TypeOK
    BY DEF CodeInv, CodeTypes, Otp!TypeOK, Sms!TypeOK, Otp!Codes, Sms!Codes
  <1>2. Otp!CounterForgets /\ Sms!CounterForgets
    BY DEF CodeInv, LifeIsSet, Otp!CounterForgets, Sms!CounterForgets
  <1>3. /\ \A S : Otp!Cardinality(S) = Cardinality(S)
        /\ \A S : Sms!Cardinality(S) = Cardinality(S)
    BY DEF Otp!Cardinality, Sms!Cardinality, Cardinality
  <1>4. Otp!CodeOnce /\ Sms!CodeOnce
    BY <1>3 DEF CodeInv, CodeUses, Otp!CodeOnce, Sms!CodeOnce, Otp!Codes, Sms!Codes, Windows
  <1>5. focus = "otp" => Otp!WindowHolds
    <2> HAVE focus = "otp"
    <2>1. passed <= CodeLimit /\ passed \in Nat
      BY CodeNumbers DEF CodeInv, WindowGrants, CountsFirst
    <2>2. passed <= CodeLimit + 0
      BY <2>1, CodeBound
    <2> QED
      BY <2>2 DEF Otp!WindowHolds
  <1>6. focus = "sms" => Sms!WindowHolds
    <2> HAVE focus = "sms"
    <2>1. passed <= CodeLimit + Cardinality(Reqs) - 1 + uncounted
      BY DEF CodeInv, WindowGrants, CountsFirst
    <2>2. uncounted \in Nat /\ passed \in Nat
      BY CodeNumbers
    <2>3. Cardinality(Reqs) \in Nat
      BY CodeSets
    <2>4. passed <= CodeLimit + (Cardinality(Reqs) - 1 + uncounted)
      BY <2>1, <2>2, <2>3, CodeBound
    <2>5. Sms!Cardinality(Reqs) = Cardinality(Reqs)
      BY <1>3
    <2> QED
      BY <2>4, <2>5 DEF Sms!WindowHolds
  <1> QED
    BY <1>1, <1>2, <1>4, <1>5, <1>6 DEF Otp!OtpSafe, Sms!OtpSafe

(* A window grants what its limit says, its counter is forgotten in the end, *)
(* and a code is good once, but for failures and overlaps: in auth-service,  *)
(* which counts first, and in sms-service, which judges first.               *)
THEOREM OtpSafety == Spec => []OtpSafe
  <1>1. Init => (CodeFocus => CodeInv)
    BY CodeInit
  <1>2. (CodeFocus => CodeInv) /\ [Next]_vars => (CodeFocus => CodeInv)'
    BY Moves, CodeStep DEF CodeFocus
  <1>3. (CodeFocus => CodeInv) => OtpSafe
    BY CodeImplied DEF CodeFocus, For, OtpSafe
  <1> QED
    BY <1>1, <1>2, <1>3, PTL DEF Spec

-----------------------------------------------------------------------------
(* security-service *)

SecJobs == [op : Sec!Ops, admin : Admins \cup {None}, n : Nat]
AtWork(r) == secJob[r].op \in {"count", "flag"}
JudgedNow == {r \in Reqs : AtWork(r)}

(* What RuleFires asks of an attempt.                                        *)
Accounted(n) == n \in raised \cup missed \/ \E r \in Reqs : AtWork(r) /\ secJob[r].n = n

SecTypes == /\ recent \in Nat /\ attempts \in Nat /\ flags \in Nat /\ recent <= attempts
            /\ raised \subseteq Nat /\ missed \subseteq Nat
            /\ blocked \in Nat /\ lifted \in Nat
            /\ open \in BOOLEAN /\ resolver \in Admins \cup {None} /\ resolvers \subseteq Admins
            /\ secJob \in [Reqs -> SecJobs]
            /\ \A r \in Reqs : secJob[r].op = "resolve" => secJob[r].admin \in Admins

(* Before the threshold no handler has a flag to raise; from then on each    *)
(* attempt is worth one, and those that were being counted at that moment.   *)
FlagsEarned ==
    /\ attempts < failedLoginThreshold =>
          flags = 0 /\ \A r \in Reqs : secJob[r].op # "flag"
    /\ attempts >= failedLoginThreshold =>
          flags + Cardinality(JudgedNow) <= attempts - failedLoginThreshold + Cardinality(Reqs)

SecInv == SecTypes /\ Sec!RuleFires /\ FlagsEarned /\ Sec!ResolvedByOne /\ Sec!OneBlock

LEMMA SecConstants ==
  /\ failedLoginThreshold \in Nat /\ failedLoginThreshold > 0 /\ Bound["security"] \in Nat
  /\ IsFiniteSet(Reqs) /\ Cardinality(Reqs) \in Nat
  BY ServicesAssumption, FS_CardinalityType DEF ServiceNames

LEMMA SecSets ==
  /\ IsFiniteSet(JudgedNow) /\ Cardinality(JudgedNow) \in Nat
  /\ Cardinality(JudgedNow) <= Cardinality(Reqs)
  BY SecConstants, SizeOfPart DEF JudgedNow

LEMMA SecSetsAfter ==
  ASSUME SecInv, NEW r \in Reqs, NEW j \in SecJobs, secJob' = [secJob EXCEPT ![r] = j]
  PROVE  /\ secJob' \in [Reqs -> SecJobs]
         /\ secJob'[r] = j /\ \A s \in Reqs : s # r => secJob'[s] = secJob[s]
         /\ AtWork(r)' /\ ~AtWork(r) => /\ Cardinality(JudgedNow') = Cardinality(JudgedNow) + 1
                                        /\ Cardinality(JudgedNow') <= Cardinality(Reqs)
         /\ (AtWork(r)' <=> AtWork(r)) => Cardinality(JudgedNow') = Cardinality(JudgedNow)
         /\ ~AtWork(r)' /\ AtWork(r) => Cardinality(JudgedNow') = Cardinality(JudgedNow) - 1
  <1>1. /\ secJob' \in [Reqs -> SecJobs]
        /\ secJob'[r] = j /\ \A s \in Reqs : s # r => secJob'[s] = secJob[s]
    BY DEF SecInv, SecTypes
  <1>2. \A s \in Reqs : s # r => (AtWork(s)' <=> AtWork(s))
    BY <1>1 DEF AtWork
  <1>3. JudgedNow' = IF AtWork(r)' THEN JudgedNow \cup {r} ELSE JudgedNow \ {r}
    BY <1>2 DEF JudgedNow
  <1>4. r \in JudgedNow <=> AtWork(r)
    BY DEF JudgedNow
  <1>5. /\ AtWork(r)' /\ ~AtWork(r) => Cardinality(JudgedNow') = Cardinality(JudgedNow) + 1
        /\ ~AtWork(r)' /\ AtWork(r) => Cardinality(JudgedNow') = Cardinality(JudgedNow) - 1
    BY <1>3, <1>4, SecSets, SizeMore, SizeLess
  <1>6. Cardinality(JudgedNow') <= Cardinality(Reqs)
    BY SecConstants, SizeOfPart DEF JudgedNow
  <1>7. (AtWork(r)' <=> AtWork(r)) => JudgedNow' = JudgedNow
    BY <1>3, <1>4
  <1> QED
    BY <1>1, <1>5, <1>6, <1>7

(* The steps of one handler.                                                 *)
SecHandler(r) ==
    \/ Sec!RecordLoginAttempt(r) \/ Sec!CountFailedLoginsInWindow(r) \/ Sec!InsertFraudFlag(r)
    \/ \E a \in Admins : Sec!ResolveFraudFlag(r, a)
    \/ Sec!UpdateFraudFlag(r) \/ Sec!BlockIP(r) \/ Sec!InsertIPBlock(r) \/ Sec!Fail(r)

LEMMA SecSlot ==
  ASSUME SecInv, NEW r \in Reqs, SecHandler(r)
  PROVE  \E j \in SecJobs :
            /\ secJob' = [secJob EXCEPT ![r] = j]
            /\ j.op = "resolve" => j.admin \in Admins
            /\ j.op = "flag" => Sec!CountFailedLoginsInWindow(r)
            /\ j.op = "count" => Sec!RecordLoginAttempt(r) /\ j.n = attempts + 1
            /\ j.op = "flag" => j.n = secJob[r].n
  <1>1. secJob \in [Reqs -> SecJobs] /\ Sec!Idle \in SecJobs
    BY DEF SecInv, SecTypes, SecJobs, Sec!Idle, Sec!Ops
  <1>2. ASSUME NEW op \in {"count", "resolve", "block"}, NEW a \in Admins \cup {None}, NEW n \in Nat
        PROVE  [op |-> op, admin |-> a, n |-> n] \in SecJobs
    BY DEF SecJobs, Sec!Ops
  <1>3. CASE Sec!RecordLoginAttempt(r) \/ Sec!BlockIP(r)
    <2>0. attempts + 1 \in Nat
      BY DEF SecInv, SecTypes
    <2>1. /\ [op |-> "count", admin |-> None, n |-> attempts + 1] \in SecJobs
          /\ [op |-> "block", admin |-> None, n |-> 0] \in SecJobs
      BY <1>2, <2>0
    <2>2. \/ /\ secJob' = [secJob EXCEPT ![r] = [op |-> "count", admin |-> None, n |-> attempts + 1]]
             /\ Sec!RecordLoginAttempt(r)
          \/ secJob' = [secJob EXCEPT ![r] = [op |-> "block", admin |-> None, n |-> 0]]
      BY <1>3 DEF Sec!RecordLoginAttempt, Sec!BlockIP, Sec!Begin
    <2> QED
      BY <2>1, <2>2
  <1>4. ASSUME NEW a \in Admins, Sec!ResolveFraudFlag(r, a)
        PROVE  \E j \in SecJobs : /\ secJob' = [secJob EXCEPT ![r] = j]
                                  /\ j.op = "resolve" /\ j.admin \in Admins
    <2>1. [op |-> "resolve", admin |-> a, n |-> 0] \in SecJobs
      BY <1>2
    <2>2. secJob' = [secJob EXCEPT ![r] = [op |-> "resolve", admin |-> a, n |-> 0]]
      BY <1>4 DEF Sec!ResolveFraudFlag, Sec!Begin
    <2> QED
      BY <2>1, <2>2
  <1>5. CASE Sec!InsertFraudFlag(r) \/ Sec!UpdateFraudFlag(r) \/ Sec!InsertIPBlock(r) \/ Sec!Fail(r)
    BY <1>1, <1>5 DEF Sec!InsertFraudFlag, Sec!UpdateFraudFlag, Sec!InsertIPBlock, Sec!Fail,
                      Sec!End, Sec!Idle
  <1>6. CASE Sec!CountFailedLoginsInWindow(r)
    <2> DEFINE j == [op |-> "flag", admin |-> secJob[r].admin, n |-> secJob[r].n]
    <2>1. j \in SecJobs /\ [secJob[r] EXCEPT !.op = "flag"] = j
      BY <1>1 DEF SecJobs, Sec!Ops
    <2>2. \/ secJob' = [secJob EXCEPT ![r] = j]
          \/ secJob' = [secJob EXCEPT ![r] = Sec!Idle]
      BY <1>1, <1>6, <2>1 DEF Sec!CountFailedLoginsInWindow, Sec!End
    <2>3. j.op = "flag" /\ j.n = secJob[r].n /\ Sec!Idle.op = "none"
      BY DEF Sec!Idle
    <2> HIDE DEF j
    <2> QED
      BY <1>1, <1>6, <2>1, <2>2, <2>3
  <1> QED
    BY <1>3, <1>4, <1>5, <1>6 DEF SecHandler

LEMMA SecTypesKept ==
  ASSUME SecInv, NEW r \in Reqs, SecHandler(r)
  PROVE  SecTypes'
  <1>1. PICK j \in SecJobs : /\ secJob' = [secJob EXCEPT ![r] = j]
                             /\ j.op = "resolve" => j.admin \in Admins
    BY SecSlot
  <1>2. /\ secJob' \in [Reqs -> SecJobs] /\ secJob'[r] = j
        /\ \A s \in Reqs : s # r => secJob'[s] = secJob[s]
    BY <1>1, SecSetsAfter
  <1>3. \A s \in Reqs : secJob'[s].op = "resolve" => secJob'[s].admin \in Admins
    BY <1>1, <1>2 DEF SecInv, SecTypes
  <1>4. /\ recent' \in Nat /\ attempts' \in Nat /\ flags' \in Nat /\ recent' <= attempts'
        /\ blocked' \in Nat /\ lifted' \in Nat
    BY DEF SecInv, SecTypes, SecHandler, Sec!RecordLoginAttempt, Sec!CountFailedLoginsInWindow,
           Sec!InsertFraudFlag, Sec!ResolveFraudFlag, Sec!UpdateFraudFlag, Sec!BlockIP,
           Sec!InsertIPBlock, Sec!Fail, Sec!Logins, Sec!Flag, Sec!Address
  <1>5. /\ open' \in BOOLEAN /\ resolver' \in Admins \cup {None} /\ resolvers' \subseteq Admins
    <2>1. \/ UNCHANGED <<open, resolver, resolvers>>
          \/ /\ secJob[r].op = "resolve" /\ open' = FALSE /\ resolver' = secJob[r].admin
             /\ resolvers' = resolvers \cup {secJob[r].admin}
      BY DEF SecHandler, Sec!RecordLoginAttempt, Sec!CountFailedLoginsInWindow,
             Sec!InsertFraudFlag, Sec!ResolveFraudFlag, Sec!UpdateFraudFlag, Sec!BlockIP,
             Sec!InsertIPBlock, Sec!Fail, Sec!Flag
    <2> QED
      BY <2>1 DEF SecInv, SecTypes
  <1>6. raised' \subseteq Nat /\ missed' \subseteq Nat
    <2>1. secJob[r].n \in Nat
      BY DEF SecInv, SecTypes, SecJobs
    <2>2. /\ raised' = raised \/ raised' = raised \cup {secJob[r].n}
          /\ missed' = missed \/ missed' = missed \cup {secJob[r].n}
      BY DEF SecHandler, Sec!RecordLoginAttempt, Sec!CountFailedLoginsInWindow,
             Sec!InsertFraudFlag, Sec!ResolveFraudFlag, Sec!UpdateFraudFlag, Sec!BlockIP,
             Sec!InsertIPBlock, Sec!Fail, Sec!Logins
    <2> QED
      BY <2>1, <2>2 DEF SecInv, SecTypes
  <1> QED
    BY <1>2, <1>3, <1>4, <1>5, <1>6 DEF SecTypes

LEMMA RuleKept ==
  ASSUME SecInv, NEW r \in Reqs, SecHandler(r)
  PROVE  Sec!RuleFires' /\ FlagsEarned'
  <1>1. PICK j \in SecJobs : /\ secJob' = [secJob EXCEPT ![r] = j]
                             /\ j.op = "flag" => Sec!CountFailedLoginsInWindow(r)
                             /\ j.op = "count" => Sec!RecordLoginAttempt(r) /\ j.n = attempts + 1
                             /\ j.op = "flag" => j.n = secJob[r].n
    BY SecSlot
  <1>2. secJob'[r] = j /\ \A s \in Reqs : s # r => secJob'[s] = secJob[s]
    BY <1>1, SecSetsAfter
  <1>3. /\ AtWork(r)' /\ ~AtWork(r) => /\ Cardinality(JudgedNow') = Cardinality(JudgedNow) + 1
                                       /\ Cardinality(JudgedNow') <= Cardinality(Reqs)
        /\ (AtWork(r)' <=> AtWork(r)) => Cardinality(JudgedNow') = Cardinality(JudgedNow)
        /\ ~AtWork(r)' /\ AtWork(r) => Cardinality(JudgedNow') = Cardinality(JudgedNow) - 1
    BY <1>1, SecSetsAfter
  <1>4. /\ AtWork(r)' <=> j.op \in {"count", "flag"}
        /\ AtWork(r) <=> secJob[r].op \in {"count", "flag"}
    BY <1>2 DEF AtWork
  <1>5. Cardinality(JudgedNow) \in Nat
    BY SecSets
  <1>6. Cardinality(Reqs) \in Nat
    BY SecConstants
  <1>7. Cardinality(JudgedNow) <= Cardinality(Reqs)
    BY SecSets
  <1>8. /\ recent \in Nat /\ attempts \in Nat /\ flags \in Nat
        /\ recent <= attempts /\ failedLoginThreshold \in Nat
    BY SecConstants DEF SecInv, SecTypes
  <1>9. /\ \A n \in (attempts - recent + failedLoginThreshold)..attempts : Accounted(n)
        /\ FlagsEarned
    BY DEF SecInv, Sec!RuleFires, AtWork, Accounted
  <1>10. ASSUME \A n \in (attempts' - recent' + failedLoginThreshold)..attempts' : Accounted(n)'
         PROVE  Sec!RuleFires'
    BY <1>10 DEF Sec!RuleFires, AtWork, Accounted
  <1>11. CASE Sec!RecordLoginAttempt(r)
    <2>1. /\ recent' = recent + 1 /\ attempts' = attempts + 1
          /\ UNCHANGED <<flags, raised, missed>>
          /\ secJob[r].op = "none" /\ j.op = "count" /\ j.n = attempts + 1
      BY <1>1, <1>2, <1>11 DEF Sec!RecordLoginAttempt, Sec!Begin, Sec!Idle, SecInv, SecTypes
    <2>2. AtWork(r)' /\ ~AtWork(r)
      BY <2>1, <1>4
    <2>3. \A s \in Reqs : secJob'[s].op = "flag" => secJob[s].op = "flag"
      BY <1>2, <2>1
    <2>4. FlagsEarned'
      <3>1. CASE attempts' < failedLoginThreshold
        <4>1. attempts < failedLoginThreshold
          BY <3>1, <2>1, <1>8
        <4> QED
          BY <3>1, <4>1, <2>1, <2>3, <1>8, <1>9 DEF FlagsEarned
      <3>2. CASE attempts' = failedLoginThreshold
        <4>1. flags = 0 /\ attempts < failedLoginThreshold
          BY <3>2, <2>1, <1>8, <1>9 DEF FlagsEarned
        <4>2. Cardinality(JudgedNow') \in Nat /\ Cardinality(JudgedNow') <= Cardinality(Reqs)
          BY <2>2, <1>3, <1>5
        <4>3. flags' + Cardinality(JudgedNow')
                <= attempts' - failedLoginThreshold + Cardinality(Reqs)
          BY <3>2, <4>1, <4>2, <2>1, <1>6, <1>8
        <4> QED
          BY <3>2, <4>3, <1>8 DEF FlagsEarned
      <3>3. CASE attempts' > failedLoginThreshold
        <4>1. flags + Cardinality(JudgedNow) <= attempts - failedLoginThreshold + Cardinality(Reqs)
          BY <3>3, <2>1, <1>8, <1>9 DEF FlagsEarned
        <4>2. flags' + Cardinality(JudgedNow')
                <= attempts' - failedLoginThreshold + Cardinality(Reqs)
          BY <4>1, <2>1, <2>2, <1>3, <1>5, <1>6, <1>8
        <4> QED
          BY <3>3, <4>2, <2>1, <1>8 DEF FlagsEarned
      <3> QED
        BY <3>1, <3>2, <3>3, <2>1, <1>8
    <2>5. ASSUME NEW n \in (attempts' - recent' + failedLoginThreshold)..attempts'
          PROVE  Accounted(n)'
      <3>1. CASE n = attempts'
        BY <3>1, <2>1, <2>2, <1>2 DEF Accounted
      <3>2. CASE n # attempts'
        <4>1. n \in (attempts - recent + failedLoginThreshold)..attempts
          BY <3>2, <2>1, <1>8
        <4>2. Accounted(n)
          BY <4>1, <1>9
        <4> QED
          BY <4>2, <2>1, <2>2, <1>2 DEF Accounted, AtWork
      <3> QED
        BY <3>1, <3>2
    <2> QED
      BY <2>4, <2>5, <1>10
  <1>12. CASE Sec!CountFailedLoginsInWindow(r)
    <2>1. /\ UNCHANGED <<recent, attempts, flags, raised, missed>> /\ secJob[r].op = "count"
      BY <1>12 DEF Sec!CountFailedLoginsInWindow, Sec!Logins
    <2>2. CASE recent >= failedLoginThreshold
      <3>1. j.op = "flag" /\ j.n = secJob[r].n
        BY <2>2, <1>1, <1>2, <1>12 DEF Sec!CountFailedLoginsInWindow, Sec!Reached, SecInv, SecTypes, SecJobs
      <3>2. AtWork(r)' /\ AtWork(r) /\ attempts >= failedLoginThreshold
        BY <3>1, <2>1, <2>2, <1>4, <1>8
      <3>3. flags + Cardinality(JudgedNow) <= attempts - failedLoginThreshold + Cardinality(Reqs)
        BY <3>2, <1>9 DEF FlagsEarned
      <3>4. FlagsEarned'
        BY <3>2, <3>3, <2>1, <1>3, <1>8 DEF FlagsEarned
      <3>5. \A n : Accounted(n) => Accounted(n)'
        BY <3>1, <3>2, <2>1, <1>2 DEF Accounted, AtWork
      <3> QED
        BY <3>4, <3>5, <2>1, <1>9, <1>10
    <2>3. CASE ~(recent >= failedLoginThreshold)
      <3>1. j.op = "none"
        BY <2>3, <1>2, <1>12 DEF Sec!CountFailedLoginsInWindow, Sec!Reached, Sec!End, Sec!Idle, SecInv, SecTypes
      <3>2. ~AtWork(r)' /\ AtWork(r)
        BY <3>1, <2>1, <1>4
      <3>3. Cardinality(JudgedNow') = Cardinality(JudgedNow) - 1
        BY <3>2, <1>3
      <3>4. \A s \in Reqs : secJob'[s].op = "flag" => secJob[s].op = "flag"
        BY <1>2, <3>1
      <3>5. attempts >= failedLoginThreshold =>
              flags + Cardinality(JudgedNow') <= attempts - failedLoginThreshold + Cardinality(Reqs)
        BY <3>3, <1>5, <1>6, <1>8, <1>9 DEF FlagsEarned
      <3>6. FlagsEarned'
        BY <2>1, <3>4, <3>5, <1>9 DEF FlagsEarned
      <3>7. (attempts' - recent' + failedLoginThreshold)..attempts' = {}
        BY <2>1, <2>3, <1>8
      <3> QED
        BY <3>6, <3>7, <1>10
    <2> QED
      BY <2>2, <2>3
  <1>13. CASE Sec!InsertFraudFlag(r)
    <2>1. /\ UNCHANGED <<recent, attempts, missed>> /\ flags' = flags + 1
          /\ raised' = raised \cup {secJob[r].n} /\ secJob[r].op = "flag" /\ j.op = "none"
      BY <1>2, <1>13 DEF Sec!InsertFraudFlag, Sec!End, Sec!Idle, SecInv, SecTypes
    <2>2. Cardinality(JudgedNow') = Cardinality(JudgedNow) - 1
      BY <2>1, <1>3, <1>4
    <2>3. attempts >= failedLoginThreshold
      BY <2>1, <1>8, <1>9 DEF FlagsEarned
    <2>4. flags + Cardinality(JudgedNow) <= attempts - failedLoginThreshold + Cardinality(Reqs)
      BY <2>3, <1>9 DEF FlagsEarned
    <2>5. flags' + Cardinality(JudgedNow') <= attempts' - failedLoginThreshold + Cardinality(Reqs)
      BY <2>1, <2>2, <2>4, <1>5, <1>6, <1>8
    <2>6. FlagsEarned'
      BY <2>1, <2>3, <2>5, <1>8 DEF FlagsEarned
    <2>7. \A n : Accounted(n) => Accounted(n)'
      BY <2>1, <1>2 DEF Accounted, AtWork
    <2> QED
      BY <2>1, <2>6, <2>7, <1>9, <1>10
  <1>14. CASE Sec!Fail(r)
    <2>1. /\ UNCHANGED <<recent, attempts, flags, raised>> /\ j.op = "none"
          /\ missed' = IF AtWork(r) THEN missed \cup {secJob[r].n} ELSE missed
      BY <1>2, <1>14 DEF Sec!Fail, Sec!End, Sec!Idle, SecInv, SecTypes, AtWork
    <2>2. /\ Cardinality(JudgedNow') <= Cardinality(JudgedNow) /\ Cardinality(JudgedNow') \in Int
      BY <2>1, <1>3, <1>4, <1>5
    <2>3. \A s \in Reqs : secJob'[s].op = "flag" => secJob[s].op = "flag"
      BY <1>2, <2>1
    <2>4. attempts >= failedLoginThreshold =>
            flags + Cardinality(JudgedNow') <= attempts - failedLoginThreshold + Cardinality(Reqs)
      BY <2>2, <1>5, <1>6, <1>8, <1>9 DEF FlagsEarned
    <2>5. FlagsEarned'
      BY <2>1, <2>3, <2>4, <1>9 DEF FlagsEarned
    <2>6. \A n : Accounted(n) => Accounted(n)'
      BY <2>1, <1>2 DEF Accounted, AtWork
    <2> QED
      BY <2>1, <2>5, <2>6, <1>9, <1>10
  <1>15. CASE \/ Sec!UpdateFraudFlag(r) \/ Sec!BlockIP(r) \/ Sec!InsertIPBlock(r)
              \/ \E a \in Admins : Sec!ResolveFraudFlag(r, a)
    <2>1. /\ UNCHANGED <<recent, attempts, flags, raised, missed>>
          /\ secJob[r].op \notin {"count", "flag"} /\ j.op \notin {"count", "flag"}
      BY <1>2, <1>15 DEF Sec!UpdateFraudFlag, Sec!BlockIP, Sec!InsertIPBlock, Sec!ResolveFraudFlag,
         Sec!Begin, Sec!End, Sec!Idle, Sec!Logins, SecInv, SecTypes
    <2>2. Cardinality(JudgedNow') = Cardinality(JudgedNow)
      BY <2>1, <1>3, <1>4
    <2>3. \A s \in Reqs : secJob'[s].op = "flag" => secJob[s].op = "flag"
      BY <1>2, <2>1
    <2>4. \A n : Accounted(n) => Accounted(n)'
      BY <1>2, <2>1 DEF Accounted, AtWork
    <2>5. FlagsEarned'
      BY <2>1, <2>2, <2>3, <1>9 DEF FlagsEarned
    <2> QED
      BY <2>1, <2>4, <2>5, <1>9, <1>10
  <1> QED
    BY <1>11, <1>12, <1>13, <1>14, <1>15 DEF SecHandler

LEMMA FlagAndBlockKept ==
  ASSUME SecInv, NEW r \in Reqs, SecHandler(r)
  PROVE  Sec!ResolvedByOne' /\ Sec!OneBlock'
  <1>1. Sec!ResolvedByOne'
    <2>1. \/ UNCHANGED <<open, resolver, resolvers>>
          \/ /\ open /\ open' = FALSE /\ resolver' = secJob[r].admin
             /\ resolvers' = resolvers \cup {secJob[r].admin}
      BY DEF SecHandler, Sec!RecordLoginAttempt, Sec!CountFailedLoginsInWindow,
             Sec!InsertFraudFlag, Sec!ResolveFraudFlag, Sec!UpdateFraudFlag, Sec!BlockIP,
             Sec!InsertIPBlock, Sec!Fail, Sec!Flag, Sec!StillOpen
    <2> QED
      BY <2>1 DEF SecInv, Sec!ResolvedByOne
  <1>2. Sec!OneBlock'
    <2>1. \/ UNCHANGED blocked
          \/ blocked + lifted = 0 /\ blocked' = blocked + 1
      BY DEF SecHandler, Sec!RecordLoginAttempt, Sec!CountFailedLoginsInWindow,
             Sec!InsertFraudFlag, Sec!ResolveFraudFlag, Sec!UpdateFraudFlag, Sec!BlockIP,
             Sec!InsertIPBlock, Sec!Fail, Sec!Address, Sec!UniqueIndex
    <2> QED
      BY <2>1 DEF SecInv, SecTypes, Sec!OneBlock
  <1> QED
    BY <1>1, <1>2

LEMMA SecStep ==
  ASSUME SecInv, [Sec!Next]_security
  PROVE  SecInv'
  <1>1. CASE \E r \in Reqs : SecHandler(r)
    BY <1>1, SecTypesKept, RuleKept, FlagAndBlockKept DEF SecInv
  <1>2. CASE Sec!Age
    <2>1. /\ recent > 0 /\ recent' = recent - 1
          /\ UNCHANGED <<attempts, flags, raised, missed, open, resolver, resolvers, blocked,
                         lifted, secJob>>
      BY <1>2 DEF Sec!Age, Sec!Flag, Sec!Address
    <2>2. JudgedNow' = JudgedNow
      BY <2>1 DEF JudgedNow, AtWork
    <2>3. SecTypes'
      BY <2>1 DEF SecInv, SecTypes
    <2>4. Sec!RuleFires'
      <3>1. \A n \in (attempts' - recent' + failedLoginThreshold)..attempts' :
              n \in (attempts - recent + failedLoginThreshold)..attempts
        BY <2>1, SecConstants DEF SecInv, SecTypes
      <3> QED
        BY <2>1, <3>1 DEF SecInv, Sec!RuleFires
    <2> QED
      BY <2>1, <2>2, <2>3, <2>4 DEF SecInv, FlagsEarned, Sec!ResolvedByOne, Sec!OneBlock
  <1>3. CASE Sec!UnblockIP \/ UNCHANGED security
    <2>1. /\ UNCHANGED <<recent, attempts, flags, raised, missed, open, resolver, resolvers,
                         secJob>>
          /\ \/ UNCHANGED <<blocked, lifted>>
             \/ blocked > 0 /\ blocked' = blocked - 1 /\ lifted' = lifted + 1
      BY <1>3 DEF Sec!UnblockIP, Sec!Logins, Sec!Flag, security
    <2>2. JudgedNow' = JudgedNow
      BY <2>1 DEF JudgedNow, AtWork
    <2>3. SecTypes'
      BY <2>1 DEF SecInv, SecTypes
    <2>4. Sec!OneBlock'
      BY <2>1 DEF SecInv, SecTypes, Sec!OneBlock
    <2> QED
      BY <2>1, <2>2, <2>3, <2>4 DEF SecInv, FlagsEarned, Sec!RuleFires, Sec!ResolvedByOne
  <1> QED
    BY <1>1, <1>2, <1>3 DEF Sec!Next, SecHandler

LEMMA SecInit == Init => SecInv
  <1> SUFFICES ASSUME Sec!Init PROVE SecInv
    BY DEF Init
  <1>1. JudgedNow = {}
    BY DEF Sec!Init, Sec!Idle, JudgedNow, AtWork
  <1>2. Cardinality(JudgedNow) = 0
    BY <1>1, FS_EmptySet
  <1>3. SecTypes
    BY DEF Sec!Init, SecTypes, SecJobs, Sec!Idle, Sec!Ops
  <1>4. Sec!ResolvedByOne /\ Sec!OneBlock
    BY DEF Sec!Init, Sec!ResolvedByOne, Sec!OneBlock
  <1>5. Cardinality(Reqs) \in Nat
    BY SecConstants
  <1>6. FlagsEarned
    <2>1. 0 >= failedLoginThreshold => 0 + 0 <= 0 - failedLoginThreshold + Cardinality(Reqs)
      BY <1>5, SecConstants
    <2> QED
      BY <1>2, <2>1 DEF Sec!Init, Sec!Idle, FlagsEarned
  <1>7. Sec!RuleFires
    BY SecConstants DEF Sec!Init, Sec!RuleFires
  <1> QED
    BY <1>3, <1>4, <1>6, <1>7 DEF SecInv

LEMMA SecImplied == SecInv => Sec!SecuritySafe
  <1> SUFFICES ASSUME SecInv PROVE Sec!SecuritySafe
    OBVIOUS
  <1>1. Sec!TypeOK
    BY DEF SecInv, SecTypes, SecJobs, Sec!TypeOK
  <1>2. Sec!RuleBounded
    <2>1. Sec!Cardinality(Reqs) = Cardinality(Reqs)
      BY DEF Sec!Cardinality, Cardinality
    <2>2. ASSUME flags > 0
          PROVE  flags <= attempts - (failedLoginThreshold - 1) + (Cardinality(Reqs) - 1)
      <3>1. flags \in Nat /\ attempts \in Nat /\ failedLoginThreshold \in Nat
        BY SecConstants DEF SecInv, SecTypes
      <3>2. attempts >= failedLoginThreshold
        BY <2>2, <3>1 DEF SecInv, FlagsEarned
      <3>3. flags + Cardinality(JudgedNow) <= attempts - failedLoginThreshold + Cardinality(Reqs)
        BY <3>2 DEF SecInv, FlagsEarned
      <3>4. Cardinality(JudgedNow) \in Nat
        BY SecSets
      <3>5. Cardinality(Reqs) \in Nat
        BY SecConstants
      <3> QED
        BY <3>1, <3>3, <3>4, <3>5
    <2> QED
      BY <2>1, <2>2 DEF Sec!RuleBounded
  <1> QED
    BY <1>1, <1>2 DEF SecInv, Sec!SecuritySafe

(* Every attempt with enough others before it in the window has raised its   *)
(* flag or lost its handler, flags do not go beyond the attempts, a flag is  *)
(* resolved by one administrator and an address has one block in force: for  *)
(* any threshold and any number of handlers.                                 *)
THEOREM SecuritySafety == Spec => []SecuritySafe
  <1>1. Init => For("security", SecInv)
    BY SecInit DEF For
  <1>2. For("security", SecInv) /\ [Next]_vars => For("security", SecInv)'
    BY Moves, SecStep DEF For
  <1>3. For("security", SecInv) => SecuritySafe
    BY SecImplied DEF For, SecuritySafe
  <1> QED
    BY <1>1, <1>2, <1>3, PTL DEF Spec

-----------------------------------------------------------------------------
(* user-service, the profile *)

ProfJobs == [op : Prof!Ops, id : Prof!Ids, copy : Referrers \cup {None}, default : BOOLEAN]
Referring == {r \in Reqs : userJob[r].op = "refer"}
Settling == {r \in Reqs : userJob[r].op = "default"}
Settled == defaults \ unsettled
SettlingAt(a) == \E r \in Settling : userJob[r].id = a

ProfTypes ==
    /\ referredBy \in Referrers \cup {None} /\ referrals \in Nat
    /\ addresses \subseteq Addresses /\ IsFiniteSet(addresses)
    /\ defaults \subseteq addresses /\ unsettled \subseteq defaults
    /\ userJob \in [Reqs -> ProfJobs]
    /\ \A r \in Reqs : /\ userJob[r].op = "refer" => userJob[r].id \in Referrers
                       /\ userJob[r].op \in {"insert", "update", "default"}
                             => userJob[r].id \in Addresses

(* A handler that is referring has found no referral, so those of one moment *)
(* are all that ever are.                                                    *)
ReferLane == /\ referrals > 0 => referredBy # None
             /\ referrals + Cardinality(Referring) <= Cardinality(Reqs)

(* Of two defaults one is of a failed handler or of one that is about to     *)
(* make its address the only default.                                        *)
DefaultLane == \A a, b \in Settled : a = b \/ SettlingAt(a) \/ SettlingAt(b)

PaperLane == /\ documents \in [Documents -> {"none", "pending", "approved", "rejected"}]
             /\ judged \subseteq Documents
             /\ \A d \in judged : documents[d] \in {"approved", "rejected"}

ProfInv == ProfTypes /\ ReferLane /\ DefaultLane /\ PaperLane

LEMMA ProfConstants == /\ IsFiniteSet(Reqs) /\ Cardinality(Reqs) \in Nat
                       /\ None \notin Referrers
  BY ServicesAssumption, FS_CardinalityType

LEMMA ReferringSize ==
  /\ IsFiniteSet(Referring) /\ Cardinality(Referring) \in Nat
  /\ Cardinality(Referring) <= Cardinality(Reqs)
  BY ProfConstants, SizeOfPart DEF Referring

LEMMA ProfGoes ==
  ASSUME ProfTypes, NEW r \in Reqs, NEW q \in ProfJobs, userJob' = [userJob EXCEPT ![r] = q],
         q.op = "refer" => q.id \in Referrers,
         q.op \in {"insert", "update", "default"} => q.id \in Addresses
  PROVE  /\ userJob' \in [Reqs -> ProfJobs] /\ userJob'[r] = q
         /\ \A s \in Reqs : s # r => userJob'[s] = userJob[s]
         /\ \A s \in Reqs : /\ userJob'[s].op = "refer" => userJob'[s].id \in Referrers
                            /\ userJob'[s].op \in {"insert", "update", "default"}
                                  => userJob'[s].id \in Addresses
         /\ Cardinality(Referring') \in Nat /\ Cardinality(Referring') <= Cardinality(Reqs)
         /\ userJob[r].op = "refer" /\ q.op # "refer"
               => Cardinality(Referring') = Cardinality(Referring) - 1
         /\ userJob[r].op # "refer" /\ q.op # "refer"
               => Cardinality(Referring') = Cardinality(Referring)
  <1>1. /\ userJob' \in [Reqs -> ProfJobs] /\ userJob'[r] = q
        /\ \A s \in Reqs : s # r => userJob'[s] = userJob[s]
    BY DEF ProfTypes
  <1>2. q.op # "refer" => Referring' = Referring \ {r}
    BY <1>1 DEF Referring
  <1>3. r \in Referring <=> userJob[r].op = "refer"
    BY DEF Referring
  <1>4. /\ userJob[r].op = "refer" /\ q.op # "refer"
               => Cardinality(Referring') = Cardinality(Referring) - 1
        /\ userJob[r].op # "refer" /\ q.op # "refer"
               => Cardinality(Referring') = Cardinality(Referring)
    BY <1>2, <1>3, ReferringSize, SizeLess
  <1>5. Cardinality(Referring') \in Nat /\ Cardinality(Referring') <= Cardinality(Reqs)
    BY ProfConstants, SizeOfPart DEF Referring
  <1>6. \A s \in Reqs : /\ userJob'[s].op = "refer" => userJob'[s].id \in Referrers
                        /\ userJob'[s].op \in {"insert", "update", "default"}
                              => userJob'[s].id \in Addresses
    BY <1>1 DEF ProfTypes
  <1> QED
    BY <1>1, <1>4, <1>5, <1>6

LEMMA ReferKept ==
  ASSUME ReferLane, ProfTypes, UNCHANGED <<referredBy, referrals>>, Cardinality(Referring') \in Nat,
         Cardinality(Referring') <= Cardinality(Referring)
  PROVE  ReferLane'
  BY ReferringSize, ProfConstants DEF ReferLane, ProfTypes

(* A default that is settled and that nobody is settling was so before.      *)
LEMMA DefaultKept ==
  ASSUME DefaultLane,
         \A a \in Settled' : ~SettlingAt(a)' => a \in Settled /\ ~SettlingAt(a)
  PROVE  DefaultLane'
  BY DEF DefaultLane

LEMMA PaperKept ==
  ASSUME PaperLane, UNCHANGED <<documents, judged>>
  PROVE  PaperLane'
  BY DEF PaperLane

LEMMA ProfBegins ==
  ASSUME ProfTypes, NEW r \in Reqs, NEW op \in Prof!Ops, NEW id \in Prof!Ids,
         NEW copy \in Referrers \cup {None}, NEW b \in BOOLEAN, Prof!Begin(r, op, id, copy, b)
  PROVE  \E q \in ProfJobs : /\ q.op = op /\ q.id = id /\ userJob' = [userJob EXCEPT ![r] = q]
                             /\ userJob[r].op = "none"
  <1> DEFINE q == [op |-> op, id |-> id, copy |-> copy, default |-> b]
  <1>1. q \in ProfJobs
    BY DEF ProfJobs
  <1>2. userJob' = [userJob EXCEPT ![r] = q] /\ userJob[r] = Prof!Idle
    BY Zenon DEF Prof!Begin
  <1>3. Prof!Idle.op = "none"
    BY DEF Prof!Idle
  <1> QED
    BY <1>1, <1>2, <1>3

LEMMA ProfEnds ==
  /\ Prof!Idle \in ProfJobs /\ Prof!Idle.op = "none"
  /\ \A r : Prof!End(r) <=> userJob' = [userJob EXCEPT ![r] = Prof!Idle]
  <1>1. FALSE \in BOOLEAN
    BY Zenon
  <1>2. ASSUME NEW b \in BOOLEAN
        PROVE  [op |-> "none", id |-> None, copy |-> None, default |-> b] \in ProfJobs
    BY DEF ProfJobs, Prof!Ops, Prof!Ids
  <1>3. Prof!Idle \in ProfJobs
    BY <1>1, <1>2, Zenon DEF Prof!Idle
  <1>4. Prof!Idle.op = "none"
    BY DEF Prof!Idle
  <1> QED
    BY <1>3, <1>4, Zenon DEF Prof!End

(* Handlers that begin: only the slot changes.                               *)
LEMMA ProfArrivals ==
  ASSUME ProfInv, NEW r \in Reqs, Prof!Requests(r)
  PROVE  ProfInv'
  <1>1. UNCHANGED <<referredBy, referrals, addresses, defaults, unsettled, documents, judged>>
    BY DEF Prof!Requests, Prof!UpdateProfile, Prof!ApplyReferralCode, Prof!SetDefaultAddress,
           Prof!CreateAddress, Prof!UpdateAddress, Prof!Profile, Prof!Places, Prof!Papers
  <1>2. PICK q \in ProfJobs : /\ userJob' = [userJob EXCEPT ![r] = q] /\ userJob[r].op = "none"
                              /\ q.op = "refer" => q.id \in Referrers /\ referredBy = None
                              /\ q.op \in {"insert", "update", "default"} => q.id \in Addresses
    <2>1. CASE Prof!UpdateProfile(r)
      <3>1. PICK b \in BOOLEAN : Prof!Begin(r, "profile", None, referredBy, b)
        BY <2>1, Zenon DEF Prof!UpdateProfile
      <3>2. "profile" \in Prof!Ops /\ None \in Prof!Ids /\ referredBy \in Referrers \cup {None}
        BY DEF ProfInv, ProfTypes, Prof!Ops, Prof!Ids
      <3> QED
        BY <3>1, <3>2, ProfBegins DEF ProfInv
    <2>2. ASSUME NEW a \in Referrers, Prof!ApplyReferralCode(r, a)
          PROVE  \E q \in ProfJobs : /\ userJob' = [userJob EXCEPT ![r] = q]
                                     /\ userJob[r].op = "none"
                                     /\ q.op = "refer" /\ q.id \in Referrers /\ referredBy = None
      <3>1. PICK b \in BOOLEAN : Prof!Begin(r, "refer", a, None, b) /\ referredBy = None
        BY <2>2, Zenon DEF Prof!ApplyReferralCode, Prof!NotReferred
      <3>2. "refer" \in Prof!Ops /\ a \in Prof!Ids
        BY DEF Prof!Ops, Prof!Ids
      <3> QED
        BY <3>1, <3>2, ProfBegins DEF ProfInv
    <2>3. ASSUME NEW a \in Addresses,
                 \/ Prof!SetDefaultAddress(r, a)
                 \/ \E d \in BOOLEAN : Prof!CreateAddress(r, a, d) \/ Prof!UpdateAddress(r, a, d)
          PROVE  \E q \in ProfJobs : /\ userJob' = [userJob EXCEPT ![r] = q]
                                     /\ userJob[r].op = "none"
                                     /\ q.op # "refer" /\ q.id \in Addresses
      <3>1. PICK op \in {"insert", "update", "default"}, b \in BOOLEAN :
               Prof!Begin(r, op, a, None, b)
        <4>1. CASE Prof!SetDefaultAddress(r, a)
          <5>1. PICK b \in BOOLEAN : Prof!Begin(r, "default", a, None, b)
            BY <4>1, Zenon DEF Prof!SetDefaultAddress
          <5> QED
            BY <5>1
        <4>2. ASSUME NEW d \in BOOLEAN, Prof!CreateAddress(r, a, d) \/ Prof!UpdateAddress(r, a, d)
              PROVE  \/ Prof!Begin(r, "insert", a, None, d)
                     \/ Prof!Begin(r, "update", a, None, d)
          BY <4>2, Zenon DEF Prof!CreateAddress, Prof!UpdateAddress
        <4>3. CASE \E d \in BOOLEAN : Prof!CreateAddress(r, a, d) \/ Prof!UpdateAddress(r, a, d)
          <5>1. PICK d \in BOOLEAN : \/ Prof!Begin(r, "insert", a, None, d)
                                     \/ Prof!Begin(r, "update", a, None, d)
            BY <4>2, <4>3
          <5> QED
            BY <5>1
        <4> QED
          BY <2>3, <4>1, <4>3
      <3>2. op \in Prof!Ops /\ a \in Prof!Ids
        BY DEF Prof!Ops, Prof!Ids
      <3> QED
        BY <3>1, <3>2, ProfBegins DEF ProfInv
    <2> QED
      BY <2>1, <2>2, <2>3 DEF Prof!Requests
  <1>3. /\ userJob' \in [Reqs -> ProfJobs] /\ userJob'[r] = q
        /\ \A s \in Reqs : s # r => userJob'[s] = userJob[s]
        /\ \A s \in Reqs : /\ userJob'[s].op = "refer" => userJob'[s].id \in Referrers
                           /\ userJob'[s].op \in {"insert", "update", "default"}
                                 => userJob'[s].id \in Addresses
        /\ Cardinality(Referring') \in Nat /\ Cardinality(Referring') <= Cardinality(Reqs)
        /\ q.op # "refer" => Cardinality(Referring') = Cardinality(Referring)
    BY <1>2, ProfGoes DEF ProfInv
  <1>4. ProfTypes'
    BY <1>1, <1>3 DEF ProfInv, ProfTypes
  <1>5. ReferLane'
    <2>1. CASE q.op = "refer"
      <3>1. referrals = 0
        BY <1>2, <2>1 DEF ProfInv, ProfTypes, ReferLane
      <3> QED
        BY <1>1, <1>3, <3>1 DEF ReferLane
    <2>2. CASE q.op # "refer"
      BY <1>1, <1>3, <2>2, ReferringSize, ReferKept DEF ProfInv
    <2> QED
      BY <2>1, <2>2
  <1>6. DefaultLane'
    <2>1. \A a : SettlingAt(a) => SettlingAt(a)'
      BY <1>2, <1>3 DEF SettlingAt, Settling
    <2> QED
      BY <1>1, <2>1, DefaultKept DEF ProfInv, Settled
  <1> QED
    BY <1>1, <1>4, <1>5, <1>6, PaperKept DEF ProfInv

(* Handlers that end, and write the profile.                                 *)
LEMMA ProfProfiles ==
  ASSUME ProfInv, NEW r \in Reqs, Prof!SaveProfile(r) \/ Prof!ApplyReferral(r)
  PROVE  ProfInv'
  <1>1. /\ userJob' = [userJob EXCEPT ![r] = Prof!Idle]
        /\ UNCHANGED <<addresses, defaults, unsettled, documents, judged>>
        /\ userJob[r].op \in {"profile", "refer"}
    BY ProfEnds DEF Prof!SaveProfile, Prof!ApplyReferral, Prof!Places, Prof!Papers
  <1>2. \/ UNCHANGED <<referredBy, referrals>> /\ userJob[r].op = "profile"
        \/ /\ referredBy' = userJob[r].id /\ referrals' = referrals + 1
           /\ userJob[r].op = "refer"
    BY DEF Prof!SaveProfile, Prof!ApplyReferral, Prof!Saved
  <1>3. /\ userJob' \in [Reqs -> ProfJobs] /\ userJob'[r] = Prof!Idle
        /\ \A s \in Reqs : s # r => userJob'[s] = userJob[s]
        /\ \A s \in Reqs : /\ userJob'[s].op = "refer" => userJob'[s].id \in Referrers
                           /\ userJob'[s].op \in {"insert", "update", "default"}
                                 => userJob'[s].id \in Addresses
        /\ Cardinality(Referring') \in Nat
        /\ userJob[r].op = "refer" => Cardinality(Referring') = Cardinality(Referring) - 1
        /\ userJob[r].op # "refer" => Cardinality(Referring') = Cardinality(Referring)
    BY <1>1, ProfEnds, ProfGoes DEF ProfInv
  <1>4. userJob[r].op = "refer" => userJob[r].id \in Referrers /\ userJob[r].id # None
    BY ProfConstants DEF ProfInv, ProfTypes
  <1>5. ProfTypes'
    BY <1>1, <1>2, <1>3, <1>4 DEF ProfInv, ProfTypes
  <1>6. ReferLane'
    <2>1. CASE userJob[r].op = "profile"
      BY <1>2, <1>3, <2>1, ReferringSize, ReferKept DEF ProfInv
    <2>2. CASE userJob[r].op = "refer"
      <3>1. referrals' + Cardinality(Referring') = referrals + Cardinality(Referring)
        BY <1>2, <1>3, <2>2, ReferringSize DEF ProfInv, ProfTypes
      <3> QED
        BY <1>2, <1>4, <2>2, <3>1 DEF ProfInv, ReferLane
    <2> QED
      BY <1>1, <2>1, <2>2
  <1>7. DefaultLane'
    <2>1. \A a : SettlingAt(a) => SettlingAt(a)'
      BY <1>1, <1>3 DEF SettlingAt, Settling
    <2> QED
      BY <1>1, <2>1, DefaultKept DEF ProfInv, Settled
  <1> QED
    BY <1>1, <1>5, <1>6, <1>7, PaperKept DEF ProfInv

LEMMA ProfWrites ==
  ASSUME ProfInv, NEW r \in Reqs, Prof!WriteAddress(r)
  PROVE  ProfInv'
  <1> DEFINE p == userJob[r]
             j == [p EXCEPT !.op = "default"]
  <1>0. PICK a : a = p.id
    OBVIOUS
  <1>1. /\ p.op \in {"insert", "update"} /\ a \in Addresses /\ p \in ProfJobs
    BY <1>0 DEF Prof!WriteAddress, ProfInv, ProfTypes
  <1>2. j \in ProfJobs /\ j.op = "default" /\ j.id = a
    BY <1>0, <1>1 DEF ProfJobs, Prof!Ops
  <1>3. /\ addresses' = addresses \cup {a} \/ addresses' = addresses
        /\ \/ /\ defaults' = defaults \cup {a} /\ a \in addresses'
              /\ userJob' = [userJob EXCEPT ![r] = j]
           \/ /\ defaults' = defaults \ {a}
              /\ \/ userJob' = [userJob EXCEPT ![r] = Prof!Idle]
                 \/ userJob' = [userJob EXCEPT ![r] = j]
        /\ unsettled' = unsettled \ {a}
        /\ UNCHANGED <<referredBy, referrals, documents, judged>>
    <2>1. /\ unsettled' = unsettled \ {a} /\ UNCHANGED <<referredBy, referrals, documents, judged>>
          /\ addresses' = addresses \cup {a} \/ addresses' = addresses
      BY <1>0 DEF Prof!WriteAddress, Prof!Profile, Prof!Papers
    <2>2. CASE p.default
      <3>1. userJob' = [userJob EXCEPT ![r] = j]
        <4>1. userJob' = [userJob EXCEPT ![r].op = "default"]
          BY <2>2, Zenon DEF Prof!WriteAddress
        <4> QED
          BY <4>1, Zenon
      <3>2. \/ defaults' = defaults \cup {a} /\ a \in addresses'
            \/ defaults' = defaults \ {a}
        BY <1>0 DEF Prof!WriteAddress
      <3> QED
        BY <2>1, <3>1, <3>2
    <2>3. CASE ~p.default
      <3>1. defaults' = defaults \ {a}
        BY <1>0, <2>3, Zenon DEF Prof!WriteAddress
      <3>2. Prof!End(r)
        BY <2>3, Zenon DEF Prof!WriteAddress
      <3> QED
        BY <2>1, <3>1, <3>2, ProfEnds
    <2> QED
      BY <2>2, <2>3
  <1> HIDE DEF j
  <1>4. PICK q \in {j, Prof!Idle} : userJob' = [userJob EXCEPT ![r] = q]
    BY <1>3
  <1>5. /\ q \in ProfJobs /\ q.op # "refer"
        /\ q.op \in {"insert", "update", "default"} => q.id \in Addresses
    BY <1>1, <1>2, ProfEnds
  <1>6. /\ userJob' \in [Reqs -> ProfJobs] /\ userJob'[r] = q
        /\ \A s \in Reqs : s # r => userJob'[s] = userJob[s]
        /\ \A s \in Reqs : /\ userJob'[s].op = "refer" => userJob'[s].id \in Referrers
                           /\ userJob'[s].op \in {"insert", "update", "default"}
                                 => userJob'[s].id \in Addresses
        /\ Cardinality(Referring') \in Nat
        /\ Cardinality(Referring') = Cardinality(Referring)
    BY <1>1, <1>4, <1>5, ProfGoes DEF ProfInv
  <1>7. /\ addresses' \subseteq Addresses /\ IsFiniteSet(addresses')
        /\ defaults' \subseteq addresses' /\ unsettled' \subseteq defaults'
    BY <1>1, <1>3, FS_AddElement DEF ProfInv, ProfTypes
  <1>8. ProfTypes'
    BY <1>3, <1>6, <1>7 DEF ProfInv, ProfTypes
  <1>9. ReferLane'
    BY <1>3, <1>6, ReferringSize, ReferKept DEF ProfInv
  <1>10. DefaultLane'
    <2>1. \A b : SettlingAt(b) => SettlingAt(b)'
      BY <1>1, <1>6 DEF SettlingAt, Settling
    <2>2. \A b \in Settled' : b # a => b \in Settled
      BY <1>3 DEF Settled
    <2>3. a \in Settled' => userJob' = [userJob EXCEPT ![r] = j]
      BY <1>3 DEF Settled
    <2>4. a \in Settled' => userJob'[r] = j
      BY <2>3 DEF ProfInv, ProfTypes
    <2>5. a \in Settled' => SettlingAt(a)'
      BY <1>2, <2>4 DEF SettlingAt, Settling
    <2>6. \A b \in Settled' : ~SettlingAt(b)' => b \in Settled /\ ~SettlingAt(b)
      BY <2>1, <2>2, <2>5
    <2> QED
      BY <2>6, DefaultKept DEF ProfInv
  <1> QED
    BY <1>3, <1>8, <1>9, <1>10, PaperKept DEF ProfInv

LEMMA ProfDefaults ==
  ASSUME ProfInv, NEW r \in Reqs, Prof!MakeDefault(r)
  PROVE  ProfInv'
  <1> DEFINE a == userJob[r].id
  <1>1. /\ userJob' = [userJob EXCEPT ![r] = Prof!Idle] /\ userJob[r].op = "default"
        /\ defaults' = {a} \cap addresses /\ unsettled' = {} /\ addresses' = addresses
        /\ UNCHANGED <<referredBy, referrals, documents, judged>>
    BY ProfEnds DEF Prof!MakeDefault, Prof!OnlyDefault, Prof!Profile, Prof!Papers
  <1>2. /\ userJob' \in [Reqs -> ProfJobs]
        /\ \A s \in Reqs : /\ userJob'[s].op = "refer" => userJob'[s].id \in Referrers
                           /\ userJob'[s].op \in {"insert", "update", "default"}
                                 => userJob'[s].id \in Addresses
        /\ Cardinality(Referring') \in Nat
        /\ Cardinality(Referring') = Cardinality(Referring)
    BY <1>1, ProfEnds, ProfGoes DEF ProfInv
  <1>3. ProfTypes'
    BY <1>1, <1>2 DEF ProfInv, ProfTypes
  <1>4. ReferLane'
    BY <1>1, <1>2, ReferringSize, ReferKept DEF ProfInv
  <1>5. DefaultLane'
    BY <1>1 DEF DefaultLane, Settled
  <1> QED
    BY <1>1, <1>3, <1>4, <1>5, PaperKept DEF ProfInv

LEMMA ProfFails ==
  ASSUME ProfInv, NEW r \in Reqs, Prof!Fail(r)
  PROVE  ProfInv'
  <1> DEFINE p == userJob[r]
  <1>1. /\ userJob' = [userJob EXCEPT ![r] = Prof!Idle]
        /\ \/ p.op = "default" /\ unsettled' = unsettled \cup ({p.id} \cap defaults)
           \/ p.op # "default" /\ unsettled' = unsettled
        /\ UNCHANGED <<referredBy, referrals, addresses, defaults, documents, judged>>
    BY ProfEnds DEF Prof!Fail, Prof!Profile, Prof!Papers
  <1>2. /\ userJob' \in [Reqs -> ProfJobs] /\ userJob'[r] = Prof!Idle
        /\ \A s \in Reqs : s # r => userJob'[s] = userJob[s]
        /\ \A s \in Reqs : /\ userJob'[s].op = "refer" => userJob'[s].id \in Referrers
                           /\ userJob'[s].op \in {"insert", "update", "default"}
                                 => userJob'[s].id \in Addresses
        /\ Cardinality(Referring') \in Nat
        /\ \/ Cardinality(Referring') = Cardinality(Referring) - 1
           \/ Cardinality(Referring') = Cardinality(Referring)
    BY <1>1, ProfEnds, ProfGoes DEF ProfInv
  <1>3. ProfTypes'
    BY <1>1, <1>2 DEF ProfInv, ProfTypes
  <1>4. ReferLane'
    BY <1>1, <1>2, ReferringSize, ReferKept DEF ProfInv
  <1>5. DefaultLane'
    <2>1. \A b : SettlingAt(b) => SettlingAt(b)' \/ (p.op = "default" /\ b = p.id)
      BY <1>2 DEF SettlingAt, Settling
    <2>2. \A b \in Settled' : b \in Settled /\ ~(p.op = "default" /\ b = p.id)
      BY <1>1 DEF Settled
    <2> QED
      BY <2>1, <2>2, DefaultKept DEF ProfInv
  <1> QED
    BY <1>1, <1>3, <1>4, <1>5, PaperKept DEF ProfInv

(* Requests of one statement.                                                *)
LEMMA ProfShort ==
  ASSUME ProfInv,
         \/ \E a \in addresses : Prof!DeleteAddress(a)
         \/ \E d \in Documents : \/ Prof!UploadDocument(d) \/ Prof!DeleteDocument(d)
                                 \/ \E s \in {"approved", "rejected"} : Prof!VerifyDocument(d, s)
  PROVE  ProfInv'
  <1>1. UNCHANGED <<referredBy, referrals, userJob>>
    BY DEF Prof!DeleteAddress, Prof!UploadDocument, Prof!DeleteDocument, Prof!VerifyDocument,
           Prof!Profile
  <1>2. ReferLane'
    BY <1>1 DEF ProfInv, ReferLane, Referring
  <1>3. \A a : SettlingAt(a)' <=> SettlingAt(a)
    BY <1>1 DEF SettlingAt, Settling
  <1>4. ASSUME NEW a \in addresses, Prof!DeleteAddress(a)
        PROVE  ProfInv'
    <2>1. /\ addresses' = addresses \ {a} /\ defaults' = defaults \ {a}
          /\ unsettled' = unsettled \ {a} /\ UNCHANGED <<documents, judged>>
      BY <1>4 DEF Prof!DeleteAddress, Prof!Papers
    <2>2. IsFiniteSet(addresses')
      BY <2>1, FS_RemoveElement DEF ProfInv, ProfTypes
    <2>3. ProfTypes'
      BY <1>1, <2>1, <2>2 DEF ProfInv, ProfTypes
    <2>4. DefaultLane'
      BY <1>3, <2>1, DefaultKept DEF ProfInv, Settled
    <2> QED
      BY <1>2, <2>1, <2>3, <2>4, PaperKept DEF ProfInv
  <1>5. ASSUME NEW d \in Documents,
               \/ Prof!UploadDocument(d) \/ Prof!DeleteDocument(d)
               \/ \E s \in {"approved", "rejected"} : Prof!VerifyDocument(d, s)
        PROVE  ProfInv'
    <2>1. UNCHANGED <<addresses, defaults, unsettled>>
      BY <1>5 DEF Prof!UploadDocument, Prof!DeleteDocument, Prof!VerifyDocument, Prof!Places
    <2>2. ProfTypes' /\ DefaultLane'
      BY <1>1, <1>3, <2>1, DefaultKept DEF ProfInv, ProfTypes, Settled
    <2>3. PaperLane'
      <3>1. \/ /\ d \notin judged /\ judged' = judged
               /\ \E s \in {"none", "pending"} : documents' = [documents EXCEPT ![d] = s]
            \/ /\ judged' = judged \cup {d}
               /\ \E s \in {"approved", "rejected"} : documents' = [documents EXCEPT ![d] = s]
        BY <1>5 DEF Prof!UploadDocument, Prof!DeleteDocument, Prof!VerifyDocument,
                    Prof!Deletable, ProfInv, PaperLane
      <3> QED
        BY <3>1 DEF ProfInv, PaperLane
    <2> QED
      BY <1>2, <2>2, <2>3 DEF ProfInv
  <1> QED
    BY <1>4, <1>5

LEMMA ProfStep == ProfInv /\ [Prof!Next]_userProfile => ProfInv'
  <1> SUFFICES ASSUME ProfInv, [Prof!Next]_userProfile PROVE ProfInv'
    OBVIOUS
  <1>1. CASE UNCHANGED userProfile
    <2>1. UNCHANGED <<referredBy, referrals, addresses, defaults, unsettled, documents, judged,
                      userJob>>
      BY <1>1 DEF userProfile
    <2> QED
      BY <2>1 DEF ProfInv, ProfTypes, ReferLane, DefaultLane, PaperLane, Referring, Settled,
                  SettlingAt, Settling
  <1> QED
    BY <1>1, ProfArrivals, ProfProfiles, ProfWrites, ProfDefaults, ProfFails, ProfShort
       DEF Prof!Next

LEMMA ProfInit == Init => ProfInv
  <1> SUFFICES ASSUME Prof!Init PROVE ProfInv
    BY DEF Init
  <1>1. \A r \in Reqs : userJob[r] = Prof!Idle /\ userJob[r].op = "none"
    BY ProfEnds DEF Prof!Init
  <1>2. userJob \in [Reqs -> ProfJobs]
    BY ProfEnds DEF Prof!Init
  <1>3. Referring = {} /\ Cardinality(Referring) = 0
    BY <1>1, FS_EmptySet DEF Referring
  <1>4. ProfTypes
    BY <1>1, <1>2, FS_EmptySet DEF Prof!Init, ProfTypes
  <1>5. ReferLane /\ DefaultLane /\ PaperLane
    BY <1>3, ProfConstants DEF Prof!Init, ReferLane, DefaultLane, PaperLane, Settled
  <1> QED
    BY <1>4, <1>5 DEF ProfInv

(* Each settled default but one is that of a slot, so the slots count them.  *)
LEMMA DefaultsCounted ==
  ASSUME ProfInv
  PROVE  Cardinality(defaults) <= 1 + Cardinality(Settling) + Cardinality(unsettled)
  <1> DEFINE Free == {a \in Settled : ~SettlingAt(a)}
             Taken == {a \in Settled : SettlingAt(a)}
             Busy == {r \in Settling : userJob[r].id \in Taken}
             f == [r \in Busy |-> userJob[r].id]
  <1>1. IsFiniteSet(Settling) /\ Cardinality(Settling) \in Nat
    BY ProfConstants, SizeOfPart DEF Settling
  <1>2. /\ IsFiniteSet(Busy) /\ Cardinality(Busy) \in Nat
        /\ Cardinality(Busy) <= Cardinality(Settling)
    BY <1>1, SizeOfPart
  <1>3. IsFiniteSet(Taken) /\ Cardinality(Taken) <= Cardinality(Busy)
    <2>1. f \in [Busy -> Taken]
      OBVIOUS
    <2>2. \A a \in Taken : \E r \in Busy : f[r] = a
      BY DEF SettlingAt
    <2>3. f \in Surjection(Busy, Taken)
      BY <2>1, <2>2 DEF Surjection
    <2> QED
      BY <1>2, <2>3, FS_Surjection
  <1>4. IsFiniteSet(Free) /\ Cardinality(Free) <= 1 /\ Cardinality(Free) \in Nat
    <2>1. \A a, b \in Free : a = b
      BY DEF ProfInv, DefaultLane
    <2> QED
      BY <2>1, SizeOfOne
  <1>5. IsFiniteSet(defaults) /\ IsFiniteSet(unsettled)
    <2>1. IsFiniteSet(defaults)
      BY SizeOfPart DEF ProfInv, ProfTypes
    <2> QED
      BY <2>1, SizeOfPart DEF ProfInv, ProfTypes
  <1>6. /\ Cardinality(defaults) \in Nat /\ Cardinality(unsettled) \in Nat
        /\ Cardinality(Taken) \in Nat
    BY <1>3, <1>5, FS_CardinalityType
  <1>7. defaults = (Free \cup Taken) \cup unsettled
    BY DEF ProfInv, ProfTypes, Settled
  <1>8. /\ IsFiniteSet(Free \cup Taken) /\ Cardinality(Free \cup Taken) \in Nat
        /\ Cardinality(Free \cup Taken) <= Cardinality(Free) + Cardinality(Taken)
    <2>1. Cardinality(Free \cup Taken)
             = Cardinality(Free) + Cardinality(Taken) - Cardinality(Free \cap Taken)
      BY <1>3, <1>4, FS_Union
    <2>2. IsFiniteSet(Free \cup Taken)
      BY <1>3, <1>4, FS_Union
    <2>3. Free \cap Taken = {}
      OBVIOUS
    <2>4. Cardinality(Free \cap Taken) = 0
      BY <2>3, FS_EmptySet
    <2> QED
      BY <1>4, <1>6, <2>1, <2>2, <2>4, FS_CardinalityType
  <1> HIDE DEF Free, Taken
  <1>9. Cardinality(defaults) <= Cardinality(Free \cup Taken) + Cardinality(unsettled)
    <2>1. Cardinality((Free \cup Taken) \cup unsettled)
             = Cardinality(Free \cup Taken) + Cardinality(unsettled)
                 - Cardinality((Free \cup Taken) \cap unsettled)
      BY <1>5, <1>8, FS_Union
    <2>2. Cardinality((Free \cup Taken) \cap unsettled) \in Nat
      BY <1>5, SizeOfPart
    <2> QED
      BY <1>6, <1>7, <1>8, <2>1, <2>2
  <1> QED
    BY <1>1, <1>2, <1>3, <1>4, <1>6, <1>8, <1>9

LEMMA ProfImplied == ProfInv => Prof!ProfileSafe
  <1> SUFFICES ASSUME ProfInv PROVE Prof!ProfileSafe
    OBVIOUS
  <1>1. \A S : Prof!Cardinality(S) = Cardinality(S)
    BY DEF Prof!Cardinality, Cardinality
  <1>2. Prof!TypeOK
    <2>1. userJob \in [Reqs -> [op : Prof!Ops, id : Prof!Ids, copy : Referrers \cup {None},
                                default : BOOLEAN]]
      BY DEF ProfInv, ProfTypes, ProfJobs
    <2> QED
      BY <2>1 DEF ProfInv, ProfTypes, PaperLane, Prof!TypeOK
  <1>3. Prof!ReferralKept
    BY <1>1, ReferringSize, ProfConstants DEF ProfInv, ProfTypes, ReferLane, Prof!ReferralKept
  <1>4. Prof!OneDefault
    BY <1>1, DefaultsCounted DEF Prof!OneDefault, Settling
  <1>5. Prof!JudgedKept
    BY DEF ProfInv, PaperLane, Prof!JudgedKept
  <1> QED
    BY <1>2, <1>3, <1>4, <1>5 DEF Prof!ProfileSafe

-----------------------------------------------------------------------------
(* user-service, the rows users keep about themselves *)

Profiling == [op : {"profile"}, user : People]
Hiring == [op : {"driver"}, user : People, plate : Plates, id : Acct!Ids]
Repainting == [op : {"vehicle"}, user : People, plate : Plates, colour : Acct!Ids,
               sent : SUBSET {"colour"}]
Choosing == [op : {"settings"}, user : People, id : Acct!Ids, sent : SUBSET Prefs,
             copy : [Prefs -> Acct!Ids]]
Toggling == [op : {"toggle"}, user : People, on : BOOLEAN]
AcctJobs == {Acct!Idle} \cup Profiling \cup Hiring \cup Repainting \cup Choosing \cup Toggling

Cars == [plate : Plates, colour : Acct!Ids]

AcctTypes ==
    /\ profiles \in [People -> {0, 1}]
    /\ vehicles \in [People -> Cars \cup {Acct!NoVehicle}]
    /\ settings \in [People -> [Prefs -> Acct!Ids]]
    /\ chosen \in [People -> [Acct!Fields -> Acct!Ids]]
    /\ overlapped \subseteq People \X Acct!Rows
    /\ approved \subseteq People /\ onDuty \subseteq People /\ revoked \subseteq People
    /\ accountJob \in [Reqs -> AcctJobs] /\ accountArrived \in Acct!Ids

OnePlate == \A u, v \in People :
    vehicles[u] \in Cars /\ vehicles[u].plate = vehicles[v].plate => u = v

(* An edit in flight has a row to save, and holds the values of the fields   *)
(* it does not send, until two edits of the row overlap.                     *)
Editing(r, op, u) == accountJob[r].op = op /\ accountJob[r].user = u
Lonely(op, u) == \A r, s \in Reqs : Editing(r, op, u) /\ Editing(s, op, u) => r = s
SettingsHeld(u) ==
    /\ \A f \in Prefs : settings[u][f] = chosen[u][f]
    /\ \A r \in Reqs : Editing(r, "settings", u) =>
          \A f \in Prefs : accountJob[r].copy[f] =
             IF f \in accountJob[r].sent THEN accountJob[r].id ELSE settings[u][f]
VehicleHeld(u) ==
    /\ vehicles[u].colour = chosen[u]["colour"]
    /\ \A r \in Reqs : Editing(r, "vehicle", u) =>
          "colour" \in accountJob[r].sent \/ accountJob[r].colour = vehicles[u].colour
SettingsLane == \A u \in People :
    <<u, "settings">> \in overlapped \/ (Lonely("settings", u) /\ SettingsHeld(u))
VehicleLane == \A u \in People :
    <<u, "vehicle">> \in overlapped \/ (Lonely("vehicle", u) /\ VehicleHeld(u))
RowThere == \A r \in Reqs : accountJob[r].op \in {"vehicle", "toggle"} =>
    vehicles[accountJob[r].user] \in Cars

(* Who is online, or granted to be, is verified or lost that since.          *)
DutyLane ==
    /\ onDuty \subseteq approved \cup revoked
    /\ \A r \in Reqs : \A u \in People : Acct!GoingOnline(r, u) => u \in approved \cup revoked

AcctInv == AcctTypes /\ OnePlate /\ SettingsLane /\ VehicleLane /\ RowThere /\ DutyLane

(* No slot takes up an edit of the kind.                                     *)
Fewer(op) == \A r \in Reqs : accountJob'[r].op = op => accountJob'[r] = accountJob[r]

LEMMA AcctConstants ==
  /\ Bound["account"] \in Nat /\ 0 \in Acct!Ids /\ None \notin Plates /\ "colour" \notin Prefs
  /\ Acct!Fields = Prefs \cup {"colour"} /\ Acct!Rows = {"vehicle", "settings"}
  BY ServicesAssumption DEF ServiceNames, Acct!Ids, Acct!Fields, Acct!Rows

LEMMA AcctKinds ==
  ASSUME NEW q \in AcctJobs
  PROVE  /\ q.op = "profile" => q \in Profiling
         /\ q.op = "driver" => q \in Hiring
         /\ q.op = "vehicle" => q \in Repainting
         /\ q.op = "settings" => q \in Choosing
         /\ q.op = "toggle" => q \in Toggling
         /\ q.op \in {"none", "profile", "driver", "vehicle", "toggle", "settings"}
         /\ q # Acct!Idle => q.user \in People
  <1>1. Acct!Idle.op = "none"
    BY DEF Acct!Idle
  <1>2. /\ q \in Profiling => q.op = "profile" /\ q.user \in People
        /\ q \in Hiring => q.op = "driver" /\ q.user \in People
        /\ q \in Repainting => q.op = "vehicle" /\ q.user \in People
        /\ q \in Choosing => q.op = "settings" /\ q.user \in People
    BY DEF Profiling, Hiring, Repainting, Choosing
  <1>3. q \in Toggling => q.op = "toggle" /\ q.user \in People
    BY DEF Toggling
  <1> QED
    BY <1>1, <1>2, <1>3 DEF AcctJobs

LEMMA CarRow ==
  ASSUME NEW p \in Plates, NEW i \in Acct!Ids
  PROVE  LET c == [plate |-> p, colour |-> i] IN c \in Cars /\ c.plate = p /\ c.colour = i
  BY DEF Cars

LEMMA CarFields ==
  ASSUME NEW c \in Cars
  PROVE  /\ c.plate \in Plates /\ c.colour \in Acct!Ids
         /\ c # Acct!NoVehicle /\ c.plate # Acct!NoVehicle.plate
  <1>1. c.plate \in Plates /\ c.colour \in Acct!Ids
    BY DEF Cars
  <1>2. Acct!NoVehicle.plate = None
    BY DEF Acct!NoVehicle
  <1> QED
    BY <1>1, <1>2, AcctConstants

LEMMA AcctGoes ==
  ASSUME AcctTypes, NEW r \in Reqs, NEW q \in AcctJobs, accountJob' = [accountJob EXCEPT ![r] = q]
  PROVE  /\ accountJob' \in [Reqs -> AcctJobs] /\ accountJob'[r] = q
         /\ \A s \in Reqs : s # r => accountJob'[s] = accountJob[s]
         /\ \A op : op # q.op => Fewer(op)
  BY DEF AcctTypes, Fewer

LEMMA AcctIdle == Acct!Idle \in AcctJobs /\ Acct!Idle.op = "none"
  BY DEF AcctJobs, Acct!Idle

LEMMA AcctEnds ==
  ASSUME AcctTypes, NEW r \in Reqs, Acct!End(r)
  PROVE  /\ accountJob' \in [Reqs -> AcctJobs]
         /\ \A s \in Reqs : accountJob'[s].op # "none" => s # r /\ accountJob'[s] = accountJob[s]
         /\ Fewer("settings") /\ Fewer("vehicle") /\ Fewer("toggle")
  BY AcctGoes, AcctIdle DEF Acct!End

LEMMA AcctBegins ==
  ASSUME AcctTypes, NEW r \in Reqs, NEW q \in AcctJobs, q.user \in People, Acct!Begin(r, q)
  PROVE  /\ accountJob' \in [Reqs -> AcctJobs] /\ accountJob'[r] = q
         /\ \A s \in Reqs : s # r => accountJob'[s] = accountJob[s]
         /\ \A op : op # q.op => Fewer(op)
         /\ UNCHANGED <<profiles, vehicles, settings, chosen, approved, onDuty, revoked>>
         /\ accountArrived' \in Acct!Ids /\ accountArrived + 1 \in Acct!Ids
         /\ overlapped \subseteq overlapped' /\ overlapped' \subseteq People \X Acct!Rows
         /\ q.op \in Acct!Rows =>
               \/ <<q.user, q.op>> \in overlapped'
               \/ \A s \in Reqs : ~(accountJob[s].op = q.op /\ accountJob[s].user = q.user)
  <1>1. /\ accountJob' = [accountJob EXCEPT ![r] = q]
        /\ accountArrived < Bound["account"] /\ accountArrived' = accountArrived + 1
        /\ UNCHANGED <<profiles, vehicles, settings, chosen, approved, onDuty, revoked>>
    BY DEF Acct!Begin, Acct!Stored, Acct!standing
  <1>2. \/ q.op \in Acct!Rows /\ overlapped' = overlapped \cup {<<q.user, q.op>>}
        \/ /\ overlapped' = overlapped
           /\ \/ q.op \notin Acct!Rows
              \/ \A s \in Reqs : ~(accountJob[s].op = q.op /\ accountJob[s].user = q.user)
    BY Zenon DEF Acct!Begin
  <1>3. accountArrived' \in Acct!Ids /\ accountArrived + 1 \in Acct!Ids
    BY <1>1, AcctConstants DEF AcctTypes, Acct!Ids
  <1>4. overlapped \subseteq overlapped' /\ overlapped' \subseteq People \X Acct!Rows
    BY <1>2 DEF AcctTypes
  <1>5. q.op \in Acct!Rows =>
           \/ <<q.user, q.op>> \in overlapped'
           \/ \A s \in Reqs : ~(accountJob[s].op = q.op /\ accountJob[s].user = q.user)
    BY <1>2
  <1> QED
    BY <1>1, <1>3, <1>4, <1>5, AcctGoes

(* A lane no edit joins keeps what it says.                                  *)
LEMMA LonelyKept ==
  ASSUME NEW op, NEW u, Lonely(op, u), Fewer(op)
  PROVE  Lonely(op, u)'
  BY DEF Lonely, Editing, Fewer

LEMMA SettingsKept ==
  ASSUME SettingsLane, Fewer("settings"), settings' = settings, overlapped \subseteq overlapped',
         \A u \in People : \A f \in Prefs : chosen'[u][f] = chosen[u][f]
  PROVE  SettingsLane'
  <1> SUFFICES ASSUME NEW u \in People, <<u, "settings">> \notin overlapped'
               PROVE  Lonely("settings", u)' /\ SettingsHeld(u)'
    BY DEF SettingsLane
  <1>1. Lonely("settings", u) /\ SettingsHeld(u)
    BY DEF SettingsLane
  <1>2. \A f \in Prefs : settings'[u][f] = chosen'[u][f]
    BY <1>1 DEF SettingsHeld
  <1>3. ASSUME NEW r \in Reqs, Editing(r, "settings", u)'
        PROVE  \A f \in Prefs : accountJob'[r].copy[f] =
                  IF f \in accountJob'[r].sent THEN accountJob'[r].id ELSE settings'[u][f]
    <2>1. accountJob'[r] = accountJob[r]
      BY <1>3 DEF Editing, Fewer
    <2>2. Editing(r, "settings", u)
      BY <1>3, <2>1 DEF Editing
    <2> QED
      BY <1>1, <2>1, <2>2 DEF SettingsHeld
  <1> QED
    BY <1>1, <1>2, <1>3, LonelyKept DEF SettingsHeld

LEMMA VehicleKept ==
  ASSUME VehicleLane, Fewer("vehicle"), overlapped \subseteq overlapped',
         \A u \in People : vehicles'[u].colour = vehicles[u].colour
                           /\ chosen'[u]["colour"] = chosen[u]["colour"]
  PROVE  VehicleLane'
  <1> SUFFICES ASSUME NEW u \in People, <<u, "vehicle">> \notin overlapped'
               PROVE  Lonely("vehicle", u)' /\ VehicleHeld(u)'
    BY DEF VehicleLane
  <1>1. Lonely("vehicle", u) /\ VehicleHeld(u)
    BY DEF VehicleLane
  <1>2. vehicles'[u].colour = chosen'[u]["colour"]
    BY <1>1 DEF VehicleHeld
  <1>3. ASSUME NEW r \in Reqs, Editing(r, "vehicle", u)'
        PROVE  "colour" \in accountJob'[r].sent \/ accountJob'[r].colour = vehicles'[u].colour
    <2>1. accountJob'[r] = accountJob[r]
      BY <1>3 DEF Editing, Fewer
    <2>2. Editing(r, "vehicle", u)
      BY <1>3, <2>1 DEF Editing
    <2> QED
      BY <1>1, <2>1, <2>2 DEF VehicleHeld
  <1> QED
    BY <1>1, <1>2, <1>3, LonelyKept DEF VehicleHeld

LEMMA ThereKept ==
  ASSUME AcctTypes, RowThere, Fewer("vehicle"), Fewer("toggle"),
         \A u \in People : vehicles[u] \in Cars => vehicles'[u] \in Cars
  PROVE  RowThere'
  <1> SUFFICES ASSUME NEW r \in Reqs, accountJob'[r].op \in {"vehicle", "toggle"}
               PROVE  vehicles'[accountJob'[r].user] \in Cars
    BY DEF RowThere
  <1>1. accountJob'[r] = accountJob[r]
    BY DEF Fewer
  <1>2. accountJob[r].user \in People
    BY <1>1, AcctKinds, AcctIdle DEF AcctTypes
  <1> QED
    BY <1>1, <1>2 DEF RowThere

LEMMA DutyKept ==
  ASSUME DutyLane, Fewer("toggle"), UNCHANGED <<approved, onDuty, revoked>>
  PROVE  DutyLane'
  <1> SUFFICES ASSUME NEW r \in Reqs, NEW u \in People, Acct!GoingOnline(r, u)'
               PROVE  u \in approved' \cup revoked'
    BY DEF DutyLane
  <1>1. accountJob'[r] = accountJob[r]
    BY Zenon DEF Acct!GoingOnline, Fewer
  <1>2. Acct!GoingOnline(r, u)
    BY <1>1, Zenon DEF Acct!GoingOnline
  <1> QED
    BY <1>2 DEF DutyLane

LEMMA AcctChooses ==
  ASSUME AcctTypes, NEW u \in People, NEW fields, NEW i \in Acct!Ids, Acct!Chooses(u, fields, i)
  PROVE  /\ chosen' \in [People -> [Acct!Fields -> Acct!Ids]]
         /\ \A v \in People : v # u => chosen'[v] = chosen[v]
         /\ \A f \in Acct!Fields : chosen'[u][f] = IF f \in fields THEN i ELSE chosen[u][f]
  <1> DEFINE g == [f \in Acct!Fields |-> IF f \in fields THEN i ELSE chosen[u][f]]
  <1>1. chosen' = [chosen EXCEPT ![u] = g]
    BY DEF Acct!Chooses
  <1>2. g \in [Acct!Fields -> Acct!Ids]
    BY DEF AcctTypes
  <1>3. \A f \in Acct!Fields : g[f] = IF f \in fields THEN i ELSE chosen[u][f]
    OBVIOUS
  <1> HIDE DEF g
  <1> QED
    BY <1>1, <1>2, <1>3 DEF AcctTypes

(* Requests that arrive.                                                     *)
LEMMA AcctCreates ==
  ASSUME AcctInv, NEW r \in Reqs, NEW u \in People,
         Acct!CreateProfile(r, u) \/ \E p \in Plates : Acct!CreateDriverProfile(r, u, p)
  PROVE  AcctInv'
  <1>1. PICK q \in AcctJobs : /\ q.user \in People /\ q.op \in {"profile", "driver"}
                              /\ Acct!Begin(r, q)
    <2>1. CASE Acct!CreateProfile(r, u)
      <3> DEFINE q == [op |-> "profile", user |-> u]
      <3>1. q \in AcctJobs /\ q.user \in People /\ q.op = "profile"
        BY DEF AcctJobs, Profiling
      <3>2. Acct!Begin(r, q)
        BY <2>1 DEF Acct!CreateProfile
      <3> QED
        BY <3>1, <3>2
    <2>2. ASSUME NEW p \in Plates, Acct!CreateDriverProfile(r, u, p)
          PROVE  \E q \in AcctJobs : /\ q.user \in People /\ q.op \in {"profile", "driver"}
                                     /\ Acct!Begin(r, q)
      <3> DEFINE q == [op |-> "driver", user |-> u, plate |-> p, id |-> accountArrived + 1]
      <3>1. Acct!Begin(r, q)
        BY <2>2 DEF Acct!CreateDriverProfile
      <3>2. accountArrived + 1 \in Acct!Ids
        BY <3>1, AcctConstants DEF Acct!Begin, AcctInv, AcctTypes, Acct!Ids
      <3>3. q \in AcctJobs /\ q.user \in People /\ q.op = "driver"
        BY <3>2 DEF AcctJobs, Hiring
      <3> QED
        BY <3>1, <3>3
    <2> QED
      BY <2>1, <2>2
  <1>2. /\ accountJob' \in [Reqs -> AcctJobs]
        /\ Fewer("settings") /\ Fewer("vehicle") /\ Fewer("toggle")
        /\ UNCHANGED <<profiles, vehicles, settings, chosen, approved, onDuty, revoked>>
        /\ accountArrived' \in Acct!Ids
        /\ overlapped \subseteq overlapped' /\ overlapped' \subseteq People \X Acct!Rows
    BY <1>1, AcctBegins DEF AcctInv
  <1>3. AcctTypes' /\ OnePlate'
    BY <1>2 DEF AcctInv, AcctTypes, OnePlate
  <1> QED
    BY <1>2, <1>3, SettingsKept, VehicleKept, ThereKept, DutyKept DEF AcctInv

LEMMA AcctEdits ==
  ASSUME AcctInv, NEW r \in Reqs, NEW u \in People, NEW p \in Plates \cup {None},
         NEW paint \in BOOLEAN, Acct!UpdateDriverProfile(r, u, p, paint)
  PROVE  AcctInv'
  <1>1. PICK q \in AcctJobs :
           /\ q.user = u /\ q.op = "vehicle" /\ Acct!Begin(r, q)
           /\ "colour" \in q.sent \/ q.colour = vehicles[u].colour
    <2> DEFINE plate == IF p = None THEN vehicles[u].plate ELSE p
    <2>1. vehicles[u] \in Cars
      BY DEF Acct!UpdateDriverProfile, AcctInv, AcctTypes
    <2>2. plate \in Plates /\ vehicles[u].colour \in Acct!Ids
      BY <2>1, CarFields
    <2> HIDE DEF plate
    <2>3. accountArrived + 1 \in Acct!Ids
      BY AcctConstants
         DEF Acct!UpdateDriverProfile, Acct!Begin, AcctInv, AcctTypes, Acct!Ids
    <2>4. CASE paint
      <3> DEFINE q == [op |-> "vehicle", user |-> u, plate |-> plate,
                       colour |-> accountArrived + 1, sent |-> {"colour"}]
      <3>1. Acct!Begin(r, q)
        BY <2>4, Zenon DEF Acct!UpdateDriverProfile, plate
      <3>2. q \in AcctJobs /\ q.user = u /\ q.op = "vehicle" /\ "colour" \in q.sent
        BY <2>2, <2>3 DEF AcctJobs, Repainting
      <3> QED
        BY <3>1, <3>2
    <2>5. CASE ~paint
      <3> DEFINE q == [op |-> "vehicle", user |-> u, plate |-> plate,
                       colour |-> vehicles[u].colour, sent |-> {}]
      <3>1. Acct!Begin(r, q)
        BY <2>5, Zenon DEF Acct!UpdateDriverProfile, plate
      <3>2. q \in AcctJobs /\ q.user = u /\ q.op = "vehicle" /\ q.colour = vehicles[u].colour
        BY <2>2 DEF AcctJobs, Repainting
      <3> QED
        BY <3>1, <3>2
    <2> QED
      BY <2>4, <2>5
  <1>2. /\ accountJob' \in [Reqs -> AcctJobs] /\ accountJob'[r] = q
        /\ \A s \in Reqs : s # r => accountJob'[s] = accountJob[s]
        /\ Fewer("settings") /\ Fewer("toggle")
        /\ UNCHANGED <<profiles, vehicles, settings, chosen, approved, onDuty, revoked>>
        /\ accountArrived' \in Acct!Ids
        /\ overlapped \subseteq overlapped' /\ overlapped' \subseteq People \X Acct!Rows
        /\ \/ <<u, "vehicle">> \in overlapped'
           \/ \A s \in Reqs : ~(accountJob[s].op = "vehicle" /\ accountJob[s].user = u)
    BY <1>1, AcctBegins, AcctConstants DEF AcctInv
  <1>3. AcctTypes' /\ OnePlate'
    BY <1>2 DEF AcctInv, AcctTypes, OnePlate
  <1>4. VehicleLane'
    <2> SUFFICES ASSUME NEW v \in People, <<v, "vehicle">> \notin overlapped'
                 PROVE  Lonely("vehicle", v)' /\ VehicleHeld(v)'
      BY DEF VehicleLane
    <2>1. Lonely("vehicle", v) /\ VehicleHeld(v)
      BY <1>2 DEF AcctInv, VehicleLane
    <2>2. \A s \in Reqs : Editing(s, "vehicle", v)' =>
             \/ s = r /\ v = u
             \/ s # r /\ Editing(s, "vehicle", v) /\ accountJob'[s] = accountJob[s]
      BY <1>1, <1>2 DEF Editing
    <2>3. v = u => \A s \in Reqs : ~Editing(s, "vehicle", v)
      BY <1>2 DEF Editing
    <2>4. Lonely("vehicle", v)'
      BY <2>1, <2>2, <2>3 DEF Lonely
    <2>5. vehicles'[v].colour = chosen'[v]["colour"]
      BY <1>2, <2>1 DEF VehicleHeld
    <2>6. ASSUME NEW s \in Reqs, Editing(s, "vehicle", v)'
          PROVE  "colour" \in accountJob'[s].sent \/ accountJob'[s].colour = vehicles'[v].colour
      BY <1>1, <1>2, <2>1, <2>2, <2>6 DEF VehicleHeld
    <2> QED
      BY <2>4, <2>5, <2>6 DEF VehicleHeld
  <1>5. RowThere'
    <2>1. vehicles[u] \in Cars
      BY DEF Acct!UpdateDriverProfile, AcctInv, AcctTypes
    <2> QED
      BY <1>1, <1>2, <2>1 DEF AcctInv, RowThere
  <1> QED
    BY <1>2, <1>3, <1>4, <1>5, SettingsKept, DutyKept DEF AcctInv

LEMMA AcctSettings ==
  ASSUME AcctInv, NEW r \in Reqs, NEW u \in People, NEW fields \in SUBSET Prefs,
         Acct!UpdateSettings(r, u, fields)
  PROVE  AcctInv'
  <1>1. PICK q \in AcctJobs :
           /\ q.user = u /\ q.op = "settings" /\ Acct!Begin(r, q)
           /\ \A f \in Prefs : q.copy[f] = IF f \in q.sent THEN q.id ELSE settings[u][f]
    <2> DEFINE i == accountArrived + 1
               copy == [f \in Prefs |-> IF f \in fields THEN i ELSE settings[u][f]]
               q == [op |-> "settings", user |-> u, id |-> i, sent |-> fields, copy |-> copy]
    <2>1. Acct!Begin(r, q)
      BY DEF Acct!UpdateSettings, Acct!OverRow
    <2>2. i \in Acct!Ids
      BY <2>1, AcctConstants DEF Acct!Begin, AcctInv, AcctTypes, Acct!Ids
    <2> HIDE DEF i
    <2>3. copy \in [Prefs -> Acct!Ids]
      BY <2>2 DEF AcctInv, AcctTypes
    <2>4. \A f \in Prefs : copy[f] = IF f \in fields THEN i ELSE settings[u][f]
      OBVIOUS
    <2> HIDE DEF copy
    <2>5. q \in AcctJobs /\ q.user = u /\ q.op = "settings" /\ q.copy = copy
          /\ q.sent = fields /\ q.id = i
      BY <2>2, <2>3 DEF AcctJobs, Choosing
    <2> HIDE DEF q
    <2> QED
      BY <2>1, <2>4, <2>5
  <1>2. /\ accountJob' \in [Reqs -> AcctJobs] /\ accountJob'[r] = q
        /\ \A s \in Reqs : s # r => accountJob'[s] = accountJob[s]
        /\ Fewer("vehicle") /\ Fewer("toggle")
        /\ UNCHANGED <<profiles, vehicles, settings, chosen, approved, onDuty, revoked>>
        /\ accountArrived' \in Acct!Ids
        /\ overlapped \subseteq overlapped' /\ overlapped' \subseteq People \X Acct!Rows
        /\ \/ <<u, "settings">> \in overlapped'
           \/ \A s \in Reqs : ~(accountJob[s].op = "settings" /\ accountJob[s].user = u)
    BY <1>1, AcctBegins, AcctConstants DEF AcctInv
  <1>3. AcctTypes' /\ OnePlate'
    BY <1>2 DEF AcctInv, AcctTypes, OnePlate
  <1>4. SettingsLane'
    <2> SUFFICES ASSUME NEW v \in People, <<v, "settings">> \notin overlapped'
                 PROVE  Lonely("settings", v)' /\ SettingsHeld(v)'
      BY DEF SettingsLane
    <2>1. Lonely("settings", v) /\ SettingsHeld(v)
      BY <1>2 DEF AcctInv, SettingsLane
    <2>2. \A s \in Reqs : Editing(s, "settings", v)' =>
             \/ s = r /\ v = u
             \/ s # r /\ Editing(s, "settings", v) /\ accountJob'[s] = accountJob[s]
      BY <1>1, <1>2 DEF Editing
    <2>3. v = u => \A s \in Reqs : ~Editing(s, "settings", v)
      BY <1>2 DEF Editing
    <2>4. Lonely("settings", v)'
      BY <2>1, <2>2, <2>3 DEF Lonely
    <2>5. \A f \in Prefs : settings'[v][f] = chosen'[v][f]
      BY <1>2, <2>1 DEF SettingsHeld
    <2>6. ASSUME NEW s \in Reqs, Editing(s, "settings", v)'
          PROVE  \A f \in Prefs : accountJob'[s].copy[f] =
                    IF f \in accountJob'[s].sent THEN accountJob'[s].id ELSE settings'[v][f]
      <3>1. CASE s = r /\ v = u
        BY <1>1, <1>2, <3>1
      <3>2. CASE Editing(s, "settings", v) /\ accountJob'[s] = accountJob[s]
        BY <1>2, <2>1, <3>2 DEF SettingsHeld
      <3> QED
        BY <2>2, <2>6, <3>1, <3>2
    <2> QED
      BY <2>4, <2>5, <2>6 DEF SettingsHeld
  <1> QED
    BY <1>2, <1>3, <1>4, VehicleKept, ThereKept, DutyKept DEF AcctInv

LEMMA AcctToggles ==
  ASSUME AcctInv, NEW r \in Reqs, NEW u \in People, NEW on \in BOOLEAN,
         Acct!ToggleDriverOnline(r, u, on)
  PROVE  AcctInv'
  <1>1. vehicles[u] \in Cars
    BY DEF Acct!ToggleDriverOnline, AcctInv, AcctTypes
  <1>2. on => u \in approved
    BY Zenon DEF Acct!ToggleDriverOnline, Acct!MayToggle
  <1> DEFINE q == [op |-> "toggle", user |-> u, on |-> on]
  <1>3. Acct!Begin(r, q)
    BY Zenon DEF Acct!ToggleDriverOnline
  <1>4. q \in AcctJobs /\ q.user = u /\ q.op = "toggle"
    BY DEF AcctJobs, Toggling
  <1>5. q.on = on
    BY Zenon
  <1> HIDE DEF q
  <1>6. /\ accountJob' \in [Reqs -> AcctJobs] /\ accountJob'[r] = q
        /\ \A s \in Reqs : s # r => accountJob'[s] = accountJob[s]
        /\ Fewer("settings") /\ Fewer("vehicle")
        /\ UNCHANGED <<profiles, vehicles, settings, chosen, approved, onDuty, revoked>>
        /\ accountArrived' \in Acct!Ids
        /\ overlapped \subseteq overlapped' /\ overlapped' \subseteq People \X Acct!Rows
    BY <1>3, <1>4, AcctBegins DEF AcctInv
  <1>7. AcctTypes' /\ OnePlate'
    BY <1>6 DEF AcctInv, AcctTypes, OnePlate
  <1>8. RowThere'
    BY <1>1, <1>4, <1>6 DEF AcctInv, RowThere
  <1>9. DutyLane'
    <2> SUFFICES ASSUME NEW s \in Reqs, NEW v \in People, Acct!GoingOnline(s, v)'
                 PROVE  v \in approved \cup revoked
      BY <1>6 DEF AcctInv, DutyLane
    <2>1. CASE s = r
      <3>1. v = u /\ on
        BY <1>4, <1>5, <1>6, <2>1, Zenon DEF Acct!GoingOnline
      <3> QED
        BY <1>2, <3>1
    <2>2. CASE s # r
      <3>1. Acct!GoingOnline(s, v)
        BY <1>6, <2>2, Zenon DEF Acct!GoingOnline
      <3> QED
        BY <3>1 DEF AcctInv, DutyLane
    <2> QED
      BY <2>1, <2>2
  <1> QED
    BY <1>6, <1>7, <1>8, <1>9, SettingsKept, VehicleKept DEF AcctInv

(* Steps that end a request.                                                 *)
LEMMA AcctInsertsProfile ==
  ASSUME AcctInv, NEW r \in Reqs, Acct!InsertProfile(r)
  PROVE  AcctInv'
  <1>1. /\ Acct!End(r) /\ accountJob[r].op = "profile"
        /\ UNCHANGED <<vehicles, settings, chosen, overlapped, approved, onDuty, revoked, accountArrived>>
    BY DEF Acct!InsertProfile, Acct!standing
  <1>2. PICK u \in People : u = accountJob[r].user
    <2>1. accountJob[r] \in Profiling
      BY <1>1, AcctKinds DEF AcctInv, AcctTypes
    <2> QED
      BY <2>1 DEF Profiling
  <1>3. profiles' \in [People -> {0, 1}]
    <2>1. \/ profiles' = profiles
          \/ profiles[u] = 0 /\ profiles' = [profiles EXCEPT ![u] = profiles[u] + 1]
      BY <1>2 DEF Acct!InsertProfile, Acct!NoRow
    <2> QED
      BY <2>1 DEF AcctInv, AcctTypes
  <1>4. /\ accountJob' \in [Reqs -> AcctJobs]
        /\ Fewer("settings") /\ Fewer("vehicle") /\ Fewer("toggle")
    BY <1>1, AcctEnds DEF AcctInv
  <1>5. AcctTypes' /\ OnePlate'
    BY <1>1, <1>3, <1>4 DEF AcctInv, AcctTypes, OnePlate
  <1> QED
    BY <1>1, <1>4, <1>5, SettingsKept, VehicleKept, ThereKept, DutyKept DEF AcctInv

LEMMA AcctInsertsDriver ==
  ASSUME AcctInv, NEW r \in Reqs, Acct!InsertDriverProfile(r)
  PROVE  AcctInv'
  <1>1. /\ Acct!End(r) /\ accountJob[r].op = "driver"
        /\ UNCHANGED <<profiles, settings, overlapped, revoked, accountArrived>>
    BY DEF Acct!InsertDriverProfile
  <1>2. accountJob[r] \in Hiring
    BY <1>1, AcctKinds DEF AcctInv, AcctTypes
  <1>3. PICK u \in People, p \in Plates, i \in Acct!Ids :
           u = accountJob[r].user /\ p = accountJob[r].plate /\ i = accountJob[r].id
    BY <1>2 DEF Hiring
  <1>4. /\ accountJob' \in [Reqs -> AcctJobs]
        /\ Fewer("settings") /\ Fewer("vehicle") /\ Fewer("toggle")
    BY <1>1, AcctEnds DEF AcctInv
  <1>5. CASE UNCHANGED <<vehicles, approved, onDuty, chosen>>
    <2>1. AcctTypes' /\ OnePlate'
      BY <1>1, <1>4, <1>5 DEF AcctInv, AcctTypes, OnePlate
    <2> QED
      BY <1>1, <1>4, <1>5, <2>1, SettingsKept, VehicleKept, ThereKept, DutyKept DEF AcctInv
  <1>6. ASSUME vehicles[u] = Acct!NoVehicle, ~Acct!Taken(u, p), Acct!Chooses(u, {"colour"}, i),
               vehicles' = [vehicles EXCEPT ![u] = [plate |-> p, colour |-> i]],
               approved' = approved \ {u}, onDuty' = onDuty \ {u}
        PROVE  AcctInv'
    <2> DEFINE c == [plate |-> p, colour |-> i]
    <2>1. c \in Cars /\ c.plate = p /\ c.colour = i
      BY CarRow
    <2>2. vehicles' = [vehicles EXCEPT ![u] = c]
      BY <1>6, Zenon
    <2> HIDE DEF c
    <2>3. /\ vehicles' \in [People -> Cars \cup {Acct!NoVehicle}]
          /\ vehicles'[u] = c /\ \A v \in People : v # u => vehicles'[v] = vehicles[v]
      BY <2>1, <2>2 DEF AcctInv, AcctTypes
    <2>4. /\ chosen' \in [People -> [Acct!Fields -> Acct!Ids]]
          /\ \A v \in People : v # u => chosen'[v] = chosen[v]
          /\ \A f \in Acct!Fields : chosen'[u][f] = IF f \in {"colour"} THEN i ELSE chosen[u][f]
      BY <1>6, AcctChooses DEF AcctInv
    <2>5. AcctTypes'
      BY <1>1, <1>4, <1>6, <2>3, <2>4 DEF AcctInv, AcctTypes
    <2>6. OnePlate'
      <3>1. \A v \in People \ {u} : vehicles[v].plate # p
        BY <1>6 DEF Acct!Taken
      <3> QED
        BY <2>1, <2>3, <3>1 DEF AcctInv, OnePlate
    <2>7. SettingsLane'
      <3>1. \A v \in People : \A f \in Prefs : chosen'[v][f] = chosen[v][f]
        BY <2>4, AcctConstants
      <3> QED
        BY <1>1, <1>4, <3>1, SettingsKept DEF AcctInv
    <2>8. RowThere'
      <3>1. \A v \in People : vehicles[v] \in Cars => vehicles'[v] \in Cars
        BY <2>1, <2>3
      <3> QED
        BY <1>4, <3>1, ThereKept DEF AcctInv
    <2>9. VehicleLane'
      <3> SUFFICES ASSUME NEW v \in People, <<v, "vehicle">> \notin overlapped
                   PROVE  Lonely("vehicle", v)' /\ VehicleHeld(v)'
        BY <1>1 DEF VehicleLane
      <3>1. Lonely("vehicle", v) /\ VehicleHeld(v)
        BY DEF AcctInv, VehicleLane
      <3>2. Lonely("vehicle", v)'
        BY <1>4, <3>1, LonelyKept
      <3>3. CASE v = u
        <4>1. vehicles'[v].colour = chosen'[v]["colour"]
          BY <2>1, <2>3, <2>4, <3>3, AcctConstants
        <4>2. \A s \in Reqs : ~Editing(s, "vehicle", v)
          BY <1>6, <3>3, CarFields DEF AcctInv, RowThere, Editing
        <4>3. \A s \in Reqs : ~Editing(s, "vehicle", v)'
          BY <1>4, <4>2 DEF Editing, Fewer
        <4> QED
          BY <3>2, <4>1, <4>3 DEF VehicleHeld
      <3>4. CASE v # u
        <4>1. vehicles'[v] = vehicles[v] /\ chosen'[v] = chosen[v]
          BY <2>3, <2>4, <3>4
        <4>2. \A s \in Reqs : Editing(s, "vehicle", v)' =>
                 Editing(s, "vehicle", v) /\ accountJob'[s] = accountJob[s]
          BY <1>4 DEF Editing, Fewer
        <4> QED
          BY <3>1, <3>2, <4>1, <4>2 DEF VehicleHeld
      <3> QED
        BY <3>3, <3>4
    <2>10. DutyLane'
      <3>1. onDuty' \subseteq approved' \cup revoked'
        BY <1>1, <1>6 DEF AcctInv, DutyLane
      <3>2. ASSUME NEW s \in Reqs, NEW v \in People, Acct!GoingOnline(s, v)'
            PROVE  v \in approved' \cup revoked'
        <4>1. accountJob'[s] = accountJob[s]
          BY <1>4, <3>2, Zenon DEF Acct!GoingOnline, Fewer
        <4>2. Acct!GoingOnline(s, v)
          BY <3>2, <4>1, Zenon DEF Acct!GoingOnline
        <4>3. v # u
          <5>1. accountJob[s].op = "toggle" /\ accountJob[s].user = v
            BY <4>2, Zenon DEF Acct!GoingOnline
          <5> QED
            BY <1>6, <5>1, CarFields DEF AcctInv, RowThere
        <4> QED
          BY <1>1, <1>6, <4>2, <4>3 DEF AcctInv, DutyLane
      <3> QED
        BY <3>1, <3>2 DEF DutyLane
    <2> QED
      BY <2>5, <2>6, <2>7, <2>8, <2>9, <2>10 DEF AcctInv
  <1> QED
    BY <1>3, <1>5, <1>6 DEF Acct!InsertDriverProfile

LEMMA AcctSavesDriver ==
  ASSUME AcctInv, NEW r \in Reqs, Acct!SaveDriverProfile(r)
  PROVE  AcctInv'
  <1>1. /\ Acct!End(r) /\ accountJob[r].op = "vehicle"
        /\ UNCHANGED <<profiles, settings, overlapped, approved, onDuty, revoked, accountArrived>>
    BY DEF Acct!SaveDriverProfile, Acct!standing
  <1>2. accountJob[r] \in Repainting
    BY <1>1, AcctKinds DEF AcctInv, AcctTypes
  <1>3. PICK u \in People, p \in Plates, i \in Acct!Ids, fields \in SUBSET {"colour"} :
           /\ u = accountJob[r].user /\ p = accountJob[r].plate
           /\ i = accountJob[r].colour /\ fields = accountJob[r].sent
    BY <1>2 DEF Repainting
  <1>4. /\ accountJob' \in [Reqs -> AcctJobs]
        /\ Fewer("settings") /\ Fewer("vehicle") /\ Fewer("toggle")
        /\ \A s \in Reqs : accountJob'[s].op # "none" => s # r /\ accountJob'[s] = accountJob[s]
    BY <1>1, AcctEnds DEF AcctInv
  <1>5. CASE UNCHANGED <<vehicles, chosen>>
    <2>1. AcctTypes' /\ OnePlate'
      BY <1>1, <1>4, <1>5 DEF AcctInv, AcctTypes, OnePlate
    <2> QED
      BY <1>1, <1>4, <1>5, <2>1, SettingsKept, VehicleKept, ThereKept, DutyKept DEF AcctInv
  <1>6. ASSUME ~Acct!Taken(u, p), Acct!Chooses(u, fields, i),
               vehicles' = [vehicles EXCEPT ![u].plate = p, ![u].colour = i]
        PROVE  AcctInv'
    <2> DEFINE a == [vehicles[u] EXCEPT !.plate = p]
               c == [a EXCEPT !.colour = i]
               w == [vehicles EXCEPT ![u] = a]
    <2>1. vehicles[u] \in Cars /\ vehicles \in [People -> Cars \cup {Acct!NoVehicle}]
      BY <1>1, <1>3 DEF AcctInv, RowThere, AcctTypes
    <2>2. c \in Cars /\ c.plate = p /\ c.colour = i
      <3>1. a \in Cars /\ a.plate = p
        BY <2>1 DEF Cars
      <3> HIDE DEF a
      <3> QED
        BY <3>1 DEF Cars
    <2>3. w[u] = a
      BY <2>1
    <2>4. vehicles' = [w EXCEPT ![u] = [w[u] EXCEPT !.colour = i]]
      BY <1>6, Zenon
    <2>5. vehicles' = [w EXCEPT ![u] = c]
      BY <2>3, <2>4, Zenon
    <2> HIDE DEF a, c
    <2>6. /\ vehicles' \in [People -> Cars \cup {Acct!NoVehicle}]
          /\ vehicles'[u] = c /\ \A v \in People : v # u => vehicles'[v] = vehicles[v]
      BY <2>1, <2>2, <2>5
    <2> HIDE DEF w
    <2>7. /\ chosen' \in [People -> [Acct!Fields -> Acct!Ids]]
          /\ \A v \in People : v # u => chosen'[v] = chosen[v]
          /\ \A f \in Acct!Fields : chosen'[u][f] = IF f \in fields THEN i ELSE chosen[u][f]
      BY <1>6, AcctChooses DEF AcctInv
    <2>8. AcctTypes'
      BY <1>1, <1>4, <2>6, <2>7 DEF AcctInv, AcctTypes
    <2>9. OnePlate'
      <3>1. \A v \in People \ {u} : vehicles[v].plate # p
        BY <1>6 DEF Acct!Taken
      <3> QED
        BY <2>2, <2>6, <3>1 DEF AcctInv, OnePlate
    <2>10. SettingsLane'
      <3>1. \A v \in People : \A f \in Prefs : chosen'[v][f] = chosen[v][f]
        BY <2>7, AcctConstants
      <3> QED
        BY <1>1, <1>4, <3>1, SettingsKept DEF AcctInv
    <2>11. RowThere'
      <3>1. \A v \in People : vehicles[v] \in Cars => vehicles'[v] \in Cars
        BY <2>2, <2>6
      <3> QED
        BY <1>4, <3>1, ThereKept DEF AcctInv
    <2>12. VehicleLane'
      <3> SUFFICES ASSUME NEW v \in People, <<v, "vehicle">> \notin overlapped
                   PROVE  Lonely("vehicle", v)' /\ VehicleHeld(v)'
        BY <1>1 DEF VehicleLane
      <3>1. Lonely("vehicle", v) /\ VehicleHeld(v)
        BY DEF AcctInv, VehicleLane
      <3>2. Lonely("vehicle", v)'
        BY <1>4, <3>1, LonelyKept
      <3>3. CASE v = u
        <4>1. "colour" \in fields \/ i = chosen[u]["colour"]
          BY <1>1, <1>3, <3>1, <3>3 DEF VehicleHeld, Editing
        <4>2. vehicles'[v].colour = chosen'[v]["colour"]
          BY <2>2, <2>6, <2>7, <3>3, <4>1, AcctConstants
        <4>3. \A s \in Reqs : Editing(s, "vehicle", u) => s = r
          BY <1>1, <1>3, <3>1, <3>3 DEF Editing, Lonely
        <4>4. \A s \in Reqs : ~Editing(s, "vehicle", v)'
          BY <1>4, <3>3, <4>3 DEF Editing
        <4> QED
          BY <3>2, <4>2, <4>4 DEF VehicleHeld
      <3>4. CASE v # u
        <4>1. vehicles'[v] = vehicles[v] /\ chosen'[v] = chosen[v]
          BY <2>6, <2>7, <3>4
        <4>2. \A s \in Reqs : Editing(s, "vehicle", v)' =>
                 Editing(s, "vehicle", v) /\ accountJob'[s] = accountJob[s]
          BY <1>4 DEF Editing, Fewer
        <4> QED
          BY <3>1, <3>2, <4>1, <4>2 DEF VehicleHeld
      <3> QED
        BY <3>3, <3>4
    <2> QED
      BY <1>1, <1>4, <2>8, <2>9, <2>10, <2>11, <2>12, DutyKept DEF AcctInv
  <1> QED
    BY <1>3, <1>5, <1>6 DEF Acct!SaveDriverProfile

LEMMA AcctSavesSettings ==
  ASSUME AcctInv, NEW r \in Reqs, Acct!SaveSettings(r)
  PROVE  AcctInv'
  <1>1. /\ Acct!End(r) /\ accountJob[r].op = "settings"
        /\ UNCHANGED <<profiles, vehicles, overlapped, approved, onDuty, revoked, accountArrived>>
    BY DEF Acct!SaveSettings, Acct!standing
  <1>2. accountJob[r] \in Choosing
    BY <1>1, AcctKinds DEF AcctInv, AcctTypes
  <1>3. PICK u \in People, i \in Acct!Ids, fields \in SUBSET Prefs, copy \in [Prefs -> Acct!Ids] :
           /\ u = accountJob[r].user /\ i = accountJob[r].id
           /\ fields = accountJob[r].sent /\ copy = accountJob[r].copy
    BY <1>2 DEF Choosing
  <1>4. /\ accountJob' \in [Reqs -> AcctJobs]
        /\ Fewer("settings") /\ Fewer("vehicle") /\ Fewer("toggle")
        /\ \A s \in Reqs : accountJob'[s].op # "none" => s # r /\ accountJob'[s] = accountJob[s]
    BY <1>1, AcctEnds DEF AcctInv
  <1>5. settings' = [settings EXCEPT ![u] = copy] /\ Acct!Chooses(u, fields, i)
    BY <1>3 DEF Acct!SaveSettings
  <1>6. /\ settings' \in [People -> [Prefs -> Acct!Ids]]
        /\ settings'[u] = copy /\ \A v \in People : v # u => settings'[v] = settings[v]
    BY <1>5 DEF AcctInv, AcctTypes
  <1>7. /\ chosen' \in [People -> [Acct!Fields -> Acct!Ids]]
        /\ \A v \in People : v # u => chosen'[v] = chosen[v]
        /\ \A f \in Acct!Fields : chosen'[u][f] = IF f \in fields THEN i ELSE chosen[u][f]
    BY <1>5, AcctChooses DEF AcctInv
  <1>8. AcctTypes' /\ OnePlate'
    BY <1>1, <1>4, <1>6, <1>7 DEF AcctInv, AcctTypes, OnePlate
  <1>9. VehicleLane'
    <2>1. \A v \in People : chosen'[v]["colour"] = chosen[v]["colour"]
      BY <1>7, AcctConstants
    <2> QED
      BY <1>1, <1>4, <2>1, VehicleKept DEF AcctInv
  <1>10. SettingsLane'
    <2> SUFFICES ASSUME NEW v \in People, <<v, "settings">> \notin overlapped
                 PROVE  Lonely("settings", v)' /\ SettingsHeld(v)'
      BY <1>1 DEF SettingsLane
    <2>1. Lonely("settings", v) /\ SettingsHeld(v)
      BY DEF AcctInv, SettingsLane
    <2>2. Lonely("settings", v)'
      BY <1>4, <2>1, LonelyKept
    <2>3. CASE v = u
      <3>1. \A f \in Prefs : copy[f] = IF f \in fields THEN i ELSE settings[u][f]
        BY <1>1, <1>3, <2>1, <2>3 DEF SettingsHeld, Editing
      <3>2. \A f \in Prefs : settings[u][f] = chosen[u][f]
        BY <2>1, <2>3 DEF SettingsHeld
      <3>3. \A f \in Prefs : settings'[v][f] = chosen'[v][f]
        BY <1>6, <1>7, <2>3, <3>1, <3>2, AcctConstants
      <3>4. \A s \in Reqs : Editing(s, "settings", u) => s = r
        BY <1>1, <1>3, <2>1, <2>3 DEF Editing, Lonely
      <3>5. \A s \in Reqs : ~Editing(s, "settings", v)'
        BY <1>4, <2>3, <3>4 DEF Editing
      <3> QED
        BY <2>2, <3>3, <3>5 DEF SettingsHeld
    <2>4. CASE v # u
      <3>1. settings'[v] = settings[v] /\ chosen'[v] = chosen[v]
        BY <1>6, <1>7, <2>4
      <3>2. \A s \in Reqs : Editing(s, "settings", v)' =>
               Editing(s, "settings", v) /\ accountJob'[s] = accountJob[s]
        BY <1>4 DEF Editing, Fewer
      <3>3. \A f \in Prefs : settings'[v][f] = chosen'[v][f]
        BY <2>1, <3>1 DEF SettingsHeld
      <3>4. ASSUME NEW s \in Reqs, Editing(s, "settings", v)'
            PROVE  \A f \in Prefs : accountJob'[s].copy[f] =
                      IF f \in accountJob'[s].sent THEN accountJob'[s].id ELSE settings'[v][f]
        BY <2>1, <3>1, <3>2, <3>4 DEF SettingsHeld
      <3> QED
        BY <2>2, <3>3, <3>4 DEF SettingsHeld
    <2> QED
      BY <2>3, <2>4
  <1>11. RowThere'
    BY <1>1, <1>4, ThereKept DEF AcctInv
  <1> QED
    BY <1>1, <1>4, <1>8, <1>9, <1>10, <1>11, DutyKept DEF AcctInv

LEMMA AcctSavesOnline ==
  ASSUME AcctInv, NEW r \in Reqs, Acct!SaveOnline(r)
  PROVE  AcctInv'
  <1>1. /\ Acct!End(r) /\ accountJob[r].op = "toggle"
        /\ UNCHANGED <<profiles, vehicles, settings, chosen, overlapped, approved, accountArrived>>
    BY DEF Acct!SaveOnline
  <1>2. PICK u \in People : u = accountJob[r].user
    <2>1. accountJob[r] \in Toggling
      BY <1>1, AcctKinds DEF AcctInv, AcctTypes
    <2> QED
      BY <2>1 DEF Toggling
  <1>3. /\ accountJob' \in [Reqs -> AcctJobs]
        /\ Fewer("settings") /\ Fewer("vehicle") /\ Fewer("toggle")
        /\ \A s \in Reqs : accountJob'[s].op # "none" => s # r /\ accountJob'[s] = accountJob[s]
    BY <1>1, AcctEnds DEF AcctInv
  <1>4. \A s \in Reqs : \A v \in People :
           Acct!GoingOnline(s, v)' => s # r /\ Acct!GoingOnline(s, v)
    <2> SUFFICES ASSUME NEW s \in Reqs, NEW v \in People, Acct!GoingOnline(s, v)'
                 PROVE  s # r /\ Acct!GoingOnline(s, v)
      OBVIOUS
    <2>1. accountJob'[s].op # "none"
      BY DEF Acct!GoingOnline
    <2>2. s # r /\ accountJob'[s] = accountJob[s]
      BY <1>3, <2>1
    <2> QED
      BY <2>2, Zenon DEF Acct!GoingOnline
  <1>5. CASE accountJob[r].on
    <2>1. onDuty' = onDuty \cup {u} /\ revoked' = revoked
      BY <1>2, <1>5, Zenon DEF Acct!SaveOnline
    <2>2. Acct!GoingOnline(r, u)
      BY <1>1, <1>2, <1>5, Zenon DEF Acct!GoingOnline
    <2>3. AcctTypes' /\ OnePlate'
      BY <1>1, <1>3, <2>1 DEF AcctInv, AcctTypes, OnePlate
    <2>4. DutyLane'
      BY <1>1, <1>4, <2>1, <2>2 DEF AcctInv, DutyLane
    <2> QED
      BY <1>1, <1>3, <2>3, <2>4, SettingsKept, VehicleKept, ThereKept DEF AcctInv
  <1>6. CASE ~accountJob[r].on
    <2>1. onDuty' = onDuty \ {u}
      BY <1>2, <1>6, Zenon DEF Acct!SaveOnline
    <2>2. \/ revoked' = revoked
          \/ /\ revoked' = revoked \ {u}
             /\ \A s \in Reqs \ {r} : ~Acct!GoingOnline(s, u)
      BY <1>2, <1>6, Zenon DEF Acct!SaveOnline
    <2>3. AcctTypes' /\ OnePlate'
      BY <1>1, <1>3, <2>1, <2>2 DEF AcctInv, AcctTypes, OnePlate
    <2>4. DutyLane'
      <3>1. CASE revoked' = revoked
        BY <1>1, <1>4, <2>1, <3>1 DEF AcctInv, DutyLane
      <3>2. CASE /\ revoked' = revoked \ {u}
                 /\ \A s \in Reqs \ {r} : ~Acct!GoingOnline(s, u)
        <4>1. \A s \in Reqs : \A v \in People :
                 Acct!GoingOnline(s, v)' => v # u /\ Acct!GoingOnline(s, v)
          BY <1>4, <3>2
        <4> QED
          BY <1>1, <2>1, <3>2, <4>1 DEF AcctInv, DutyLane
      <3> QED
        BY <2>2, <3>1, <3>2
    <2> QED
      BY <1>1, <1>3, <2>3, <2>4, SettingsKept, VehicleKept, ThereKept DEF AcctInv
  <1> QED
    BY <1>5, <1>6

LEMMA AcctFails ==
  ASSUME AcctInv, NEW r \in Reqs, Acct!Fail(r)
  PROVE  AcctInv'
  <1>1. /\ Acct!End(r)
        /\ UNCHANGED <<profiles, vehicles, settings, chosen, overlapped, approved, onDuty, revoked,
                       accountArrived>>
    BY DEF Acct!Fail, Acct!Stored, Acct!standing
  <1>2. /\ accountJob' \in [Reqs -> AcctJobs]
        /\ Fewer("settings") /\ Fewer("vehicle") /\ Fewer("toggle")
    BY <1>1, AcctEnds DEF AcctInv
  <1>3. AcctTypes' /\ OnePlate'
    BY <1>1, <1>2 DEF AcctInv, AcctTypes, OnePlate
  <1> QED
    BY <1>1, <1>2, <1>3, SettingsKept, VehicleKept, ThereKept, DutyKept DEF AcctInv

LEMMA AcctVerifies ==
  ASSUME AcctInv, NEW u \in People, Acct!SetVerification(u)
  PROVE  AcctInv'
  <1>1. UNCHANGED <<profiles, vehicles, settings, onDuty, chosen, overlapped, accountJob, accountArrived>>
    BY DEF Acct!SetVerification
  <1>2. \/ approved' = approved \cup {u} /\ revoked' = revoked \ {u}
        \/ /\ approved' = approved \ {u} /\ revoked' = revoked \cup {u}
        \/ /\ approved' = approved \ {u} /\ revoked' = revoked
           /\ u \notin onDuty /\ \A r \in Reqs : ~Acct!GoingOnline(r, u)
    BY Zenon DEF Acct!SetVerification
  <1>3. Fewer("settings") /\ Fewer("vehicle") /\ Fewer("toggle")
    BY <1>1 DEF Fewer
  <1>4. AcctTypes' /\ OnePlate'
    BY <1>1, <1>2 DEF AcctInv, AcctTypes, OnePlate
  <1>5. \A r \in Reqs : \A v \in People : Acct!GoingOnline(r, v)' = Acct!GoingOnline(r, v)
    BY <1>1 DEF Acct!GoingOnline
  <1>6. DutyLane'
    BY <1>1, <1>2, <1>5 DEF AcctInv, DutyLane
  <1> QED
    BY <1>1, <1>3, <1>4, <1>6, SettingsKept, VehicleKept, ThereKept DEF AcctInv

LEMMA AcctStep == AcctInv /\ [Acct!Next]_account => AcctInv'
  <1> SUFFICES ASSUME AcctInv, [Acct!Next]_account PROVE AcctInv'
    OBVIOUS
  <1>1. CASE UNCHANGED account
    <2>1. UNCHANGED <<profiles, vehicles, settings, chosen, overlapped, approved, onDuty, revoked,
                    accountJob, accountArrived>>
      BY <1>1 DEF account
    <2>2. Fewer("settings") /\ Fewer("vehicle") /\ Fewer("toggle")
      BY <2>1 DEF Fewer
    <2>3. AcctTypes' /\ OnePlate'
      BY <2>1 DEF AcctInv, AcctTypes, OnePlate
    <2> QED
      BY <2>1, <2>2, <2>3, SettingsKept, VehicleKept, ThereKept, DutyKept DEF AcctInv
  <1>2. ASSUME NEW r \in Reqs, NEW u \in People, Acct!Requests(r, u)
        PROVE  AcctInv'
    BY <1>2, AcctCreates, AcctEdits, AcctSettings, AcctToggles DEF Acct!Requests
  <1> QED
    BY <1>1, <1>2, AcctInsertsProfile, AcctInsertsDriver, AcctSavesDriver, AcctSavesSettings,
       AcctSavesOnline, AcctFails, AcctVerifies DEF Acct!Next

LEMMA AcctInit == Init => AcctInv
  <1> SUFFICES ASSUME Acct!Init PROVE AcctInv
    BY DEF Init
  <1>1. /\ profiles = [u \in People |-> 0] /\ vehicles = [u \in People |-> Acct!NoVehicle]
        /\ settings = [u \in People |-> [f \in Prefs |-> 0]]
        /\ chosen = [u \in People |-> [f \in Acct!Fields |-> 0]] /\ overlapped = {}
        /\ approved = {} /\ onDuty = {} /\ revoked = {}
        /\ accountJob = [r \in Reqs |-> Acct!Idle] /\ accountArrived = 0
    BY DEF Acct!Init
  <1>2. Acct!NoVehicle \notin Cars /\ Acct!NoVehicle.colour = 0
    <2>1. Acct!NoVehicle.colour = 0
      BY DEF Acct!NoVehicle
    <2> QED
      BY <2>1, CarFields
  <1>3. AcctTypes
    BY <1>1, AcctIdle, AcctConstants DEF AcctTypes
  <1>4. OnePlate /\ RowThere
    BY <1>1, <1>2, AcctIdle DEF OnePlate, RowThere
  <1>5. \A u \in People : Lonely("settings", u) /\ Lonely("vehicle", u)
    BY <1>1, AcctIdle DEF Lonely, Editing
  <1>6. \A u \in People : SettingsHeld(u) /\ VehicleHeld(u)
    BY <1>1, <1>2, AcctIdle, AcctConstants DEF SettingsHeld, VehicleHeld, Editing
  <1>7. DutyLane
    BY <1>1, AcctIdle DEF DutyLane, Acct!GoingOnline
  <1> QED
    BY <1>3, <1>4, <1>5, <1>6, <1>7 DEF AcctInv, SettingsLane, VehicleLane

LEMMA AcctImplied == AcctInv => Acct!AccountSafe
  <1> SUFFICES ASSUME AcctInv PROVE Acct!AccountSafe
    OBVIOUS
  <1>1. \A u \in People : vehicles[u] \in Cars \/ vehicles[u] = Acct!NoVehicle
    BY DEF AcctInv, AcctTypes
  <1>2. Acct!OnlineVerified
    BY DEF AcctInv, DutyLane, Acct!OnlineVerified
  <1>3. Acct!TypeOK
    <2>1. \A u \in People : vehicles[u] \in [plate : Plates \cup {None}, colour : Acct!Ids]
      <3>1. Acct!NoVehicle \in [plate : Plates \cup {None}, colour : Acct!Ids]
        BY AcctConstants DEF Acct!NoVehicle
      <3> QED
        BY <1>1, <3>1 DEF Cars
    <2>2. \A r \in Reqs : accountJob[r].op \in {"none", "profile", "driver", "vehicle", "toggle",
                                                "settings"}
      BY AcctKinds DEF AcctInv, AcctTypes
    <2> QED
      BY <2>1, <2>2 DEF AcctInv, AcctTypes, Acct!TypeOK
  <1>4. Acct!OneRow
    BY <1>1 DEF AcctInv, AcctTypes, OnePlate, Acct!OneRow
  <1>5. Acct!EditsKept
    BY DEF AcctInv, SettingsLane, VehicleLane, SettingsHeld, VehicleHeld, Acct!EditsKept
  <1> QED
    BY <1>2, <1>3, <1>4, <1>5 DEF Acct!AccountSafe

-----------------------------------------------------------------------------
(* matching-service, the priority mode *)

ModeJobs == [op : Mode!Ops, target : Targets \cup {0}, day : Mode!Dates, seen : BOOLEAN]

(* No earnings lie in a day to come.                                         *)
ModeTypes ==
    /\ target \in Targets \cup {0} /\ wanted \in Targets \cup {0} /\ day \in Mode!Dates
    /\ earnings \in [Mode!Dates -> Nat]
    /\ \A d \in Mode!Dates : d > day => earnings[d] = 0
    /\ modeJob \in [Reqs -> ModeJobs] /\ \A r \in Reqs : modeJob[r].day <= day
ModeSwitches == /\ online \in BOOLEAN /\ overtaken \in BOOLEAN
                /\ spared \in BOOLEAN /\ leftover \in BOOLEAN

(* The end of a trip that will find the target as it is.                     *)
Watches(r) == \/ modeJob[r].op \in {"read", "delete"}
              \/ /\ modeJob[r].op = "compare"
                 /\ modeJob[r].target = target /\ modeJob[r].day = day
EndsLane == Mode!Reached(target, day) /\ ~spared => \E r \in Reqs : Watches(r)

(* The end of a trip holds the target last set, unless it was overtaken.     *)
KeptLane ==
    /\ target \in {0, wanted} /\ Mode!PriorityKept
    /\ \A r \in Reqs : modeJob[r].op = "delete" =>
          Mode!Reached(modeJob[r].target, modeJob[r].day)
    /\ wanted # 0 /\ ~overtaken =>
          \A r \in Reqs : Mode!Holding(r) => modeJob[r].target = wanted

ModeInv == ModeTypes /\ ModeSwitches /\ EndsLane /\ KeptLane /\ Mode!ShiftStartsNormal

LEMMA ModeConstants ==
  /\ MaxDay \in Nat /\ 1 \in Mode!Dates /\ \A d \in Mode!Dates : d \in Nat /\ 1 <= d
  /\ \A t \in Targets \cup {0} : t \in Nat
  BY ServicesAssumption DEF Mode!Dates

LEMMA ModeGoes ==
  ASSUME ModeTypes, NEW r \in Reqs, NEW j \in ModeJobs, modeJob' = [modeJob EXCEPT ![r] = j]
  PROVE  /\ modeJob' \in [Reqs -> ModeJobs] /\ modeJob'[r] = j
         /\ \A s \in Reqs : s # r => modeJob'[s] = modeJob[s]
  BY DEF ModeTypes

LEMMA ModeIdle == Mode!Idle \in ModeJobs /\ Mode!Idle.op = "none" /\ Mode!Idle.day = 1
                  /\ Mode!Idle.target = 0
  <1>1. ASSUME NEW b \in BOOLEAN
        PROVE  [op |-> "none", target |-> 0, day |-> 1, seen |-> b] \in ModeJobs
    BY ModeConstants DEF ModeJobs, Mode!Ops
  <1>2. FALSE \in BOOLEAN
    BY Zenon
  <1>3. Mode!Idle \in ModeJobs
    BY <1>1, <1>2, Zenon DEF Mode!Idle
  <1> QED
    BY <1>3 DEF Mode!Idle

LEMMA ModeOp ==
  ASSUME NEW q \in ModeJobs, NEW op \in Mode!Ops
  PROVE  /\ [q EXCEPT !.op = op] \in ModeJobs /\ [q EXCEPT !.op = op].op = op
         /\ [q EXCEPT !.op = op].target = q.target /\ [q EXCEPT !.op = op].day = q.day
  BY DEF ModeJobs

LEMMA ModeTarget ==
  ASSUME NEW q \in ModeJobs, NEW t \in Targets \cup {0}
  PROVE  /\ [q EXCEPT !.target = t] \in ModeJobs /\ [q EXCEPT !.target = t].op = q.op
         /\ [q EXCEPT !.target = t].target = t /\ [q EXCEPT !.target = t].day = q.day
  BY DEF ModeJobs

LEMMA ModeDay ==
  ASSUME NEW q \in ModeJobs, NEW d \in Mode!Dates
  PROVE  /\ [q EXCEPT !.day = d] \in ModeJobs /\ [q EXCEPT !.day = d].op = q.op
         /\ [q EXCEPT !.day = d].target = q.target /\ [q EXCEPT !.day = d].day = d
  BY DEF ModeJobs

LEMMA ModeSeen ==
  ASSUME NEW q \in ModeJobs, NEW b \in BOOLEAN
  PROVE  /\ [q EXCEPT !.seen = b] \in ModeJobs /\ [q EXCEPT !.seen = b].op = q.op
         /\ [q EXCEPT !.seen = b].target = q.target /\ [q EXCEPT !.seen = b].day = q.day
  BY DEF ModeJobs

(* The next command of a handler, or its end.                                *)
LEMMA ModeNext ==
  ASSUME ModeTypes, NEW r \in Reqs, NEW op \in Mode!Ops, Mode!Goes(r, op)
  PROVE  \E j \in ModeJobs : /\ modeJob' = [modeJob EXCEPT ![r] = j] /\ j.op = op
                             /\ j.day <= day
                             /\ op # "none" => /\ j.target = modeJob[r].target
                                               /\ j.day = modeJob[r].day
  <1>1. modeJob[r] \in ModeJobs /\ modeJob[r].day <= day /\ 1 <= day
    BY ModeConstants DEF ModeTypes
  <1>2. CASE op = "none"
    <2>1. modeJob' = [modeJob EXCEPT ![r] = Mode!Idle]
      BY <1>2 DEF Mode!Goes
    <2> QED
      BY <1>1, <1>2, <2>1, ModeIdle
  <1>3. CASE op # "none"
    <2>1. modeJob' = [modeJob EXCEPT ![r] = [modeJob[r] EXCEPT !.op = op]]
      BY <1>3 DEF Mode!Goes
    <2> QED
      BY <1>1, <1>3, <2>1, ModeOp
  <1> QED
    BY <1>2, <1>3

(* The end of a trip goes on with the date of today, and the target read.    *)
LEMMA ModeDated ==
  ASSUME ModeTypes, NEW r \in Reqs,
         modeJob' = [modeJob EXCEPT ![r].op = "earn", ![r].day = day]
  PROVE  \E j \in ModeJobs : /\ modeJob' = [modeJob EXCEPT ![r] = j] /\ j.op = "earn"
                             /\ j.day = day
  <1> DEFINE a == [modeJob[r] EXCEPT !.op = "earn"]
             c == [a EXCEPT !.day = day]
  <1>1. /\ modeJob \in [Reqs -> ModeJobs] /\ modeJob[r] \in ModeJobs /\ day \in Mode!Dates
        /\ "earn" \in Mode!Ops
    BY DEF ModeTypes, Mode!Ops
  <1>2. a \in ModeJobs /\ a.op = "earn"
    BY <1>1, ModeOp
  <1>3. c \in ModeJobs /\ c.op = "earn" /\ c.day = day
    BY <1>1, <1>2, ModeDay
  <1>4. modeJob' = [[modeJob EXCEPT ![r] = a] EXCEPT ![r] = [[modeJob EXCEPT ![r] = a][r] EXCEPT !.day = day]]
    OBVIOUS
  <1>5. [modeJob EXCEPT ![r] = a][r] = a
    BY <1>1
  <1>6. modeJob' = [[modeJob EXCEPT ![r] = a] EXCEPT ![r] = c]
    BY <1>4, <1>5, Zenon
  <1> HIDE DEF a, c
  <1>7. modeJob' = [modeJob EXCEPT ![r] = c]
    BY <1>1, <1>6
  <1> QED
    BY <1>3, <1>7

LEMMA ModeCompares ==
  ASSUME ModeTypes, NEW r \in Reqs,
         modeJob' = [modeJob EXCEPT ![r].op = "compare", ![r].target = target, ![r].day = day]
  PROVE  \E j \in ModeJobs : /\ modeJob' = [modeJob EXCEPT ![r] = j] /\ j.op = "compare"
                             /\ j.day = day /\ j.target = target
  <1> DEFINE a == [modeJob[r] EXCEPT !.op = "compare"]
             b == [a EXCEPT !.target = target]
             d == [b EXCEPT !.day = day]
             x == [modeJob EXCEPT ![r] = a]
             y == [x EXCEPT ![r] = b]
  <1>1. /\ modeJob \in [Reqs -> ModeJobs] /\ modeJob[r] \in ModeJobs /\ day \in Mode!Dates
        /\ target \in Targets \cup {0} /\ "compare" \in Mode!Ops
    BY DEF ModeTypes, Mode!Ops
  <1>2. a \in ModeJobs /\ a.op = "compare"
    BY <1>1, ModeOp
  <1>3. b \in ModeJobs /\ b.op = "compare" /\ b.target = target
    BY <1>1, <1>2, ModeTarget
  <1>4. d \in ModeJobs /\ d.op = "compare" /\ d.target = target /\ d.day = day
    BY <1>1, <1>3, ModeDay
  <1>5. x[r] = a /\ x \in [Reqs -> ModeJobs]
    BY <1>1, <1>2
  <1>6. y[r] = b
    BY <1>3, <1>5
  <1>7. modeJob' = [[x EXCEPT ![r] = [x[r] EXCEPT !.target = target]]
                       EXCEPT ![r] = [[x EXCEPT ![r] = [x[r] EXCEPT !.target = target]][r]
                                         EXCEPT !.day = day]]
    BY Zenon
  <1>8. modeJob' = [y EXCEPT ![r] = [y[r] EXCEPT !.day = day]]
    BY <1>5, <1>7, Zenon
  <1>9. modeJob' = [y EXCEPT ![r] = d]
    BY <1>6, <1>8, Zenon
  <1> HIDE DEF a, b, d
  <1>10. modeJob' = [modeJob EXCEPT ![r] = d]
    BY <1>1, <1>9
  <1> QED
    BY <1>4, <1>10

LEMMA ModeTypesKept ==
  ASSUME ModeTypes, NEW r \in Reqs, NEW j \in ModeJobs, modeJob' = [modeJob EXCEPT ![r] = j],
         j.day <= day, day' = day, earnings' = earnings,
         target' \in Targets \cup {0}, wanted' \in Targets \cup {0}
  PROVE  ModeTypes'
  BY ModeGoes DEF ModeTypes

(* What a step that leaves the keys of a lane alone keeps.                   *)
LEMMA EndsKept ==
  ASSUME EndsLane, UNCHANGED <<target, day, earnings>>, spared => spared',
         \/ spared'
         \/ \A r \in Reqs : Watches(r) => Watches(r)'
  PROVE  EndsLane'
  BY DEF EndsLane, Mode!Reached

LEMMA KeptKept ==
  ASSUME KeptLane, UNCHANGED <<target, wanted, overtaken, earnings>>,
         \A r \in Reqs : Mode!Holding(r)' => modeJob'[r] = modeJob[r]
  PROVE  KeptLane'
  BY DEF KeptLane, Mode!PriorityKept, Mode!Reached, Mode!Holding

LEMMA ShiftKept ==
  ASSUME Mode!ShiftStartsNormal, target' = target, online => online',
         leftover => leftover',
         \A r \in Reqs : modeJob[r].op = "normal" => modeJob'[r].op = "normal"
  PROVE  Mode!ShiftStartsNormal'
  BY DEF Mode!ShiftStartsNormal

LEMMA ModeBegins ==
  ASSUME ModeInv, NEW r \in Reqs, NEW j \in ModeJobs, j.day = 1,
         j.op \in {"offline", "refresh", "locate", "mode", "free"}, Mode!Begin(r, j)
  PROVE  ModeInv'
  <1>1. /\ modeJob[r] = Mode!Idle /\ modeJob' = [modeJob EXCEPT ![r] = j]
        /\ UNCHANGED <<online, target, earnings, day, wanted, overtaken, spared, leftover>>
    BY DEF Mode!Begin, Mode!RedisKeys, Mode!Hist
  <1>2. /\ modeJob' \in [Reqs -> ModeJobs] /\ modeJob'[r] = j
        /\ \A s \in Reqs : s # r => modeJob'[s] = modeJob[s]
        /\ modeJob[r].op = "none" /\ j.day <= day
    BY <1>1, ModeGoes, ModeIdle, ModeConstants DEF ModeInv, ModeTypes
  <1>3. ModeTypes'
    BY <1>1, <1>2, ModeTypesKept DEF ModeInv, ModeTypes
  <1>4. ModeSwitches'
    BY <1>1 DEF ModeInv, ModeSwitches
  <1>5. EndsLane'
    <2>1. \A s \in Reqs : Watches(s) => Watches(s)'
      BY <1>1, <1>2 DEF Watches
    <2> QED
      BY <1>1, <2>1, EndsKept DEF ModeInv
  <1>6. KeptLane'
    <2>1. \A s \in Reqs : Mode!Holding(s)' => modeJob'[s] = modeJob[s]
      BY <1>2 DEF Mode!Holding
    <2> QED
      BY <1>1, <2>1, KeptKept DEF ModeInv
  <1>7. Mode!ShiftStartsNormal'
    BY <1>1, <1>2, ShiftKept DEF ModeInv
  <1> QED
    BY <1>3, <1>4, <1>5, <1>6, <1>7 DEF ModeInv

LEMMA ModeArrivals ==
  ASSUME ModeInv, NEW r \in Reqs,
         \/ Mode!GoOffline(r) \/ Mode!Heartbeat(r) \/ Mode!UpdateLocation(r)
         \/ Mode!FreeDriver(r) \/ \E t \in Targets \cup {0} : Mode!SetMode(r, t)
  PROVE  ModeInv'
  <1>1. ASSUME NEW op \in {"offline", "refresh", "locate", "mode", "free"}
        PROVE  LET j == [Mode!Idle EXCEPT !.op = op] IN j \in ModeJobs /\ j.op = op /\ j.day = 1
    <2>1. op \in Mode!Ops
      BY DEF Mode!Ops
    <2> QED
      BY <2>1, ModeIdle, ModeOp
  <1>2. CASE Mode!GoOffline(r)
    BY <1>1, <1>2, ModeBegins DEF Mode!GoOffline
  <1>3. CASE Mode!Heartbeat(r)
    BY <1>1, <1>3, ModeBegins DEF Mode!Heartbeat
  <1>4. CASE Mode!UpdateLocation(r)
    BY <1>1, <1>4, ModeBegins DEF Mode!UpdateLocation
  <1>5. CASE Mode!FreeDriver(r)
    <2> DEFINE i == [Mode!Idle EXCEPT !.op = "free"]
               j == [i EXCEPT !.seen = online]
    <2>1. i \in ModeJobs /\ i.op = "free" /\ i.day = 1
      BY <1>1
    <2>2. j \in ModeJobs /\ j.op = "free" /\ j.day = 1
      BY <2>1, ModeSeen DEF ModeInv, ModeSwitches
    <2>3. Mode!Begin(r, j)
      BY <1>5, Zenon DEF Mode!FreeDriver
    <2> QED
      BY <2>2, <2>3, ModeBegins
  <1>6. ASSUME NEW t \in Targets \cup {0}, Mode!SetMode(r, t)
        PROVE  ModeInv'
    <2> DEFINE i == [Mode!Idle EXCEPT !.op = "mode"]
               j == [i EXCEPT !.target = t]
    <2>1. i \in ModeJobs /\ i.op = "mode" /\ i.day = 1
      BY <1>1
    <2>2. j \in ModeJobs /\ j.op = "mode" /\ j.day = 1
      BY <2>1, ModeTarget
    <2>3. Mode!Begin(r, j)
      BY <1>6, Zenon DEF Mode!SetMode
    <2> QED
      BY <2>2, <2>3, ModeBegins
  <1> QED
    BY <1>2, <1>3, <1>4, <1>5, <1>6

(* Commands on the status key.                                               *)
LEMMA ModeStatus ==
  ASSUME ModeInv, NEW r \in Reqs,
         \/ Mode!DeleteDriverStatus(r) \/ Mode!RefreshDriverStatusTTL(r)
         \/ Mode!UpdateDriverLocation(r) \/ Mode!SetDriverStatus(r)
  PROVE  ModeInv'
  <1>1. UNCHANGED <<target, earnings, day, wanted, overtaken, spared, leftover>>
    BY DEF Mode!DeleteDriverStatus, Mode!RefreshDriverStatusTTL, Mode!UpdateDriverLocation,
           Mode!SetDriverStatus, Mode!RedisKeys, Mode!Hist
  <1>2. /\ modeJob[r].op \in {"offline", "refresh", "locate", "free"}
        /\ modeJob[r].op # "offline" => (online => online')
        /\ modeJob[r].op = "offline" => online' = FALSE
        /\ online' \in BOOLEAN
    <2>1. CASE Mode!DeleteDriverStatus(r)
      BY <2>1, Zenon DEF Mode!DeleteDriverStatus
    <2>2. CASE Mode!RefreshDriverStatusTTL(r)
      BY <2>2, Zenon DEF Mode!RefreshDriverStatusTTL, Mode!RedisKeys, ModeInv, ModeSwitches
    <2>3. CASE Mode!UpdateDriverLocation(r)
      BY <2>3, Zenon DEF Mode!UpdateDriverLocation
    <2>4. CASE Mode!SetDriverStatus(r)
      <3>1. /\ modeJob[r].op = "free" /\ (online => online')
        BY <2>4, Zenon DEF Mode!SetDriverStatus
      <3>2. online' \in BOOLEAN
        BY <2>4, Zenon DEF Mode!SetDriverStatus
      <3> QED
        BY <3>1, <3>2
    <2> QED
      BY <2>1, <2>2, <2>3, <2>4
  <1>3. PICK j \in ModeJobs : /\ modeJob' = [modeJob EXCEPT ![r] = j] /\ j.day <= day
                              /\ j.op \in {"none", "normal", "earn"}
                              /\ modeJob[r].op = "offline" => j.op = "normal"
    <2>1. {"none", "normal", "earn"} \subseteq Mode!Ops
      BY DEF Mode!Ops
    <2>2. CASE Mode!DeleteDriverStatus(r)
      BY <2>1, <2>2, ModeNext DEF Mode!DeleteDriverStatus, ModeInv
    <2>3. CASE Mode!RefreshDriverStatusTTL(r) \/ Mode!UpdateDriverLocation(r)
      BY <2>1, <2>3, ModeNext DEF Mode!RefreshDriverStatusTTL, Mode!UpdateDriverLocation, ModeInv
    <2>4. CASE Mode!SetDriverStatus(r)
      <3>1. /\ modeJob' = [modeJob EXCEPT ![r].op = "earn", ![r].day = day]
            /\ modeJob[r].op = "free" /\ modeJob[r].target \in Targets \cup {0} /\ day \in Nat
        BY <2>4, ModeConstants DEF Mode!SetDriverStatus, ModeInv, ModeTypes, ModeJobs
      <3>2. PICK j \in ModeJobs : /\ modeJob' = [modeJob EXCEPT ![r] = j] /\ j.day = day
                                  /\ j.op = "earn"
        BY <3>1, ModeDated DEF ModeInv
      <3>3. /\ j.day <= day /\ j.op \in {"none", "normal", "earn"}
            /\ modeJob[r].op = "offline" => j.op = "normal"
        BY <3>1, <3>2
      <3> QED
        BY <3>2, <3>3, Zenon
    <2> QED
      BY <2>2, <2>3, <2>4
  <1>4. /\ modeJob' \in [Reqs -> ModeJobs] /\ modeJob'[r] = j
        /\ \A s \in Reqs : s # r => modeJob'[s] = modeJob[s]
    BY <1>3, ModeGoes DEF ModeInv
  <1>5. ModeTypes'
    BY <1>1, <1>3, ModeTypesKept DEF ModeInv, ModeTypes
  <1>6. ModeSwitches'
    BY <1>1, <1>2 DEF ModeInv, ModeSwitches
  <1>7. EndsLane'
    <2>1. \A s \in Reqs : Watches(s) => Watches(s)'
      BY <1>1, <1>2, <1>4 DEF Watches
    <2> QED
      BY <1>1, <2>1, EndsKept DEF ModeInv
  <1>8. KeptLane'
    <2>1. \A s \in Reqs : Mode!Holding(s)' => modeJob'[s] = modeJob[s]
      BY <1>3, <1>4 DEF Mode!Holding
    <2> QED
      BY <1>1, <2>1, KeptKept DEF ModeInv
  <1>9. Mode!ShiftStartsNormal'
    <2>1. CASE modeJob[r].op = "offline"
      BY <1>3, <1>4, <2>1 DEF Mode!ShiftStartsNormal
    <2>2. CASE modeJob[r].op # "offline"
      <3>1. \A s \in Reqs : modeJob[s].op = "normal" => modeJob'[s].op = "normal"
        BY <1>2, <1>4
      <3> QED
        BY <1>1, <1>2, <2>2, <3>1, ShiftKept DEF ModeInv
    <2> QED
      BY <2>1, <2>2
  <1> QED
    BY <1>5, <1>6, <1>7, <1>8, <1>9 DEF ModeInv

(* The mode key is deleted.                                                  *)
LEMMA ModeDeletes ==
  ASSUME ModeInv, NEW r \in Reqs, Mode!ForgetMode(r) \/ Mode!DeleteDriverMode(r)
  PROVE  ModeInv'
  <1>1. /\ UNCHANGED <<online, earnings, day, overtaken>> /\ target' = 0
        /\ spared' = FALSE /\ leftover' = FALSE
        /\ wanted' = 0 \/ (wanted' = wanted /\ modeJob[r].op = "delete")
        /\ Mode!Goes(r, "none") /\ "none" \in Mode!Ops
    BY DEF Mode!ForgetMode, Mode!DeleteDriverMode, Mode!Ops
  <1>2. PICK j \in ModeJobs : /\ modeJob' = [modeJob EXCEPT ![r] = j] /\ j.day <= day
                              /\ j.op = "none"
    BY <1>1, ModeNext DEF ModeInv
  <1>3. /\ modeJob' \in [Reqs -> ModeJobs] /\ modeJob'[r] = j
        /\ \A s \in Reqs : s # r => modeJob'[s] = modeJob[s]
    BY <1>2, ModeGoes DEF ModeInv
  <1>4. ModeTypes'
    BY <1>1, <1>2, ModeTypesKept DEF ModeInv, ModeTypes
  <1>5. ModeSwitches'
    BY <1>1, Zenon DEF ModeInv, ModeSwitches
  <1>6. EndsLane' /\ Mode!ShiftStartsNormal'
    BY <1>1 DEF EndsLane, Mode!Reached, Mode!ShiftStartsNormal
  <1>7. KeptLane'
    <2>1. \A s \in Reqs : Mode!Holding(s)' => s # r /\ Mode!Holding(s) /\ modeJob'[s] = modeJob[s]
      BY <1>2, <1>3 DEF Mode!Holding
    <2>2. \A s \in Reqs : modeJob'[s].op = "delete" =>
             /\ modeJob'[s].target # 0
             /\ earnings'[modeJob'[s].day] >= modeJob'[s].target
      BY <1>1, <2>1 DEF ModeInv, KeptLane, Mode!Reached, Mode!Holding
    <2>3. wanted' # 0 /\ ~overtaken' =>
             \A s \in Reqs : Mode!Holding(s)' => modeJob'[s].target = wanted'
      BY <1>1, <2>1 DEF ModeInv, KeptLane
    <2>4. Mode!PriorityKept'
      <3> SUFFICES ASSUME wanted' # 0, ~overtaken
                   PROVE  \E d \in Mode!Dates : Mode!Reached(wanted, d)'
        BY <1>1 DEF Mode!PriorityKept, Mode!Reached
      <3>1. /\ wanted' = wanted /\ modeJob[r].op = "delete"
            /\ modeJob[r].target = wanted /\ modeJob[r].day \in Mode!Dates
        BY <1>1 DEF ModeInv, ModeTypes, ModeJobs, KeptLane, Mode!Holding
      <3>2. Mode!Reached(wanted, modeJob[r].day)
        BY <3>1 DEF ModeInv, KeptLane
      <3>3. PICK d \in Mode!Dates : Mode!Reached(wanted, d)
        BY <3>1, <3>2
      <3> QED
        BY <1>1, <3>1, <3>3 DEF Mode!Reached
    <2> QED
      BY <1>1, <2>2, <2>3, <2>4 DEF KeptLane, Mode!Reached
  <1> QED
    BY <1>4, <1>5, <1>6, <1>7 DEF ModeInv

LEMMA ModeSets ==
  ASSUME ModeInv, NEW r \in Reqs, Mode!SetDriverMode(r)
  PROVE  ModeInv'
  <1>1. /\ modeJob[r].op = "mode" /\ target' = modeJob[r].target /\ wanted' = target'
        /\ UNCHANGED <<online, earnings, day>> /\ Mode!Goes(r, "none") /\ "none" \in Mode!Ops
    BY DEF Mode!SetDriverMode, Mode!Ops
  <1>2. /\ Mode!Reached(target', day) => spared'
        /\ (\E s \in Reqs : Mode!Holding(s)) => overtaken'
        /\ target' # 0 /\ ~online => leftover'
    BY Zenon DEF Mode!SetDriverMode
  <1>3. overtaken' \in BOOLEAN /\ spared' \in BOOLEAN /\ leftover' \in BOOLEAN
    BY Zenon DEF Mode!SetDriverMode, Mode!Reached
  <1>4. PICK j \in ModeJobs : /\ modeJob' = [modeJob EXCEPT ![r] = j] /\ j.day <= day
                              /\ j.op = "none"
    BY <1>1, ModeNext DEF ModeInv
  <1>5. /\ modeJob' \in [Reqs -> ModeJobs] /\ modeJob'[r] = j
        /\ \A s \in Reqs : s # r => modeJob'[s] = modeJob[s]
    BY <1>4, ModeGoes DEF ModeInv
  <1>6. ModeTypes'
    <2>1. target' \in Targets \cup {0}
      BY <1>1 DEF ModeInv, ModeTypes, ModeJobs
    <2> QED
      BY <1>1, <1>4, <2>1, ModeTypesKept DEF ModeInv
  <1>7. ModeSwitches'
    BY <1>1, <1>3 DEF ModeInv, ModeSwitches
  <1>8. EndsLane'
    BY <1>1, <1>2 DEF EndsLane, Mode!Reached
  <1>9. KeptLane'
    <2>1. \A s \in Reqs : Mode!Holding(s)' => s # r /\ Mode!Holding(s) /\ modeJob'[s] = modeJob[s]
      BY <1>4, <1>5 DEF Mode!Holding
    <2>2. \A s \in Reqs : modeJob'[s].op = "delete" =>
             /\ modeJob'[s].target # 0
             /\ earnings'[modeJob'[s].day] >= modeJob'[s].target
      BY <1>1, <2>1 DEF ModeInv, KeptLane, Mode!Reached, Mode!Holding
    <2>3. ~overtaken' => \A s \in Reqs : ~Mode!Holding(s)'
      BY <1>2, <2>1
    <2> QED
      BY <1>1, <2>2, <2>3 DEF KeptLane, Mode!PriorityKept, Mode!Reached
  <1>10. Mode!ShiftStartsNormal'
    BY <1>1, <1>2 DEF Mode!ShiftStartsNormal
  <1> QED
    BY <1>6, <1>7, <1>8, <1>9, <1>10 DEF ModeInv

LEMMA ModeEarns ==
  ASSUME ModeInv, NEW r \in Reqs, Mode!IncrementDriverEarnings(r)
  PROVE  ModeInv'
  <1> DEFINE k == modeJob[r].day
  <1>1. /\ modeJob[r].op = "earn" /\ Mode!Goes(r, "read") /\ "read" \in Mode!Ops
        /\ earnings' = [earnings EXCEPT ![k] = earnings[k] + 1]
        /\ UNCHANGED <<online, target, day, wanted, overtaken, spared, leftover>>
    BY DEF Mode!IncrementDriverEarnings, Mode!Ops, Mode!Hist
  <1>2. PICK j \in ModeJobs : /\ modeJob' = [modeJob EXCEPT ![r] = j] /\ j.day <= day
                              /\ j.op = "read"
    BY <1>1, ModeNext DEF ModeInv
  <1>3. /\ modeJob' \in [Reqs -> ModeJobs] /\ modeJob'[r] = j
        /\ \A s \in Reqs : s # r => modeJob'[s] = modeJob[s]
    BY <1>2, ModeGoes DEF ModeInv
  <1>4. /\ k \in Mode!Dates /\ k <= day /\ k \in Nat /\ day \in Nat
        /\ earnings \in [Mode!Dates -> Nat]
    BY ModeConstants DEF ModeInv, ModeTypes, ModeJobs
  <1>5. PICK n \in Mode!Dates : n = k
    BY <1>4
  <1>6. /\ earnings' \in [Mode!Dates -> Nat] /\ earnings'[n] = earnings[n] + 1
        /\ \A d \in Mode!Dates : d # n => earnings'[d] = earnings[d]
    BY <1>1, <1>4, <1>5
  <1>7. \A d \in Mode!Dates : earnings[d] \in Nat /\ earnings'[d] \in Nat
                              /\ earnings[d] <= earnings'[d]
    BY <1>4, <1>6
  <1>8. ModeTypes'
    <2>1. \A d \in Mode!Dates : d > day => earnings'[d] = 0
      BY <1>4, <1>5, <1>6 DEF ModeInv, ModeTypes
    <2>2. \A s \in Reqs : modeJob'[s].day <= day
      BY <1>2, <1>3 DEF ModeInv, ModeTypes
    <2> QED
      BY <1>1, <1>3, <1>6, <2>1, <2>2 DEF ModeInv, ModeTypes
  <1>9. ModeSwitches'
    BY <1>1 DEF ModeInv, ModeSwitches
  <1>10. EndsLane'
    BY <1>2, <1>3 DEF EndsLane, Watches
  <1>11. ASSUME NEW t \in Targets \cup {0}, NEW d \in Mode!Dates, Mode!Reached(t, d)
         PROVE  t # 0 /\ earnings'[d] >= t
    BY <1>7, <1>11, ModeConstants DEF Mode!Reached
  <1>12. KeptLane'
    <2>1. \A s \in Reqs : Mode!Holding(s)' => s # r /\ Mode!Holding(s) /\ modeJob'[s] = modeJob[s]
      BY <1>2, <1>3 DEF Mode!Holding
    <2>2. ASSUME NEW s \in Reqs, modeJob'[s].op = "delete"
          PROVE  /\ modeJob'[s].target # 0
                 /\ earnings'[modeJob'[s].day] >= modeJob'[s].target
      <3>1. modeJob'[s] = modeJob[s] /\ modeJob[s] \in ModeJobs
        BY <2>1, <2>2 DEF Mode!Holding, ModeInv, ModeTypes
      <3>2. modeJob[s].target \in Targets \cup {0} /\ modeJob[s].day \in Mode!Dates
        BY <3>1 DEF ModeJobs
      <3>3. Mode!Reached(modeJob[s].target, modeJob[s].day)
        BY <2>2, <3>1 DEF ModeInv, KeptLane
      <3> QED
        BY <1>11, <3>1, <3>2, <3>3
    <2>3. wanted' # 0 /\ ~overtaken' =>
             \A s \in Reqs : Mode!Holding(s)' => modeJob'[s].target = wanted'
      BY <1>1, <2>1 DEF ModeInv, KeptLane
    <2>4. Mode!PriorityKept'
      <3> SUFFICES ASSUME wanted # 0, target = 0, ~overtaken
                   PROVE  \E d \in Mode!Dates : wanted # 0 /\ earnings'[d] >= wanted
        BY <1>1 DEF Mode!PriorityKept, Mode!Reached
      <3>1. PICK d \in Mode!Dates : Mode!Reached(wanted, d)
        BY DEF ModeInv, KeptLane, Mode!PriorityKept
      <3> QED
        BY <1>11, <3>1 DEF ModeInv, ModeTypes
    <2> QED
      BY <1>1, <2>2, <2>3, <2>4 DEF ModeInv, KeptLane, Mode!Reached
  <1>13. Mode!ShiftStartsNormal'
    <2>1. \A s \in Reqs : modeJob[s].op = "normal" => modeJob'[s].op = "normal"
      BY <1>1, <1>3
    <2> QED
      BY <1>1, <2>1, ShiftKept DEF ModeInv
  <1> QED
    BY <1>8, <1>9, <1>10, <1>12, <1>13 DEF ModeInv

(* The end of a trip reads the mode, then the earnings.                      *)
LEMMA ModeReads ==
  ASSUME ModeInv, NEW r \in Reqs, Mode!GetDriverMode(r) \/ Mode!GetDriverEarnings(r)
  PROVE  ModeInv'
  <1>1. /\ UNCHANGED <<online, target, earnings, day, wanted, overtaken, spared, leftover>>
        /\ modeJob[r].op \in {"read", "compare"}
    BY DEF Mode!GetDriverMode, Mode!GetDriverEarnings, Mode!RedisKeys, Mode!Hist
  <1>2. PICK j \in ModeJobs :
           /\ modeJob' = [modeJob EXCEPT ![r] = j] /\ j.day <= day
           /\ \/ /\ j.op = "none"
                 /\ modeJob[r].op = "read" => target = 0
                 /\ modeJob[r].op = "compare" =>
                       ~Mode!Reached(modeJob[r].target, modeJob[r].day)
              \/ j.op = "compare" /\ j.target = target /\ j.day = day /\ target # 0
              \/ /\ j.op = "delete" /\ Mode!Reached(j.target, j.day)
                 /\ modeJob[r].op = "compare" /\ j.target = modeJob[r].target
    <2>1. {"none", "compare", "delete"} \subseteq Mode!Ops
      BY DEF Mode!Ops
    <2>2. CASE Mode!GetDriverMode(r)
      <3>1. CASE target = 0
        <4>1. Mode!Goes(r, "none") /\ modeJob[r].op = "read"
          BY <2>2, <3>1 DEF Mode!GetDriverMode
        <4> QED
          BY <2>1, <3>1, <4>1, ModeNext DEF ModeInv
      <3>2. CASE target # 0
        <4>1. modeJob' = [modeJob EXCEPT ![r].op = "compare", ![r].target = target, ![r].day = day]
          BY <2>2, <3>2 DEF Mode!GetDriverMode
        <4>2. target \in Targets \cup {0} /\ day \in Nat
          BY ModeConstants DEF ModeInv, ModeTypes
        <4>3. PICK j \in ModeJobs : /\ modeJob' = [modeJob EXCEPT ![r] = j] /\ j.op = "compare"
                                    /\ j.day = day /\ j.target = target
          BY <4>1, ModeCompares DEF ModeInv
        <4>4. j.day <= day
          BY <4>2, <4>3
        <4> QED
          BY <3>2, <4>3, <4>4, Zenon
      <3> QED
        BY <3>1, <3>2
    <2>3. CASE Mode!GetDriverEarnings(r)
      <3>1. CASE Mode!Reached(modeJob[r].target, modeJob[r].day)
        <4>1. Mode!Goes(r, "delete") /\ modeJob[r].op = "compare"
          BY <2>3, <3>1 DEF Mode!GetDriverEarnings, Mode!TurnsOff
        <4>2. PICK j \in ModeJobs : /\ modeJob' = [modeJob EXCEPT ![r] = j] /\ j.op = "delete"
                                    /\ j.day <= day /\ j.target = modeJob[r].target
                                    /\ j.day = modeJob[r].day
          BY <2>1, <4>1, ModeNext DEF ModeInv
        <4> QED
          BY <3>1, <4>1, <4>2
      <3>2. CASE ~Mode!Reached(modeJob[r].target, modeJob[r].day)
        <4>1. Mode!Goes(r, "none") /\ modeJob[r].op = "compare"
          BY <2>3, <3>2 DEF Mode!GetDriverEarnings, Mode!TurnsOff
        <4> QED
          BY <2>1, <3>2, <4>1, ModeNext DEF ModeInv
      <3> QED
        BY <3>1, <3>2
    <2> QED
      BY <2>2, <2>3
  <1>3. /\ modeJob' \in [Reqs -> ModeJobs] /\ modeJob'[r] = j
        /\ \A s \in Reqs : s # r => modeJob'[s] = modeJob[s]
    BY <1>2, ModeGoes DEF ModeInv
  <1>4. ModeTypes'
    BY <1>1, <1>2, ModeTypesKept DEF ModeInv, ModeTypes
  <1>5. ModeSwitches'
    BY <1>1 DEF ModeInv, ModeSwitches
  <1>6. EndsLane'
    <2> SUFFICES ASSUME Mode!Reached(target, day), ~spared
                 PROVE  \E s \in Reqs : Watches(s)'
      BY <1>1 DEF EndsLane, Mode!Reached
    <2>1. PICK s \in Reqs : Watches(s)
      BY DEF ModeInv, EndsLane
    <2>2. CASE s # r
      BY <1>1, <1>3, <2>1, <2>2 DEF Watches
    <2>3. CASE s = r
      <3>1. target # 0 /\ j.op # "none"
        BY <1>1, <1>2, <2>1, <2>3 DEF Watches, Mode!Reached
      <3>2. Watches(r)'
        BY <1>1, <1>2, <1>3, <3>1 DEF Watches
      <3> QED
        BY <3>2
    <2> QED
      BY <2>2, <2>3
  <1>7. KeptLane'
    <2>1. ASSUME NEW s \in Reqs, modeJob'[s].op = "delete"
          PROVE  Mode!Reached(modeJob'[s].target, modeJob'[s].day)
      BY <1>2, <1>3, <2>1 DEF ModeInv, KeptLane
    <2>2. ASSUME NEW s \in Reqs, Mode!Holding(s)', wanted # 0, ~overtaken
          PROVE  modeJob'[s].target = wanted
      BY <1>2, <1>3, <2>2 DEF ModeInv, KeptLane, Mode!Holding
    <2> QED
      BY <1>1, <2>1, <2>2 DEF ModeInv, KeptLane, Mode!PriorityKept, Mode!Reached
  <1>8. Mode!ShiftStartsNormal'
    <2>1. \A s \in Reqs : modeJob[s].op = "normal" => modeJob'[s].op = "normal"
      BY <1>1, <1>3
    <2> QED
      BY <1>1, <2>1, ShiftKept DEF ModeInv
  <1> QED
    BY <1>4, <1>5, <1>6, <1>7, <1>8 DEF ModeInv

LEMMA ModeFails ==
  ASSUME ModeInv, NEW r \in Reqs, Mode!Fail(r)
  PROVE  ModeInv'
  <1>1. UNCHANGED <<online, target, earnings, day, wanted, overtaken>>
    BY DEF Mode!Fail, Mode!RedisKeys
  <1>2. /\ spared => spared'
        /\ modeJob[r].op \in {"read", "compare", "delete"} => spared'
        /\ leftover => leftover'
        /\ modeJob[r].op = "normal" /\ target # 0 => leftover'
    BY Zenon DEF Mode!Fail
  <1>3. spared' \in BOOLEAN /\ leftover' \in BOOLEAN
    BY Zenon DEF Mode!Fail
  <1>4. PICK j \in ModeJobs : /\ modeJob' = [modeJob EXCEPT ![r] = j] /\ j.day <= day
                              /\ j.op \in {"none", "normal", "earn", "read"}
    <2>1. {"none", "normal", "earn", "read"} \subseteq Mode!Ops
      BY DEF Mode!Ops
    <2>2. CASE Mode!Goes(r, "none") \/ Mode!Goes(r, "normal") \/ Mode!Goes(r, "read")
      BY <2>1, <2>2, ModeNext DEF ModeInv
    <2>3. CASE modeJob' = [modeJob EXCEPT ![r].op = "earn", ![r].day = day]
      <3>1. modeJob[r].target \in Targets \cup {0} /\ day \in Nat
        BY ModeConstants DEF ModeInv, ModeTypes, ModeJobs
      <3>2. PICK j \in ModeJobs : /\ modeJob' = [modeJob EXCEPT ![r] = j] /\ j.day = day
                                  /\ j.op = "earn"
        BY <2>3, ModeDated DEF ModeInv
      <3>3. j.day <= day /\ j.op \in {"none", "normal", "earn", "read"}
        BY <3>1, <3>2
      <3> QED
        BY <3>2, <3>3, Zenon
    <2> QED
      BY <2>2, <2>3 DEF Mode!Fail
  <1>5. /\ modeJob' \in [Reqs -> ModeJobs] /\ modeJob'[r] = j
        /\ \A s \in Reqs : s # r => modeJob'[s] = modeJob[s]
    BY <1>4, ModeGoes DEF ModeInv
  <1>6. ModeTypes'
    BY <1>1, <1>4, ModeTypesKept DEF ModeInv, ModeTypes
  <1>7. ModeSwitches'
    BY <1>1, <1>3 DEF ModeInv, ModeSwitches
  <1>8. EndsLane'
    <2>1. spared' \/ \A s \in Reqs : Watches(s) => Watches(s)'
      BY <1>1, <1>2, <1>5 DEF Watches
    <2> QED
      BY <1>1, <1>2, <2>1, EndsKept DEF ModeInv
  <1>9. KeptLane'
    <2>1. \A s \in Reqs : Mode!Holding(s)' => modeJob'[s] = modeJob[s]
      BY <1>4, <1>5 DEF Mode!Holding
    <2> QED
      BY <1>1, <2>1, KeptKept DEF ModeInv
  <1>10. Mode!ShiftStartsNormal'
    BY <1>1, <1>2, <1>5 DEF ModeInv, Mode!ShiftStartsNormal
  <1> QED
    BY <1>6, <1>7, <1>8, <1>9, <1>10 DEF ModeInv

(* Steps of no handler.                                                      *)
LEMMA ModeTime ==
  ASSUME ModeInv, Mode!GoOnline \/ Mode!StatusExpires \/ Mode!Midnight
  PROVE  ModeInv'
  <1>1. UNCHANGED <<target, earnings, wanted, overtaken, spared, modeJob>>
    BY DEF Mode!GoOnline, Mode!StatusExpires, Mode!Midnight, Mode!RedisKeys, Mode!Hist
  <1>2. KeptLane'
    BY <1>1, KeptKept DEF ModeInv
  <1>3. CASE Mode!Midnight
    <2>1. day < MaxDay /\ day' = day + 1 /\ UNCHANGED <<online, leftover>>
      BY <1>3 DEF Mode!Midnight, Mode!RedisKeys, Mode!Hist
    <2>2. day \in Nat /\ day' \in Mode!Dates
      BY <2>1, ModeConstants DEF ModeInv, ModeTypes, Mode!Dates
    <2>3. ModeTypes'
      <3>1. \A r \in Reqs : modeJob[r].day \in Nat
        BY ModeConstants DEF ModeInv, ModeTypes, ModeJobs
      <3> QED
        BY <1>1, <2>1, <2>2, <3>1, ModeConstants DEF ModeInv, ModeTypes
    <2>4. EndsLane'
      <3>1. earnings[day + 1] = 0 /\ target \in Nat
        BY <2>1, <2>2, ModeConstants DEF ModeInv, ModeTypes
      <3> QED
        BY <1>1, <2>1, <3>1 DEF EndsLane, Mode!Reached
    <2> QED
      BY <1>1, <1>2, <2>1, <2>3, <2>4, ShiftKept DEF ModeInv, ModeSwitches
  <1>4. CASE Mode!GoOnline \/ Mode!StatusExpires
    <2>1. UNCHANGED day
      BY <1>4 DEF Mode!GoOnline, Mode!StatusExpires
    <2>2. /\ \/ online' = TRUE
             \/ target # 0 => leftover'
          /\ online' \in BOOLEAN
      <3>1. CASE Mode!GoOnline
        BY <3>1, Zenon DEF Mode!GoOnline
      <3>2. CASE Mode!StatusExpires
        BY <3>2, Zenon DEF Mode!StatusExpires
      <3> QED
        BY <1>4, <3>1, <3>2
    <2>3. leftover' \in BOOLEAN
      <3>1. CASE Mode!GoOnline
        BY <3>1, Zenon DEF Mode!GoOnline, Mode!Hist, ModeInv, ModeSwitches
      <3>2. CASE Mode!StatusExpires
        BY <3>2, Zenon DEF Mode!StatusExpires
      <3> QED
        BY <1>4, <3>1, <3>2
    <2>4. ModeTypes' /\ ModeSwitches'
      BY <1>1, <2>1, <2>2, <2>3 DEF ModeInv, ModeTypes, ModeSwitches
    <2>5. EndsLane'
      BY <1>1, <2>1, EndsKept DEF ModeInv, Watches
    <2>6. Mode!ShiftStartsNormal'
      BY <1>1, <2>2 DEF Mode!ShiftStartsNormal
    <2> QED
      BY <1>2, <2>4, <2>5, <2>6 DEF ModeInv
  <1> QED
    BY <1>3, <1>4

LEMMA ModeStep == ModeInv /\ [Mode!Next]_dispatchMode => ModeInv'
  <1> SUFFICES ASSUME ModeInv, [Mode!Next]_dispatchMode PROVE ModeInv'
    OBVIOUS
  <1>1. CASE UNCHANGED dispatchMode
    <2>1. UNCHANGED <<online, target, earnings, day, wanted, overtaken, spared, leftover, modeJob>>
      BY <1>1 DEF dispatchMode
    <2>2. ModeTypes' /\ ModeSwitches'
      BY <2>1 DEF ModeInv, ModeTypes, ModeSwitches
    <2>3. EndsLane'
      BY <2>1, EndsKept DEF ModeInv, Watches
    <2> QED
      BY <2>1, <2>2, <2>3, KeptKept, ShiftKept DEF ModeInv
  <1> QED
    BY <1>1, ModeArrivals, ModeStatus, ModeDeletes, ModeSets, ModeEarns, ModeReads, ModeFails,
       ModeTime DEF Mode!Next

LEMMA ModeInit == Init => ModeInv
  <1> SUFFICES ASSUME Mode!Init PROVE ModeInv
    BY DEF Init
  <1>1. \A r \in Reqs : modeJob[r] = Mode!Idle
    BY DEF Mode!Init
  <1>2. ModeTypes
    BY <1>1, ModeIdle, ModeConstants DEF Mode!Init, ModeTypes
  <1>3. ModeSwitches
    BY Zenon DEF Mode!Init, ModeSwitches
  <1>4. EndsLane /\ KeptLane /\ Mode!ShiftStartsNormal
    BY <1>1, ModeIdle DEF Mode!Init, EndsLane, KeptLane, Mode!PriorityKept, Mode!Reached,
                          Mode!Holding, Mode!ShiftStartsNormal
  <1> QED
    BY <1>2, <1>3, <1>4 DEF ModeInv

LEMMA ModeImplied == ModeInv => Mode!ModeSafe
  <1> SUFFICES ASSUME ModeInv PROVE Mode!ModeSafe
    OBVIOUS
  <1>1. Mode!TypeOK
    <2>1. {online, overtaken, spared, leftover} \subseteq BOOLEAN
      BY DEF ModeInv, ModeSwitches
    <2>2. modeJob \in [Reqs -> [op : Mode!Ops, target : Targets \cup {0}, day : Mode!Dates,
                                seen : BOOLEAN]]
      BY DEF ModeInv, ModeTypes, ModeJobs
    <2> QED
      BY <2>1, <2>2 DEF ModeInv, ModeTypes, Mode!TypeOK
  <1>2. Mode!PriorityEnds
    BY DEF ModeInv, EndsLane, Watches, Mode!PriorityEnds
  <1> QED
    BY <1>1, <1>2 DEF ModeInv, KeptLane, Mode!ModeSafe

(* A referral counts once, an address list has one default, a document one   *)
(* judgement; a user has one row and his edits are lost only to edits that   *)
(* overlap; a driver's priority mode lasts to his target or the end of his   *)
(* shift.                                                                    *)
THEOREM ProfileSafety == Spec => []ProfileSafe
  <1> DEFINE I == For("user", ProfInv) /\ For("account", AcctInv) /\ For("mode", ModeInv)
  <1>1. Init => I
    BY ProfInit, AcctInit, ModeInit DEF For
  <1>2. I /\ [Next]_vars => I'
    BY Moves, ProfStep, AcctStep, ModeStep DEF For
  <1>3. I => ProfileSafe
    BY ProfImplied, AcctImplied, ModeImplied DEF For, ProfileSafe
  <1> QED
    BY <1>1, <1>2, <1>3, PTL DEF Spec

-----------------------------------------------------------------------------
(* merchant-service *)

Registering == [kind : {"register"}]
Announcing == [kind : {"status"}, step : {"read", "publish"},
               seen : MerchantStatuses \cup {None}]
Upserting == [kind : {"hours"}, by : 0..Bound["merchant"], days : SUBSET Days,
              left : SUBSET Days]
Banking == [kind : {"accounts"}, step : {"clear", "write"}, op : {"insert", "update"},
            id : BankAccounts]
MerchJobs == {Merch!Idle} \cup Registering \cup Announcing \cup Upserting \cup Banking

MerchTypes ==
    /\ rows \in Nat /\ status \in MerchantStatuses \cup {None}
    /\ announced \in MerchantStatuses \cup {None}
    /\ week \in [Days -> 0..Bound["merchant"]] /\ asked \in Merch!Asked
    /\ lent \subseteq primary /\ primary \subseteq accounts /\ accounts \subseteq BankAccounts
    /\ menu \in [Merch!Entries -> {"none", "shown", "hidden"}]
    /\ merchClash \subseteq Merch!Kinds /\ merchArrived \in 0..Bound["merchant"]
    /\ merchJob \in [Reqs -> MerchJobs]

(* One handler of a kind at most is in flight.                               *)
Alone(kind) == \A r, s \in Reqs : merchJob[r].kind = kind /\ merchJob[s].kind = kind => r = s

(* What holds of each kind of request until two of it overlap or one stops   *)
(* half way: a registration in flight is the first; an event in flight names *)
(* the status; the days a request has written hold what it said; a default   *)
(* is written when no other is left.                                         *)
RegisterLane ==
    \/ "register" \in merchClash
    \/ /\ rows <= 1 /\ Alone("register")
       /\ \A r \in Reqs : merchJob[r].kind = "register" => rows = 0
StatusLane ==
    /\ rows = 0 => status = None /\ \A r \in Reqs : merchJob[r].kind # "status"
    /\ \/ "status" \in merchClash
       \/ /\ Alone("status")
          /\ \A r \in Reqs : merchJob[r].kind = "status" /\ merchJob[r].step = "publish"
                                => merchJob[r].seen = status
          /\ (\A r \in Reqs : merchJob[r].kind # "status") => announced = status
HoursLane ==
    \/ "hours" \in merchClash
    \/ /\ Alone("hours")
       /\ \A r \in Reqs : merchJob[r].kind = "hours" =>
             \A d \in merchJob[r].days \ merchJob[r].left : week[d] = merchJob[r].by
       /\ (\A r \in Reqs : merchJob[r].kind # "hours") =>
             \A d \in asked.days : week[d] = asked.by
BankLane ==
    \/ "accounts" \in merchClash
    \/ /\ Alone("accounts")
       /\ \A a, b \in primary \ lent : a = b
       /\ \A r \in Reqs : merchJob[r].kind = "accounts" /\ merchJob[r].step = "write"
                             => primary \subseteq lent
MenuLane == deleted \subseteq Merch!Entries /\ Merch!DeletedHidden

MerchInv == MerchTypes /\ RegisterLane /\ StatusLane /\ HoursLane /\ BankLane /\ MenuLane

(* The slots of a kind are as they were.                                     *)
Kept(kind) == \A r \in Reqs : merchJob[r].kind = kind \/ merchJob'[r].kind = kind
                                 => merchJob'[r] = merchJob[r]

LEMMA MerchConstants == Bound["merchant"] \in Nat /\ Registered \in MerchantStatuses
  BY ServicesAssumption DEF ServiceNames

LEMMA MerchKinds ==
  ASSUME NEW q \in MerchJobs
  PROVE  /\ q.kind = "none" => q = Merch!Idle
         /\ q.kind = "register" => q \in Registering
         /\ q.kind = "status" => q \in Announcing
         /\ q.kind = "hours" => q \in Upserting
         /\ q.kind = "accounts" => q \in Banking
         /\ q # Merch!Idle => q.kind \in Merch!Kinds
  <1>1. Merch!Idle.kind = "none"
    BY DEF Merch!Idle
  <1>2. /\ q \in Registering => q.kind = "register"
        /\ q \in Announcing => q.kind = "status"
        /\ q \in Upserting => q.kind = "hours"
        /\ q \in Banking => q.kind = "accounts"
    BY DEF Registering, Announcing, Upserting, Banking
  <1> QED
    BY <1>1, <1>2 DEF MerchJobs, Merch!Kinds

(* A lane nobody moves in keeps what it says.                                *)
LEMMA RegisterKept ==
  ASSUME RegisterLane, Kept("register"), rows' = rows, merchClash \subseteq merchClash'
  PROVE  RegisterLane'
  BY DEF RegisterLane, Kept, Alone

LEMMA StatusKept ==
  ASSUME StatusLane, Kept("status"), UNCHANGED <<status, announced>>,
         rows' = 0 => rows = 0, merchClash \subseteq merchClash'
  PROVE  StatusLane'
  BY DEF StatusLane, Kept, Alone

LEMMA HoursKept ==
  ASSUME HoursLane, Kept("hours"), UNCHANGED <<week, asked>>, merchClash \subseteq merchClash'
  PROVE  HoursLane'
  BY DEF HoursLane, Kept, Alone

LEMMA BankKept ==
  ASSUME BankLane, Kept("accounts"), primary' \ lent' \subseteq primary \ lent, merchClash \subseteq merchClash'
  PROVE  BankLane'
  BY DEF BankLane, Kept, Alone

LEMMA MenuKept ==
  ASSUME MenuLane, UNCHANGED <<menu, deleted>>
  PROVE  MenuLane'
  BY DEF MenuLane, Merch!DeletedHidden

(* A slot gets another record.                                               *)
LEMMA MerchGoes ==
  ASSUME MerchTypes, NEW r \in Reqs, NEW q \in MerchJobs, merchJob' = [merchJob EXCEPT ![r] = q]
  PROVE  /\ merchJob' \in [Reqs -> MerchJobs] /\ merchJob'[r] = q
         /\ \A s \in Reqs : s # r => merchJob'[s] = merchJob[s]
         /\ \A kind \in Merch!Kinds : kind # q.kind /\ kind # merchJob[r].kind => Kept(kind)
  BY DEF MerchTypes, Kept

LEMMA MerchBegins ==
  ASSUME MerchTypes, NEW r \in Reqs, NEW q \in MerchJobs, q.kind \in Merch!Kinds,
         Merch!Begin(r, q)
  PROVE  /\ merchJob' \in [Reqs -> MerchJobs] /\ merchJob'[r] = q
         /\ \A s \in Reqs : s # r => merchJob'[s] = merchJob[s]
         /\ merchJob[r].kind = "none"
         /\ \A kind \in Merch!Kinds : kind # q.kind => Kept(kind)
         /\ merchClash \subseteq merchClash' /\ merchClash' \subseteq Merch!Kinds
         /\ merchArrived' \in 0..Bound["merchant"] /\ merchArrived' = merchArrived + 1
         /\ \/ q.kind \in merchClash'
            \/ \A s \in Reqs : merchJob[s].kind # q.kind
  <1>1. merchJob[r].kind = "none"
    BY DEF Merch!Begin, Merch!Idle
  <1>2. /\ merchJob' = [merchJob EXCEPT ![r] = q] /\ merchArrived' = merchArrived + 1
        /\ merchArrived < Bound["merchant"]
        /\ \/ merchClash' = merchClash \cup {q.kind}
           \/ merchClash' = merchClash /\ \A s \in Reqs : merchJob[s].kind # q.kind
    BY DEF Merch!Begin, Merch!Overlapping
  <1>3. merchArrived' \in 0..Bound["merchant"]
    BY <1>2, MerchConstants DEF MerchTypes
  <1>4. \A kind \in Merch!Kinds : kind # "none"
    BY DEF Merch!Kinds
  <1>5. merchClash' \subseteq Merch!Kinds
    BY <1>2 DEF MerchTypes
  <1> QED
    BY <1>1, <1>2, <1>3, <1>4, <1>5, MerchGoes

LEMMA MerchRegisters ==
  ASSUME MerchInv, NEW r \in Reqs, Merch!RegisterMerchant(r)
  PROVE  MerchInv'
  <1> DEFINE q == [kind |-> "register"]
  <1>1. q \in MerchJobs /\ q.kind = "register"
    BY DEF MerchJobs, Registering
  <1>2. /\ Merch!Begin(r, q) /\ rows = 0
        /\ UNCHANGED <<rows, status, announced, week, asked, accounts, primary, lent, menu, deleted>>
    BY DEF Merch!RegisterMerchant, Merch!ExistsNone, Merch!Row, Merch!Hours, Merch!Bank, Merch!Menu
  <1> HIDE DEF q
  <1>3. /\ merchJob' \in [Reqs -> MerchJobs] /\ merchJob'[r] = q
        /\ \A s \in Reqs : s # r => merchJob'[s] = merchJob[s]
        /\ Kept("status") /\ Kept("hours") /\ Kept("accounts")
        /\ merchClash \subseteq merchClash' /\ merchClash' \subseteq Merch!Kinds
        /\ merchArrived' \in 0..Bound["merchant"]
        /\ \/ "register" \in merchClash'
           \/ \A s \in Reqs : merchJob[s].kind # "register"
    BY <1>1, <1>2, MerchBegins DEF MerchInv, Merch!Kinds
  <1>4. MerchTypes'
    BY <1>2, <1>3 DEF MerchInv, MerchTypes
  <1>5. RegisterLane'
    BY <1>1, <1>2, <1>3 DEF MerchInv, RegisterLane, Alone
  <1> QED
    BY <1>2, <1>3, <1>4, <1>5, StatusKept, HoursKept, BankKept, MenuKept DEF MerchInv

LEMMA MerchCreates ==
  ASSUME MerchInv, NEW r \in Reqs, Merch!CreateMerchant(r)
  PROVE  MerchInv'
  <1> DEFINE q == [kind |-> "status", step |-> "publish", seen |-> Registered]
  <1>1. /\ q \in MerchJobs /\ Merch!Idle \in MerchJobs
        /\ q.kind = "status" /\ q.step = "publish" /\ q.seen = Registered
        /\ Merch!Idle.kind = "none"
    BY MerchConstants DEF MerchJobs, Announcing, Merch!Idle
  <1>2. /\ merchJob[r].kind = "register" /\ rows' = rows + 1
        /\ UNCHANGED <<announced, week, asked, accounts, primary, lent, menu, deleted, merchClash,
                       merchArrived>>
        /\ \/ /\ rows = 0 /\ status' = Registered /\ merchJob' = [merchJob EXCEPT ![r] = q]
           \/ /\ rows # 0 /\ status' = status
              /\ merchJob' = [merchJob EXCEPT ![r] = Merch!Idle]
    BY DEF Merch!CreateMerchant, Merch!Goes, Merch!Hours, Merch!Bank, Merch!Menu
  <1> HIDE DEF q
  <1>3. PICK j \in {q, Merch!Idle} : merchJob' = [merchJob EXCEPT ![r] = j]
    BY <1>2
  <1>4. /\ merchJob' \in [Reqs -> MerchJobs] /\ merchJob'[r] = j
        /\ \A s \in Reqs : s # r => merchJob'[s] = merchJob[s]
        /\ Kept("hours") /\ Kept("accounts")
    BY <1>1, <1>2, <1>3, MerchGoes DEF MerchInv, Merch!Kinds
  <1>5. rows \in Nat /\ rows' \in Nat /\ rows' # 0
    BY <1>2 DEF MerchInv, MerchTypes
  <1>6. MerchTypes'
    BY <1>2, <1>4, <1>5, MerchConstants DEF MerchInv, MerchTypes
  <1>7. RegisterLane'
    <2> SUFFICES ASSUME "register" \notin merchClash PROVE RegisterLane'
      BY <1>2 DEF RegisterLane
    <2>1. rows = 0 /\ \A s \in Reqs : merchJob[s].kind = "register" => s = r
      BY <1>2 DEF MerchInv, RegisterLane, Alone
    <2>2. \A s \in Reqs : merchJob'[s].kind # "register"
      BY <1>1, <1>3, <1>4, <2>1
    <2> QED
      BY <1>2, <2>1, <2>2 DEF RegisterLane, Alone
  <1>8. StatusLane'
    <2>1. CASE rows = 0
      <3>1. \A s \in Reqs : s # r => merchJob'[s].kind # "status"
        BY <1>4, <2>1 DEF MerchInv, StatusLane
      <3>2. merchJob'[r] = q /\ status' = Registered
        BY <1>2, <2>1 DEF MerchInv, MerchTypes
      <3> QED
        BY <1>1, <1>5, <3>1, <3>2 DEF StatusLane, Alone
    <2>2. CASE rows # 0
      <3>1. merchJob' = [merchJob EXCEPT ![r] = Merch!Idle] /\ status' = status
        BY <1>2, <2>2
      <3>2. Kept("status")
        BY <1>1, <1>2, <3>1, MerchGoes DEF MerchInv, Merch!Kinds
      <3> QED
        BY <1>2, <1>5, <3>1, <3>2, StatusKept DEF MerchInv
    <2> QED
      BY <2>1, <2>2
  <1> QED
    BY <1>2, <1>4, <1>6, <1>7, <1>8, HoursKept, BankKept, MenuKept DEF MerchInv

LEMMA MerchUpdates ==
  ASSUME MerchInv, NEW r \in Reqs, NEW s \in MerchantStatuses, Merch!UpdateMerchant(r, s)
  PROVE  MerchInv'
  <1> DEFINE q == [kind |-> "status", step |-> "read", seen |-> status]
  <1>1. q \in MerchJobs /\ q.kind = "status" /\ q.step = "read"
    BY DEF MerchInv, MerchTypes, MerchJobs, Announcing
  <1>2. /\ Merch!Begin(r, q) /\ status # None /\ status' = s
        /\ UNCHANGED <<rows, announced, week, asked, accounts, primary, lent, menu, deleted>>
    BY DEF Merch!UpdateMerchant, Merch!Hours, Merch!Bank, Merch!Menu
  <1> HIDE DEF q
  <1>3. /\ merchJob' \in [Reqs -> MerchJobs] /\ merchJob'[r] = q
        /\ \A t \in Reqs : t # r => merchJob'[t] = merchJob[t]
        /\ Kept("register") /\ Kept("hours") /\ Kept("accounts")
        /\ merchClash \subseteq merchClash' /\ merchClash' \subseteq Merch!Kinds
        /\ merchArrived' \in 0..Bound["merchant"]
        /\ \/ "status" \in merchClash'
           \/ \A t \in Reqs : merchJob[t].kind # "status"
    BY <1>1, <1>2, MerchBegins DEF MerchInv, Merch!Kinds
  <1>4. MerchTypes'
    BY <1>2, <1>3 DEF MerchInv, MerchTypes
  <1>5. rows' # 0
    BY <1>2 DEF MerchInv, StatusLane
  <1>6. StatusLane'
    BY <1>1, <1>3, <1>5 DEF StatusLane, Alone
  <1> QED
    BY <1>2, <1>3, <1>4, <1>6, RegisterKept, HoursKept, BankKept, MenuKept DEF MerchInv

LEMMA MerchReads ==
  ASSUME MerchInv, NEW r \in Reqs, Merch!GetByID(r)
  PROVE  MerchInv'
  <1> DEFINE q == [kind |-> "status", step |-> "publish", seen |-> status]
  <1>1. q \in MerchJobs /\ q.kind = "status" /\ q.seen = status
    BY DEF MerchInv, MerchTypes, MerchJobs, Announcing
  <1>2. merchJob[r] \in Announcing
    BY MerchKinds DEF Merch!GetByID, MerchInv, MerchTypes
  <1>3. [merchJob[r] EXCEPT !.step = "publish", !.seen = status] = q
    <2> DEFINE c == [kind |-> "status", step |-> "publish", seen |-> merchJob[r].seen]
    <2>1. [merchJob[r] EXCEPT !.step = "publish"] = c
      BY <1>2 DEF Announcing
    <2>2. [c EXCEPT !.seen = status] = q
      OBVIOUS
    <2>3. [merchJob[r] EXCEPT !.step = "publish", !.seen = status]
            = [[merchJob[r] EXCEPT !.step = "publish"] EXCEPT !.seen = status]
      OBVIOUS
    <2> QED
      BY <2>1, <2>2, <2>3, Zenon
  <1>4. /\ merchJob' = [merchJob EXCEPT ![r] = q] /\ merchJob[r].kind = "status"
        /\ UNCHANGED <<rows, status, announced, week, asked, accounts, primary, lent, menu, deleted,
                       merchClash, merchArrived>>
    BY <1>3 DEF Merch!GetByID, Merch!Goes, Merch!ReadAgain, Merch!Row, Merch!Hours, Merch!Bank,
                Merch!Menu
  <1> HIDE DEF q
  <1>5. /\ merchJob' \in [Reqs -> MerchJobs] /\ merchJob'[r] = q
        /\ \A t \in Reqs : t # r => merchJob'[t] = merchJob[t]
        /\ Kept("register") /\ Kept("hours") /\ Kept("accounts")
    BY <1>1, <1>4, MerchGoes DEF MerchInv, Merch!Kinds
  <1>6. MerchTypes'
    BY <1>4, <1>5 DEF MerchInv, MerchTypes
  <1>7. StatusLane'
    BY <1>1, <1>4, <1>5 DEF MerchInv, StatusLane, Alone
  <1> QED
    BY <1>4, <1>5, <1>6, <1>7, RegisterKept, HoursKept, BankKept, MenuKept DEF MerchInv

LEMMA MerchPublishes ==
  ASSUME MerchInv, NEW r \in Reqs, Merch!PublishMerchantUpdated(r)
  PROVE  MerchInv'
  <1>1. Merch!Idle \in MerchJobs /\ Merch!Idle.kind = "none"
    BY DEF MerchJobs, Merch!Idle
  <1>2. merchJob[r] \in Announcing
    BY MerchKinds DEF Merch!PublishMerchantUpdated, MerchInv, MerchTypes
  <1>3. /\ merchJob' = [merchJob EXCEPT ![r] = Merch!Idle]
        /\ merchJob[r].kind = "status" /\ merchJob[r].step = "publish"
        /\ announced' = merchJob[r].seen
        /\ UNCHANGED <<rows, status, week, asked, accounts, primary, lent, menu, deleted,
                       merchClash, merchArrived>>
    BY DEF Merch!PublishMerchantUpdated, Merch!Goes, Merch!Hours, Merch!Bank, Merch!Menu
  <1>4. announced' \in MerchantStatuses \cup {None}
    BY <1>2, <1>3 DEF Announcing
  <1>5. /\ merchJob' \in [Reqs -> MerchJobs] /\ merchJob'[r] = Merch!Idle
        /\ \A t \in Reqs : t # r => merchJob'[t] = merchJob[t]
        /\ Kept("register") /\ Kept("hours") /\ Kept("accounts")
    BY <1>1, <1>3, MerchGoes DEF MerchInv, Merch!Kinds
  <1>6. MerchTypes'
    BY <1>3, <1>4, <1>5 DEF MerchInv, MerchTypes
  <1>7. StatusLane'
    BY <1>1, <1>3, <1>5 DEF MerchInv, StatusLane, Alone
  <1> QED
    BY <1>3, <1>5, <1>6, <1>7, RegisterKept, HoursKept, BankKept, MenuKept DEF MerchInv

LEMMA MerchHours ==
  ASSUME MerchInv, NEW r \in Reqs, NEW days \in SUBSET Days,
         Merch!UpsertOperatingHours(r, days)
  PROVE  MerchInv'
  <1> DEFINE q == [kind |-> "hours", by |-> merchArrived', days |-> days, left |-> days]
  <1>1. /\ Merch!Begin(r, q)
        /\ UNCHANGED <<rows, status, announced, week, asked, accounts, primary, lent, menu, deleted>>
    BY DEF Merch!UpsertOperatingHours, Merch!Row, Merch!Hours, Merch!Bank, Merch!Menu
  <1>2. merchArrived' \in 0..Bound["merchant"]
    BY <1>1, MerchConstants DEF Merch!Begin, MerchInv, MerchTypes
  <1>3. q \in MerchJobs /\ q.kind = "hours" /\ q.days \ q.left = {}
    BY <1>2 DEF MerchJobs, Upserting
  <1> HIDE DEF q
  <1>4. /\ merchJob' \in [Reqs -> MerchJobs] /\ merchJob'[r] = q
        /\ \A t \in Reqs : t # r => merchJob'[t] = merchJob[t]
        /\ Kept("register") /\ Kept("status") /\ Kept("accounts")
        /\ merchClash \subseteq merchClash' /\ merchClash' \subseteq Merch!Kinds
        /\ \/ "hours" \in merchClash'
           \/ \A t \in Reqs : merchJob[t].kind # "hours"
    BY <1>1, <1>3, MerchBegins DEF MerchInv, Merch!Kinds
  <1>5. MerchTypes'
    BY <1>1, <1>2, <1>4 DEF MerchInv, MerchTypes
  <1>6. HoursLane'
    BY <1>3, <1>4 DEF HoursLane, Alone
  <1> QED
    BY <1>1, <1>4, <1>5, <1>6, RegisterKept, StatusKept, BankKept, MenuKept DEF MerchInv

LEMMA MerchDay ==
  ASSUME MerchInv, NEW r \in Reqs, NEW d \in Days, Merch!UpsertDay(r, d)
  PROVE  MerchInv'
  <1> DEFINE p == merchJob[r]
             q == [kind |-> "hours", by |-> p.by, days |-> p.days, left |-> p.left \ {d}]
             a == [by |-> p.by, days |-> p.days]
  <1>1. p \in Upserting /\ p.kind = "hours" /\ d \in p.left
    BY MerchKinds DEF Merch!UpsertDay, MerchInv, MerchTypes
  <1>2. /\ p.by \in 0..Bound["merchant"] /\ p.days \in SUBSET Days /\ p.left \in SUBSET Days
        /\ [p EXCEPT !.left = p.left \ {d}] = q
    BY <1>1 DEF Upserting
  <1>3. /\ q \in MerchJobs /\ a \in Merch!Asked /\ Merch!Idle \in MerchJobs
        /\ q.kind = "hours" /\ q.by = p.by /\ q.days = p.days /\ q.left = p.left \ {d}
        /\ a.by = p.by /\ a.days = p.days /\ Merch!Idle.kind = "none"
    BY <1>2 DEF MerchJobs, Upserting, Merch!Asked, Merch!Idle
  <1>4. /\ week' = [week EXCEPT ![d] = p.by]
        /\ UNCHANGED <<rows, status, announced, accounts, primary, lent, menu, deleted, merchClash,
                       merchArrived>>
        /\ \/ /\ p.left \ {d} = {} /\ merchJob' = [merchJob EXCEPT ![r] = Merch!Idle]
              /\ asked' = a
           \/ merchJob' = [merchJob EXCEPT ![r] = q] /\ asked' = asked
    BY <1>2 DEF Merch!UpsertDay, Merch!Left, Merch!Goes, Merch!Row, Merch!Bank, Merch!Menu
  <1> HIDE DEF q, a
  <1>5. PICK j \in {q, Merch!Idle} : merchJob' = [merchJob EXCEPT ![r] = j]
    BY <1>4
  <1>6. /\ merchJob' \in [Reqs -> MerchJobs] /\ merchJob'[r] = j
        /\ \A t \in Reqs : t # r => merchJob'[t] = merchJob[t]
        /\ Kept("register") /\ Kept("status") /\ Kept("accounts")
    BY <1>1, <1>3, <1>5, MerchGoes DEF MerchInv, Merch!Kinds
  <1>7. week' \in [Days -> 0..Bound["merchant"]] /\ asked' \in Merch!Asked
    BY <1>2, <1>3, <1>4 DEF MerchInv, MerchTypes
  <1>8. MerchTypes'
    BY <1>4, <1>6, <1>7 DEF MerchInv, MerchTypes
  <1>9. HoursLane'
    <2> SUFFICES ASSUME "hours" \notin merchClash PROVE HoursLane'
      BY <1>4 DEF HoursLane
    <2>1. /\ \A t \in Reqs : t # r => merchJob'[t].kind # "hours"
          /\ \A e \in p.days \ p.left : week[e] = p.by
      BY <1>1, <1>6 DEF MerchInv, HoursLane, Alone
    <2>2. \A e \in p.days \ (p.left \ {d}) : week'[e] = p.by
      BY <1>2, <1>4, <2>1 DEF MerchInv, MerchTypes
    <2>3. CASE p.left \ {d} = {} /\ merchJob'[r] = Merch!Idle /\ asked' = a
      BY <1>3, <2>1, <2>2, <2>3 DEF HoursLane, Alone
    <2>4. CASE merchJob'[r] = q
      BY <1>3, <2>1, <2>2, <2>4 DEF HoursLane, Alone
    <2>5. r \in DOMAIN merchJob
      BY DEF MerchInv, MerchTypes
    <2> QED
      BY <1>4, <2>3, <2>4, <2>5
  <1> QED
    BY <1>4, <1>6, <1>8, <1>9, RegisterKept, StatusKept, BankKept, MenuKept DEF MerchInv

LEMMA MerchBanks ==
  ASSUME MerchInv, NEW r \in Reqs, NEW a \in BankAccounts,
         Merch!AddBankAccount(r, a) \/ Merch!SetPrimaryBankAccount(r, a)
  PROVE  MerchInv'
  <1>1. PICK op \in {"insert", "update"} :
           Merch!Begin(r, [kind |-> "accounts", step |-> "clear", op |-> op, id |-> a])
    BY DEF Merch!AddBankAccount, Merch!SetPrimaryBankAccount
  <1>2. UNCHANGED <<rows, status, announced, week, asked, accounts, primary, lent, menu, deleted>>
    BY DEF Merch!AddBankAccount, Merch!SetPrimaryBankAccount, Merch!Row, Merch!Hours,
           Merch!Bank, Merch!Menu
  <1> DEFINE q == [kind |-> "accounts", step |-> "clear", op |-> op, id |-> a]
  <1>3. q \in MerchJobs /\ q.kind = "accounts" /\ q.step = "clear"
    BY DEF MerchJobs, Banking
  <1>4. Merch!Begin(r, q)
    BY <1>1
  <1> HIDE DEF q
  <1>5. /\ merchJob' \in [Reqs -> MerchJobs] /\ merchJob'[r] = q
        /\ \A t \in Reqs : t # r => merchJob'[t] = merchJob[t]
        /\ Kept("register") /\ Kept("status") /\ Kept("hours")
        /\ merchClash \subseteq merchClash' /\ merchClash' \subseteq Merch!Kinds
        /\ merchArrived' \in 0..Bound["merchant"]
        /\ \/ "accounts" \in merchClash'
           \/ \A t \in Reqs : merchJob[t].kind # "accounts"
    BY <1>3, <1>4, MerchBegins DEF MerchInv, Merch!Kinds
  <1>6. MerchTypes'
    BY <1>2, <1>5 DEF MerchInv, MerchTypes
  <1>7. BankLane'
    BY <1>2, <1>3, <1>5 DEF MerchInv, BankLane, Alone
  <1> QED
    BY <1>2, <1>5, <1>6, <1>7, RegisterKept, StatusKept, HoursKept, MenuKept DEF MerchInv

LEMMA MerchClears ==
  ASSUME MerchInv, NEW r \in Reqs, Merch!ClearPrimary(r)
  PROVE  MerchInv'
  <1> DEFINE p == merchJob[r]
             q == [kind |-> "accounts", step |-> "write", op |-> p.op, id |-> p.id]
  <1>1. p \in Banking /\ p.kind = "accounts"
    BY MerchKinds DEF Merch!ClearPrimary, MerchInv, MerchTypes
  <1>2. /\ q \in MerchJobs /\ q.kind = "accounts" /\ q.step = "write"
        /\ [p EXCEPT !.step = "write"] = q
    BY <1>1 DEF MerchJobs, Banking
  <1>3. /\ merchJob' = [merchJob EXCEPT ![r] = q] /\ primary' = {} /\ lent' = {}
        /\ UNCHANGED <<rows, status, announced, week, asked, accounts, menu, deleted,
                       merchClash, merchArrived>>
    BY <1>2 DEF Merch!ClearPrimary, Merch!Cleared, Merch!Goes, Merch!Row, Merch!Hours, Merch!Menu
  <1> HIDE DEF q
  <1>4. /\ merchJob' \in [Reqs -> MerchJobs] /\ merchJob'[r] = q
        /\ \A t \in Reqs : t # r => merchJob'[t] = merchJob[t]
        /\ Kept("register") /\ Kept("status") /\ Kept("hours")
    BY <1>1, <1>2, <1>3, MerchGoes DEF MerchInv, Merch!Kinds
  <1>5. MerchTypes'
    BY <1>3, <1>4 DEF MerchInv, MerchTypes
  <1>6. BankLane'
    BY <1>1, <1>2, <1>3, <1>4 DEF MerchInv, BankLane, Alone
  <1> QED
    BY <1>3, <1>4, <1>5, <1>6, RegisterKept, StatusKept, HoursKept, MenuKept DEF MerchInv

LEMMA MerchWrites ==
  ASSUME MerchInv, NEW r \in Reqs, Merch!WriteAccount(r)
  PROVE  MerchInv'
  <1> DEFINE p == merchJob[r]
  <1>1. p \in Banking /\ p.kind = "accounts" /\ p.step = "write"
    BY MerchKinds DEF Merch!WriteAccount, MerchInv, MerchTypes
  <1>2. p.id \in BankAccounts
    BY <1>1 DEF Banking
  <1>3. /\ merchJob' = [merchJob EXCEPT ![r] = Merch!Idle]
        /\ accounts' = accounts \cup {p.id} \/ accounts' = accounts
        /\ primary' = (primary \cup {p.id}) \cap accounts' /\ lent' = lent \ {p.id}
        /\ UNCHANGED <<rows, status, announced, week, asked, menu, deleted,
                       merchClash, merchArrived>>
    BY DEF Merch!WriteAccount, Merch!Goes, Merch!Row, Merch!Hours, Merch!Menu
  <1>4. Merch!Idle \in MerchJobs /\ Merch!Idle.kind = "none"
    BY DEF MerchJobs, Merch!Idle
  <1>5. /\ merchJob' \in [Reqs -> MerchJobs] /\ merchJob'[r] = Merch!Idle
        /\ \A t \in Reqs : t # r => merchJob'[t] = merchJob[t]
        /\ Kept("register") /\ Kept("status") /\ Kept("hours")
    BY <1>1, <1>3, <1>4, MerchGoes DEF MerchInv, Merch!Kinds
  <1>6. lent' \subseteq primary' /\ primary' \subseteq accounts' /\ accounts' \subseteq BankAccounts
    BY <1>2, <1>3 DEF MerchInv, MerchTypes
  <1>7. MerchTypes'
    BY <1>3, <1>5, <1>6 DEF MerchInv, MerchTypes
  <1>8. BankLane'
    BY <1>1, <1>3, <1>4, <1>5 DEF MerchInv, BankLane, Alone
  <1> QED
    BY <1>3, <1>5, <1>7, <1>8, RegisterKept, StatusKept, HoursKept, MenuKept DEF MerchInv

(* Requests of one statement.                                                *)
LEMMA MerchShort ==
  ASSUME MerchInv, Merch!ShortRequests \/ Merch!MenuRequests
  PROVE  MerchInv'
  <1>1. /\ UNCHANGED <<rows, status, announced, week, asked, merchClash, merchJob>>
        /\ merchArrived < Bound["merchant"] /\ merchArrived' = merchArrived + 1
    BY DEF Merch!ShortRequests, Merch!MenuRequests, Merch!AddPlainAccount,
           Merch!SetPrimaryOfAnother, Merch!DeleteBankAccount, Merch!Create, Merch!Update, Merch!Delete,
           Merch!ToggleAvailability, Merch!Edit, Merch!Row, Merch!Hours
  <1>2. merchArrived' \in 0..Bound["merchant"]
    BY <1>1, MerchConstants DEF MerchInv, MerchTypes
  <1>3. /\ Kept("register") /\ Kept("status") /\ Kept("hours") /\ Kept("accounts")
        /\ merchClash \subseteq merchClash'
    BY <1>1 DEF Kept
  <1>4. CASE Merch!ShortRequests
    <2>1. /\ primary' \ lent' \subseteq primary \ lent
          /\ lent' \subseteq primary' /\ primary' \subseteq accounts' /\ accounts' \subseteq BankAccounts
          /\ UNCHANGED <<menu, deleted>>
      BY <1>4 DEF MerchInv, MerchTypes, Merch!ShortRequests, Merch!AddPlainAccount,
                  Merch!SetPrimaryOfAnother, Merch!DeleteBankAccount, Merch!Menu
    <2>2. MerchTypes'
      BY <1>1, <1>2, <2>1 DEF MerchInv, MerchTypes
    <2> QED
      BY <1>1, <1>3, <2>1, <2>2, RegisterKept, StatusKept, HoursKept, BankKept, MenuKept
         DEF MerchInv
  <1>5. CASE Merch!MenuRequests
    <2>1. PICK e \in Merch!Entries, shown \in {"none", "shown", "hidden"} :
             /\ menu' = [menu EXCEPT ![e] = shown] /\ UNCHANGED <<accounts, primary, lent>>
             /\ \/ deleted' = deleted /\ (shown = menu[e] \/ menu[e] = "none")
                \/ deleted' = deleted \cup {e} /\ shown = "hidden"
                \/ deleted' = deleted \ {e}
                \/ deleted' = deleted /\ shown = "hidden"
      <3>1. ASSUME NEW e \in Merch!Entries, Merch!Create(e)
            PROVE  /\ menu' = [menu EXCEPT ![e] = "shown"] /\ menu[e] = "none"
                   /\ UNCHANGED <<accounts, primary, lent, deleted>>
        BY <3>1 DEF Merch!Create, Merch!Edit, Merch!Bank
      <3>2. ASSUME NEW e \in Merch!Entries, Merch!Update(e)
            PROVE  /\ menu' = [menu EXCEPT ![e] = menu[e]]
                   /\ menu[e] \in {"none", "shown", "hidden"}
                   /\ UNCHANGED <<accounts, primary, lent, deleted>>
        BY <3>2 DEF Merch!Update, Merch!Edit, Merch!GivenFields, Merch!Bank, MerchInv, MerchTypes
      <3>3. ASSUME NEW e \in Merch!Entries, Merch!Delete(e)
            PROVE  /\ menu' = [menu EXCEPT ![e] = "hidden"] /\ deleted' = deleted \cup {e}
                   /\ UNCHANGED <<accounts, primary, lent>>
        BY <3>3 DEF Merch!Delete, Merch!Edit, Merch!Bank
      <3>4. ASSUME NEW e \in MenuItems, NEW b \in BOOLEAN, Merch!ToggleAvailability(e, b)
            PROVE  /\ UNCHANGED <<accounts, primary, lent>> /\ e \in Merch!Entries
                   /\ \/ menu' = [menu EXCEPT ![e] = "shown"] /\ deleted' = deleted \ {e}
                      \/ menu' = [menu EXCEPT ![e] = "hidden"] /\ deleted' = deleted
        BY <3>4 DEF Merch!ToggleAvailability, Merch!Edit, Merch!Bank, Merch!Entries
      <3>5. PICK e \in Merch!Entries :
               \/ Merch!Create(e) \/ Merch!Update(e) \/ Merch!Delete(e)
               \/ e \in MenuItems /\ \E b \in BOOLEAN : Merch!ToggleAvailability(e, b)
        BY <1>5 DEF Merch!MenuRequests, Merch!Entries
      <3>6. CASE Merch!Create(e)
        BY <3>1, <3>6
      <3>7. CASE Merch!Update(e)
        BY <3>2, <3>7
      <3>8. CASE Merch!Delete(e)
        BY <3>3, <3>8
      <3>9. CASE e \in MenuItems /\ \E b \in BOOLEAN : Merch!ToggleAvailability(e, b)
        BY <3>4, <3>9
      <3> QED
        BY <3>5, <3>6, <3>7, <3>8, <3>9
    <2>2. menu' \in [Merch!Entries -> {"none", "shown", "hidden"}]
      BY <2>1 DEF MerchInv, MerchTypes
    <2>3. MerchTypes'
      BY <1>1, <1>2, <2>1, <2>2 DEF MerchInv, MerchTypes
    <2>4. /\ menu'[e] = shown
          /\ \A f \in Merch!Entries : f # e => menu'[f] = menu[f]
      BY <2>1 DEF MerchInv, MerchTypes
    <2>5. MenuLane'
      BY <2>1, <2>4 DEF MerchInv, MenuLane, Merch!DeletedHidden
    <2> QED
      BY <1>1, <1>3, <2>1, <2>3, <2>5, RegisterKept, StatusKept, HoursKept, BankKept
         DEF MerchInv
  <1> QED
    BY <1>4, <1>5

(* A request that stops is remembered by its kind.                           *)
LEMMA MerchFaults ==
  ASSUME MerchInv, NEW r \in Reqs, Merch!Stop(r) \/ Merch!ClearFails(r)
  PROVE  MerchInv'
  <1> DEFINE p == merchJob[r]
  <1>1. p \in MerchJobs
    BY DEF MerchInv, MerchTypes
  <1>2. /\ UNCHANGED <<rows, status, announced, week, asked, accounts, primary, lent, menu, deleted,
                       merchArrived>>
        /\ p # Merch!Idle /\ merchClash' = merchClash \cup {p.kind}
    BY DEF Merch!Stop, Merch!ClearFails, Merch!Row, Merch!Hours, Merch!Bank, Merch!Menu, Merch!Idle
  <1>3. p.kind \in Merch!Kinds
    BY <1>1, <1>2, MerchKinds
  <1>4. PICK q \in MerchJobs : /\ merchJob' = [merchJob EXCEPT ![r] = q]
                               /\ q.kind = p.kind \/ q.kind = "none"
    <2>1. Merch!Idle \in MerchJobs /\ Merch!Idle.kind = "none"
      BY DEF MerchJobs, Merch!Idle
    <2>2. CASE Merch!Stop(r)
      BY <2>1, <2>2 DEF Merch!Stop
    <2>3. CASE Merch!ClearFails(r)
      <3> DEFINE q == [kind |-> "accounts", step |-> "write", op |-> p.op, id |-> p.id]
      <3>1. p \in Banking /\ p.kind = "accounts"
        BY <1>1, <2>3, MerchKinds DEF Merch!ClearFails
      <3>2. q \in MerchJobs /\ q.kind = "accounts" /\ [p EXCEPT !.step = "write"] = q
        BY <3>1 DEF MerchJobs, Banking
      <3>3. merchJob' = [merchJob EXCEPT ![r] = q]
        BY <2>3, <3>2 DEF Merch!ClearFails
      <3> QED
        BY <3>1, <3>2, <3>3
    <2> QED
      BY <2>2, <2>3
  <1>5. /\ merchJob' \in [Reqs -> MerchJobs]
        /\ \A s \in Reqs : s # r => merchJob'[s] = merchJob[s]
        /\ merchJob'[r] = q
        /\ \A kind \in Merch!Kinds : kind # p.kind => Kept(kind)
    <2>1. \A kind \in Merch!Kinds : kind # "none"
      BY DEF Merch!Kinds
    <2> QED
      BY <1>4, <2>1, MerchGoes DEF MerchInv
  <1>6. merchClash \subseteq merchClash' /\ p.kind \in merchClash'
    BY <1>2
  <1>7. MerchTypes'
    BY <1>2, <1>3, <1>5 DEF MerchInv, MerchTypes
  <1>8. RegisterLane'
    BY <1>2, <1>5, <1>6, RegisterKept DEF MerchInv, RegisterLane, Merch!Kinds
  <1>9. StatusLane'
    <2>1. CASE p.kind = "status"
      BY <1>2, <1>5, <1>6, <2>1 DEF MerchInv, StatusLane
    <2>2. CASE p.kind # "status"
      BY <1>2, <1>5, <1>6, <2>2, StatusKept DEF MerchInv, Merch!Kinds
    <2> QED
      BY <2>1, <2>2
  <1>10. HoursLane'
    BY <1>2, <1>5, <1>6, HoursKept DEF MerchInv, HoursLane, Merch!Kinds
  <1>11. BankLane'
    BY <1>2, <1>5, <1>6, BankKept DEF MerchInv, BankLane, Merch!Kinds
  <1> QED
    BY <1>2, <1>7, <1>8, <1>9, <1>10, <1>11, MenuKept DEF MerchInv

LEMMA MerchStep == MerchInv /\ [Merch!Next]_merchant => MerchInv'
  <1> SUFFICES ASSUME MerchInv, [Merch!Next]_merchant PROVE MerchInv'
    OBVIOUS
  <1>1. CASE UNCHANGED merchant
    <2>1. /\ UNCHANGED <<rows, status, announced, week, asked, accounts, primary, lent, menu, deleted,
                         merchClash, merchJob, merchArrived>>
      BY <1>1 DEF merchant
    <2> QED
      BY <2>1 DEF MerchInv, MerchTypes, RegisterLane, StatusLane, HoursLane, BankLane, MenuLane,
                  Alone, Merch!DeletedHidden
  <1>2. ASSUME NEW r \in Reqs,
               \/ Merch!MerchantRequests(r) \/ Merch!AccountRequests(r)
               \/ Merch!CreateMerchant(r) \/ Merch!GetByID(r)
               \/ Merch!PublishMerchantUpdated(r) \/ \E d \in Days : Merch!UpsertDay(r, d)
               \/ Merch!ClearPrimary(r) \/ Merch!WriteAccount(r)
               \/ Merch!Stop(r) \/ Merch!ClearFails(r)
        PROVE  MerchInv'
    <2>1. CASE Merch!MerchantRequests(r)
      BY <2>1, MerchRegisters, MerchUpdates, MerchHours DEF Merch!MerchantRequests
    <2>2. CASE Merch!AccountRequests(r)
      BY <2>2, MerchBanks DEF Merch!AccountRequests
    <2> QED
      BY <1>2, <2>1, <2>2, MerchCreates, MerchReads, MerchPublishes, MerchDay, MerchClears,
         MerchWrites, MerchFaults
  <1> QED
    BY <1>1, <1>2, MerchShort DEF Merch!Next

LEMMA MerchInit == Init => MerchInv
  <1> SUFFICES ASSUME Merch!Init PROVE MerchInv
    BY DEF Init
  <1>1. \A r \in Reqs : merchJob[r] = Merch!Idle /\ merchJob[r].kind = "none"
    BY DEF Merch!Init, Merch!Idle
  <1>2. [by |-> 0, days |-> {}] \in Merch!Asked /\ [by |-> 0, days |-> {}].days = {}
    BY MerchConstants DEF Merch!Asked
  <1>3. MerchTypes
    BY <1>2, MerchConstants DEF Merch!Init, MerchTypes, MerchJobs
  <1>4. RegisterLane /\ StatusLane /\ HoursLane /\ BankLane /\ MenuLane
    BY <1>1, <1>2 DEF Merch!Init, RegisterLane, StatusLane, HoursLane, BankLane, MenuLane, Alone,
                      Merch!DeletedHidden
  <1> QED
    BY <1>3, <1>4 DEF MerchInv

LEMMA MerchImplied == MerchInv => Merch!MerchantSafe
  <1> SUFFICES ASSUME MerchInv PROVE Merch!MerchantSafe
    OBVIOUS
  <1>1. Merch!TypeOK
    <2>1. \A r \in Reqs : merchJob[r].kind \in Merch!Kinds \cup {"none"}
      <3> TAKE r \in Reqs
      <3>1. merchJob[r] \in MerchJobs
        BY DEF MerchInv, MerchTypes
      <3> QED
        BY <3>1, MerchKinds DEF Merch!Idle
    <2> QED
      BY <2>1 DEF MerchInv, MerchTypes, MenuLane, Merch!TypeOK
  <1>2. Merch!OneMerchant
    BY DEF MerchInv, MerchTypes, RegisterLane, Merch!OneMerchant
  <1>3. Merch!AnnouncedTrue /\ Merch!WeekHeld
    BY DEF MerchInv, StatusLane, HoursLane, Merch!AnnouncedTrue, Merch!WeekHeld, Merch!Overlapping
  <1>4. Merch!OnePrimary
    <2> DEFINE own == primary \ lent
    <2>1. (\A a, b \in own : a = b) => ~(Cardinality(own) > 1)
      BY SizeOfOne
    <2>2. Merch!Cardinality(own) = Cardinality(own)
      BY DEF Merch!Cardinality, Cardinality
    <2> QED
      BY <2>1, <2>2 DEF MerchInv, BankLane, Merch!OnePrimary
  <1> QED
    BY <1>1, <1>2, <1>3, <1>4 DEF MerchInv, MenuLane, Merch!MerchantSafe

(* A merchant has one row, its last event names its status, its hours are    *)
(* those that were asked for and its own requests leave one primary account, *)
(* unless they overlap or stop half way; what is deleted stays hidden.       *)
THEOREM MerchantSafety == Spec => []MerchantSafe
  <1>1. Init => For("merchant", MerchInv)
    BY MerchInit DEF For
  <1>2. For("merchant", MerchInv) /\ [Next]_vars => For("merchant", MerchInv)'
    BY Moves, MerchStep DEF For
  <1>3. For("merchant", MerchInv) => MerchantSafe
    BY MerchImplied DEF For, MerchantSafe
  <1> QED
    BY <1>1, <1>2, <1>3, PTL DEF Spec
=============================================================================
