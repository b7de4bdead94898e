--------------------------------- MODULE Otp ---------------------------------
(***************************************************************************)
(* One-time codes for one contact and purpose, in Redis: auth-service      *)
(* (otp.Store) counts a request and then judges it; sms-service judges it, *)
(* stores the code and counts it last.  Every command is a step.           *)
(***************************************************************************)
EXTENDS Naturals, FiniteSets

CONSTANTS Reqs,
          CountFirst,   \* TRUE: auth-service; FALSE: sms-service
          Limit,        \* codes a window allows (3 a minute; 10 an hour)
          MaxRequests,  \* bound on the requests that arrive
          Faults        \* TRUE: Redis commands fail, processes die

VARIABLES used,         \* the rate counter, 0 when there is no key
          lives,          \* the counter has a time to live
          code,         \* the stored code, 0 for none
          codes,        \* codes generated so far; they are taken to be distinct
          passed,      \* history: requests judged within the limit in this window
          uncounted,    \* history: counts or expiries that failed in this window
          accepted,     \* history: accepted[c], how often code c was good
          undeleted,    \* history: undeleted[c], deletions after it that failed
          otpJob, otpArrived
otpVars == <<used, lives, code, codes, passed, uncounted, accepted, undeleted, otpJob, otpArrived>>

Codes == 1..MaxRequests
Idle == [op |-> "none", code |-> 0]
TypeOK ==
    /\ {used, passed, uncounted} \subseteq Nat /\ lives \in BOOLEAN
    /\ code \in 0..codes /\ codes \in 0..MaxRequests
    /\ accepted \in [Codes -> Nat] /\ undeleted \in [Codes -> Nat]
    /\ otpJob \in [Reqs -> [op : {"none", "count", "expire", "store", "delete"}, code : 0..MaxRequests]]

Init == /\ used = 0 /\ lives = FALSE /\ code = 0 /\ codes = 0 /\ passed = 0 /\ uncounted = 0
        /\ accepted = [c \in Codes |-> 0] /\ undeleted = [c \in Codes |-> 0]
        /\ otpJob = [r \in Reqs |-> Idle] /\ otpArrived = 0

Arrives(r) == otpJob[r] = Idle /\ otpArrived < MaxRequests /\ otpArrived' = otpArrived + 1
Goto(r, op) == otpJob' = [otpJob EXCEPT ![r] = [op |-> op, code |-> 0]]
End(r) == otpJob' = [otpJob EXCEPT ![r] = Idle]
Codeless == UNCHANGED <<code, codes, accepted, undeleted>>

-----------------------------------------------------------------------------
(* Sending a code. *)

(* Mutants: one request more than the limit; the second request sets the     *)
(* counter's life.                                                           *)
OneMore(n) == n <= Limit
OnSecond(n) == n = 2

Below(n) == n < Limit
IsFirst(n) == n = 1

AfterCount == IF CountFirst THEN "store" ELSE "none"

(* What follows the increment that returned n. *)
Counted(r, n) ==
    IF IsFirst(n) THEN Goto(r, "expire") ELSE Goto(r, AfterCount)

(* Generate: INCR returns the count this request is judged by. *)
CountRequest(r) ==
    /\ CountFirst /\ Arrives(r)
    /\ used' = used + 1
    /\ IF Below(used) THEN passed' = passed + 1 /\ Counted(r, used + 1)
                      ELSE UNCHANGED passed /\ End(r)
    /\ Codeless /\ UNCHANGED <<lives, uncounted>>

(* SendOTP, GetRateLimit *)
JudgeRequest(r) ==
    /\ ~CountFirst /\ Arrives(r) /\ Below(used)
    /\ passed' = passed + 1 /\ Goto(r, "store")
    /\ Codeless /\ UNCHANGED <<used, lives, uncounted>>

IncrementRateLimit(r) ==
    /\ otpJob[r].op = "count"
    /\ used' = used + 1 /\ Counted(r, used + 1)
    /\ Codeless /\ UNCHANGED <<lives, passed, uncounted, otpArrived>>

(* EXPIRE on a key that is gone has no effect. *)
SetCounterLife(r) ==
    /\ otpJob[r].op = "expire"
    /\ lives' = (used > 0) /\ Goto(r, AfterCount)
    /\ Codeless /\ UNCHANGED <<used, passed, uncounted, otpArrived>>

StoreCode(r) ==
    /\ otpJob[r].op = "store"
    /\ codes' = codes + 1 /\ code' = codes + 1
    /\ Goto(r, IF CountFirst THEN "none" ELSE "count")
    /\ UNCHANGED <<used, lives, passed, uncounted, accepted, undeleted, otpArrived>>

-----------------------------------------------------------------------------
(* Verifying one. *)

(* GET, and the comparison. *)
Verify(r) ==
    /\ code # 0 /\ Arrives(r)
    /\ accepted' = [accepted EXCEPT ![code] = @ + 1]
    /\ otpJob' = [otpJob EXCEPT ![r] = [op |-> "delete", code |-> code]]
    /\ UNCHANGED <<used, lives, code, codes, passed, uncounted, undeleted>>

(* Mutant: an accepted code is left to its time to live. *)
LeftToExpire(c) == code
Deleted(c) == 0

(* DEL takes whatever code is stored by now. *)
DeleteCode(r) ==
    /\ otpJob[r].op = "delete" /\ End(r)
    /\ code' = Deleted(otpJob[r].code)
    /\ UNCHANGED <<used, lives, codes, passed, uncounted, accepted, undeleted, otpArrived>>

-----------------------------------------------------------------------------
(* A command fails: the errors of EXPIRE and DEL are not looked at, and that *)
(* of sms-service's INCR is only logged; any other ends the request.         *)
Fail(r) ==
    LET q == otpJob[r] IN
    /\ Faults /\ q # Idle
    /\ IF CountFirst /\ q.op = "expire" THEN Goto(r, "store") ELSE End(r)
    /\ uncounted' = IF q.op \in {"count", "expire"} \/ (~CountFirst /\ q.op = "store")
                    THEN uncounted + 1 ELSE uncounted
    /\ undeleted' = IF q.op = "delete" THEN [undeleted EXCEPT ![q.code] = @ + 1] ELSE undeleted
    /\ UNCHANGED <<used, lives, code, codes, passed, accepted, otpArrived>>

CodeExpires == /\ code # 0 /\ code' = 0
               /\ UNCHANGED <<used, lives, codes, passed, uncounted, accepted, undeleted, otpJob, otpArrived>>
CounterExpires ==
    /\ lives /\ lives' = FALSE /\ used' = 0 /\ passed' = 0 /\ uncounted' = 0
    /\ Codeless /\ UNCHANGED <<otpJob, otpArrived>>

Next == CodeExpires \/ CounterExpires
        \/ \E r \in Reqs : \/ CountRequest(r) \/ JudgeRequest(r) \/ IncrementRateLimit(r)
                           \/ SetCounterLife(r) \/ StoreCode(r) \/ Verify(r) \/ DeleteCode(r)
                           \/ Fail(r)
Spec == Init /\ [][Next]_otpVars

-----------------------------------------------------------------------------
(* Properties *)

(* Counting first keeps a window at its limit; judging first lets it run     *)
(* over by the handlers past the check, and by the counts that failed.       *)
WindowHolds ==
    passed <= Limit + (IF CountFirst THEN 0 ELSE Cardinality(Reqs) - 1 + uncounted)

(* A counter without a time to live blocks its contact for good: it exists   *)
(* only while the handler that is to set it is at work, or after it failed.  *)
CounterForgets ==
    used > 0 /\ ~lives => uncounted > 0 \/ \E r \in Reqs : otpJob[r].op = "expire"

(* A code is good once, and again only for handlers that overlap or after    *)
(* one that could not delete it.                                             *)
CodeOnce == \A c \in Codes : accepted[c] <= Cardinality(Reqs) + undeleted[c]

(* Together: a window grants what its limit says, its counter is forgotten   *)
(* in the end, and a code is good once, but for failures and overlaps.       *)
OtpSafe == TypeOK /\ WindowHolds /\ CounterForgets /\ CodeOnce
=============================================================================
