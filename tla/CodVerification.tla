--------------------------- MODULE CodVerification ---------------------------
(***************************************************************************)
(* payment-service, verification of cash-on-delivery recipients.  The rate *)
(* limiter counts in the process's own memory (main.go gives it            *)
(* InMemoryRedis): Incr reads the count, writes it and reads it again with *)
(* no lock, and never looks at the expiry that Allow sets, so the count    *)
(* ends with the process and not with the hour.  The handlers read a whole *)
(* row, change their copy and write it back without a condition, and       *)
(* ignore whether the write succeeded.                                     *)
(***************************************************************************)
EXTENDS Integers

CONSTANTS Ids,          \* verifications
          Reqs,
          maxAttempts,  \* of the rate limiter, 3 in the code
          Guesses,      \* otp_attempts_remaining of a new row, 3 in the code
          MaxCount,     \* bound on the counter of the limiter
          MaxRequests,  \* bound on the requests that arrive
          Faults        \* TRUE: commands fail, the process dies

VARIABLES asks,             \* the limiter's count of a user, lost with the process
          initiated,        \* history: initiations granted since the process started
          collided,            \* history: two increments overlapped since then
          row,              \* row[v] of cod_verifications
          overdue,             \* verifications whose expires_at has passed
          wrong,            \* history: wrong guesses judged, per verification
          handed,             \* history: verifications whose caller was handed a token
          mixed,            \* history: verifications with overlapping or failed writes
          codJob, codArrived

codVars == <<asks, initiated, collided, row, overdue, wrong, handed, mixed, codJob, codArrived>>

Statuses == {"none", "pending", "verified", "failed", "accepted", "rejected"}
NoRow == [status |-> "none", left |-> 0, token |-> FALSE]
Free  == [op |-> "none"]
Busy(v) == {r \in Reqs : codJob[r].op = "update" /\ codJob[r].id = v}

TypeOK ==
    /\ asks \in 0..MaxCount /\ initiated \in Nat /\ collided \in BOOLEAN
    /\ row \in [Ids -> [status : Statuses, left : 0..Guesses, token : BOOLEAN]]
    /\ wrong \in [Ids -> Nat] /\ handed \subseteq Ids /\ overdue \subseteq Ids /\ mixed \subseteq Ids
    /\ \A r \in Reqs : codJob[r].op \in {"none", "count", "judge", "insert", "update"}

Init == /\ asks = 0 /\ initiated = 0 /\ collided = FALSE
        /\ row = [v \in Ids |-> NoRow] /\ wrong = [v \in Ids |-> 0]
        /\ handed = {} /\ overdue = {} /\ mixed = {} /\ codArrived = 0
        /\ codJob = [r \in Reqs |-> Free]

Goes(r, job) == codJob' = [codJob EXCEPT ![r] = job]
Arrive(r) == codJob[r] = Free /\ codArrived < MaxRequests /\ codArrived' = codArrived + 1

-----------------------------------------------------------------------------
(* InitiateCodVerification *)

(* Mutant: one initiation too many. *)
AllowOneMore(n) == n <= maxAttempts + 1
Allowed(n) == n <= maxAttempts

(* Incr, as the limiter calls it: the count is read ... *)
Allow(r) ==
    /\ Arrive(r) /\ asks < MaxCount
    /\ Goes(r, [op |-> "count", seen |-> asks])
    /\ collided' = (collided \/ \E s \in Reqs : codJob[s].op = "count")
    /\ UNCHANGED <<overdue, asks, initiated, row, wrong, handed, mixed>>

(* ... written ... *)
Incr(r) ==
    /\ codJob[r].op = "count"
    /\ asks' = codJob[r].seen + 1
    /\ Goes(r, [op |-> "judge"])
    /\ UNCHANGED <<overdue, initiated, collided, row, wrong, handed, mixed, codArrived>>

(* ... and read again for the decision. *)
Judge(r) ==
    /\ codJob[r].op = "judge"
    /\ IF Allowed(asks) THEN Goes(r, [op |-> "insert"]) /\ initiated' = initiated + 1
       ELSE Goes(r, Free) /\ UNCHANGED initiated
    /\ UNCHANGED <<overdue, asks, collided, row, wrong, handed, mixed, codArrived>>

CreateCodVerification(r) ==
    /\ codJob[r].op = "insert"
    /\ \E v \in Ids :
         /\ row[v] = NoRow
         /\ row' = [row EXCEPT ![v] = [status |-> "pending", left |-> Guesses, token |-> FALSE]]
    /\ codJob' = [codJob EXCEPT ![r] = Free]
    /\ UNCHANGED <<overdue, asks, initiated, collided, wrong, handed, mixed, codArrived>>

-----------------------------------------------------------------------------
(* SubmitCodOTP and RespondCodVerification: read, change the copy ... *)

(* Mutant: a wrong guess is not counted on the copy. *)
Uncounted(c) == c
Decremented(c) == [c EXCEPT !.left = @ - 1,
                            !.status = IF c.left = 1 THEN "failed" ELSE @]
(* Mutant: the token is handed out and not put on the row. *)
VerifiedOnly(c) == [c EXCEPT !.status = "verified"]
Verified(c) == [c EXCEPT !.status = "verified", !.token = TRUE]

Begin(r, v, c) ==
    /\ Arrive(r) /\ row[v] # NoRow /\ v \notin overdue
    /\ Goes(r, [op |-> "update", id |-> v, copy |-> c])
    /\ mixed' = IF Busy(v) = {} THEN mixed ELSE mixed \cup {v}
    /\ UNCHANGED <<overdue, asks, initiated, collided, row, handed>>

SubmitCodOTP(r, v, right) ==
    /\ row[v].left > 0
    /\ Begin(r, v, IF right THEN Verified(row[v]) ELSE Decremented(row[v]))
    /\ wrong' = IF right THEN wrong ELSE [wrong EXCEPT ![v] = @ + 1]

RespondCodVerification(r, v, accept) ==
    /\ Begin(r, v, IF accept THEN [row[v] EXCEPT !.status = "accepted", !.token = TRUE]
                             ELSE [row[v] EXCEPT !.status = "rejected"])
    /\ UNCHANGED wrong

(* ... and write it back.  The caller hears of the token whether or not the  *)
(* write succeeded.                                                          *)
UpdateCodVerification(r) ==
    LET v == codJob[r].id  c == codJob[r].copy IN
    /\ codJob[r].op = "update"
    /\ \/ row' = [row EXCEPT ![v] = c] /\ UNCHANGED mixed
       \/ Faults /\ mixed' = mixed \cup {v} /\ UNCHANGED row
    /\ handed' = IF c.status \in {"verified", "accepted"} THEN handed \cup {v} ELSE handed
    /\ codJob' = [codJob EXCEPT ![r] = Free]
    /\ UNCHANGED <<overdue, asks, initiated, collided, wrong, codArrived>>

Die(r) ==
    /\ Faults /\ codJob[r] # Free
    /\ mixed' = IF codJob[r].op = "update" THEN mixed \cup {codJob[r].id} ELSE mixed
    /\ codJob' = [codJob EXCEPT ![r] = Free]
    /\ UNCHANGED <<overdue, asks, initiated, collided, row, wrong, handed, codArrived>>

(* The process ends, by two writes of the map that collide or otherwise, and *)
(* starts again: the count is gone with every handler.                       *)
Restart ==
    /\ Faults
    /\ asks' = 0 /\ initiated' = 0 /\ collided' = FALSE
    /\ mixed' = mixed \cup {v \in Ids : Busy(v) # {}}
    /\ codJob' = [r \in Reqs |-> Free]
    /\ UNCHANGED <<overdue, row, wrong, handed, codArrived>>

Lapse(v) == /\ row[v] # NoRow /\ overdue' = overdue \cup {v}
            /\ UNCHANGED <<asks, initiated, collided, row, wrong, handed, mixed, codJob, codArrived>>

(* The routes of the user, the recipient and the driver's app. *)
Requests(r) == \/ Allow(r)
               \/ \E v \in Ids, yes \in BOOLEAN : \/ SubmitCodOTP(r, v, yes)
                                                  \/ RespondCodVerification(r, v, yes)
Next == \/ Restart
        \/ \E v \in Ids : Lapse(v)
        \/ \E r \in Reqs : \/ Requests(r) \/ Incr(r) \/ Judge(r) \/ CreateCodVerification(r)
                           \/ UpdateCodVerification(r) \/ Die(r)
Spec == Init /\ [][Next]_codVars

-----------------------------------------------------------------------------
(* Properties *)

(* In one life of the process, whatever hour it is, the limiter grants at    *)
(* most maxAttempts initiations, however its callers come and fail, unless   *)
(* two of them incremented the count at once.                                *)
LimitHolds == collided \/ initiated <= maxAttempts

(* While the handlers of a verification do not overlap and their writes      *)
(* arrive, every wrong guess is counted: a recipient has Guesses of them.    *)
GuessesCounted ==
    \A v \in Ids \ mixed : row[v] # NoRow /\ Busy(v) = {} => row[v].left + wrong[v] = Guesses

(* In the same circumstances a token a caller was handed is on the row.      *)
ToldIsSaved == \A v \in (Ids \ mixed) \cap handed : row[v].token

(* Together: initiations that do not collide stay within the limit, a        *)
(* recipient has no more guesses than the row grants, and a token that was   *)
(* handed out is good.                                                       *)
CodSafe == TypeOK /\ LimitHolds /\ GuessesCounted /\ ToldIsSaved
=============================================================================
