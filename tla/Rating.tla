------------------------------- MODULE Rating -------------------------------
(***************************************************************************)
(* rating-service: a submission inserts one row per subject it names, in   *)
(* one transaction.  The unique index is on (order_id, rater_id) alone, so *)
(* that a second row of one rater conflicts whatever subject it is of;     *)
(* every error of an INSERT is answered ALREADY_RATED.                     *)
(***************************************************************************)
EXTENDS Naturals, FiniteSets

CONSTANTS Reqs, Orders, Raters,
          Subjects,     \* drivers and merchants
          MaxRequests,  \* bound on the requests that arrive
          Faults        \* TRUE: statements fail, the process dies

VARIABLES ratings,   \* committed rows, each with the submission that wrote it
          listed,    \* history: the entries of each submission's list
          answers,   \* history: what each submission was answered
          rateJob, rateArrived
rateVars == <<ratings, listed, answers, rateJob, rateArrived>>

Ids == 1..MaxRequests
Rows == [by : Ids, order : Orders, rater : Raters, subject : Subjects]
Idle == [by |-> 0]
NoUuid == "malformed"            \* an entry whose subject_id is no UUID
Entries == Subjects \cup {NoUuid}
Answers == {"none", "submitted", "already_rated", "invalid", "error"}

TypeOK == /\ ratings \subseteq Rows /\ rateArrived \in 0..MaxRequests
          /\ listed \in [Ids -> SUBSET Entries] /\ answers \in [Ids -> Answers]
          /\ \A r \in Reqs : rateJob[r] # Idle =>
                /\ rateJob[r].rows \subseteq Rows /\ rateJob[r].left \subseteq Entries

Init == /\ ratings = {} /\ listed = [i \in Ids |-> {}] /\ answers = [i \in Ids |-> "none"]
        /\ rateJob = [r \in Reqs |-> Idle] /\ rateArrived = 0

(* The list may be empty, and is not looked at before the transaction.       *)
SubmitRating(r, o, u, entries) ==
    /\ rateJob[r] = Idle /\ rateArrived < MaxRequests /\ rateArrived' = rateArrived + 1
    /\ listed' = [listed EXCEPT ![rateArrived'] = entries]
    /\ rateJob' = [rateJob EXCEPT ![r] =
          [by |-> rateArrived', order |-> o, rater |-> u, left |-> entries, rows |-> {}]]
    /\ UNCHANGED <<ratings, answers>>

Answer(r, a) == /\ answers' = [answers EXCEPT ![rateJob[r].by] = a]
                /\ rateJob' = [rateJob EXCEPT ![r] = Idle]
                /\ UNCHANGED <<listed, rateArrived>>

(* Mutant: the table has no unique index. *)
NoIndex(row, rows) == FALSE
(* idx_order_rater: the subject is not part of it. *)
Duplicate(row, rows) == \E x \in rows : x.order = row.order /\ x.rater = row.rater

(* A key that another open transaction has inserted makes this one wait. *)
Locked(r, row) == \E s \in Reqs \ {r} : rateJob[s] # Idle /\ Duplicate(row, rateJob[s].rows)

(* Mutant: the rows are committed one by one. *)
AtOnce(rows) == rows
Pending(rows) == {}

(* The entries are taken in the order of the list, which may be any.         *)
CreateRating(r, s) ==
    LET q == rateJob[r]
        row == [by |-> q.by, order |-> q.order, rater |-> q.rater, subject |-> s] IN
    /\ q # Idle /\ s \in q.left /\ ~Locked(r, row)
    /\ IF Duplicate(row, ratings \cup q.rows) THEN Answer(r, "already_rated") /\ UNCHANGED ratings
       ELSE /\ rateJob' = [rateJob EXCEPT ![r].left = @ \ {s}, ![r].rows = @ \cup {row}]
            /\ ratings' = ratings \cup Pending({row}) /\ UNCHANGED <<listed, answers, rateArrived>>

(* An entry that does not parse ends the transaction after those before it.  *)
RejectEntry(r) == /\ rateJob[r] # Idle /\ NoUuid \in rateJob[r].left
                  /\ Answer(r, "invalid") /\ UNCHANGED ratings

Commit(r) == /\ rateJob[r] # Idle /\ rateJob[r].left = {}
             /\ ratings' = ratings \cup rateJob[r].rows
             /\ Answer(r, "submitted")

(* Any error of an INSERT rolls back and counts as a duplicate; an error of  *)
(* the COMMIT, applied or not, is answered as it is; a death answers nothing.*)
InsertFails(r) == /\ Faults /\ rateJob[r] # Idle /\ rateJob[r].left # {}
                  /\ Answer(r, "already_rated") /\ UNCHANGED ratings
CommitFails(r) == /\ Faults /\ rateJob[r] # Idle /\ rateJob[r].left = {}
                  /\ \/ UNCHANGED ratings
                     \/ ratings' = ratings \cup rateJob[r].rows
                  /\ \E a \in {"error", "none"} : Answer(r, a)
Die(r) == Faults /\ rateJob[r] # Idle /\ Answer(r, "none") /\ UNCHANGED ratings

Next == \E r \in Reqs :
          \/ \E o \in Orders, u \in Raters, entries \in SUBSET Entries : SubmitRating(r, o, u, entries)
          \/ \E s \in Subjects : CreateRating(r, s)
          \/ RejectEntry(r) \/ Commit(r) \/ InsertFails(r) \/ CommitFails(r) \/ Die(r)
Spec == Init /\ [][Next]_rateVars

-----------------------------------------------------------------------------
(* Properties *)

(* No subject of an order is rated twice by a rater, as openapi.yaml has it, *)
(* whatever submissions overlap, fail or are sent again.                     *)
RatedOnce == \A x, y \in ratings :
    x.order = y.order /\ x.rater = y.rater /\ x.subject = y.subject => x = y

Rated(i) == {x.subject : x \in {y \in ratings : y.by = i}}

(* A submission leaves the row of every entry of its list or none at all,    *)
(* wherever an entry conflicts, does not parse or fails.  With the index as  *)
(* it is, a list of two ends in none: its own first row is the conflict.     *)
AllOrNone == \A i \in Ids : Rated(i) \in {{}, listed[i]}

(* Who is told that it is submitted has every row, and who is refused none.  *)
AnswerTruthful == \A i \in Ids :
    /\ answers[i] = "submitted" => Rated(i) = listed[i]
    /\ answers[i] \in {"already_rated", "invalid"} => Rated(i) = {}

(* Together: each subject rated once, lists that are stored whole or not,    *)
(* and answers that are true of the rows.                                    *)
RatingSafe == TypeOK /\ RatedOnce /\ AllOrNone /\ AnswerTruthful

(* What the service promises: a submission is refused as rated before only   *)
(* if an earlier one of that order was accepted.  (openapi.yaml: several     *)
(* subjects, "e.g., driver + merchant for food orders", go in one call.)     *)
RefusedOnlyIfRated == (\E i \in Ids : answers[i] = "already_rated") => ratings # {}
=============================================================================
