------------------------------ MODULE Merchant ------------------------------
(***************************************************************************)
(* merchant-service, for one merchant: the status and the events that      *)
(* announce it, the opening hours written day by day, the bank accounts    *)
(* and which is the primary one (two statements without a transaction),    *)
(* and the menu in MongoDB, whose deletions only hide.                     *)
(***************************************************************************)
EXTENDS Naturals, FiniteSets

CONSTANTS Reqs, None,
          Statuses, Registered, \* merchant statuses; the one a new row gets
          Days, Accounts,
          Categories, Items,    \* menu entries
          MaxRequests,          \* bound on the requests that arrive
          Faults                \* TRUE: statements fail, the process dies

VARIABLES rows,        \* merchants rows of this user; what follows is of the first
          status,      \* its status, None before it registers
          announced,   \* the status in the last merchant.updated event
          week,        \* week[d]: the request that wrote day d last
          asked,       \* history: the last hours request that ended, and its days
          accounts, primary,  \* the rows, and those with is_primary
          lent,        \* history: flags set by other merchants' requests since the last clearing
          menu,        \* menu[e]: "none", "shown" or "hidden"
          deleted,     \* history: entries deleted and not made available again
          merchClash,       \* history: kinds of requests that overlapped or stopped half way
          merchJob, merchArrived
merchVars == <<rows, status, announced, week, asked, accounts, primary, lent, menu, deleted,
              merchClash, merchJob, merchArrived>>

Entries == Categories \cup Items
Idle == [kind |-> "none"]
Kinds == {"register", "status", "hours", "accounts"}
Asked == [by : 0..MaxRequests, days : SUBSET Days]

TypeOK ==
    /\ rows \in Nat /\ {status, announced} \subseteq Statuses \cup {None}
    /\ week \in [Days -> 0..MaxRequests] /\ asked \in Asked
    /\ lent \subseteq primary /\ primary \subseteq accounts /\ accounts \subseteq Accounts
    /\ menu \in [Entries -> {"none", "shown", "hidden"}] /\ deleted \subseteq Entries
    /\ merchClash \subseteq Kinds /\ \A r \in Reqs : merchJob[r].kind \in Kinds \cup {"none"}

Init == /\ \/ rows = 0 /\ status = None /\ announced = None
           \/ rows = 1 /\ status = Registered /\ announced = Registered
        /\ week = [d \in Days |-> 0] /\ asked = [by |-> 0, days |-> {}]
        /\ accounts = {} /\ primary = {} /\ lent = {}
        /\ menu = [e \in Entries |-> "none"] /\ deleted = {}
        /\ merchClash = {} /\ merchJob = [r \in Reqs |-> Idle] /\ merchArrived = 0

Overlapping(kind) == \E r \in Reqs : merchJob[r].kind = kind
Begin(r, job) ==
    /\ merchJob[r] = Idle /\ merchArrived < MaxRequests /\ merchArrived' = merchArrived + 1
    /\ merchJob' = [merchJob EXCEPT ![r] = job]
    /\ merchClash' = IF Overlapping(job.kind) THEN merchClash \cup {job.kind} ELSE merchClash
Goes(r, job) == merchJob' = [merchJob EXCEPT ![r] = job] /\ UNCHANGED <<merchClash, merchArrived>>
Hours == <<week, asked>>
Bank == <<accounts, primary, lent>>
Menu == <<menu, deleted>>
Row == <<rows, status, announced>>

-----------------------------------------------------------------------------
(* The merchant's row and its events. *)

(* Mutant: a user may register again. *)
Anyway == TRUE
(* ExistsByUserID found none: only this read keeps a second row out. *)
ExistsNone == rows = 0

RegisterMerchant(r) ==
    /\ ExistsNone /\ Begin(r, [kind |-> "register"])
    /\ UNCHANGED <<Row, Hours, Bank, Menu>>

CreateMerchant(r) ==
    /\ merchJob[r].kind = "register" /\ rows' = rows + 1
    /\ IF rows = 0
       THEN /\ status' = Registered
            /\ Goes(r, [kind |-> "status", step |-> "publish", seen |-> Registered])
       ELSE Goes(r, Idle) /\ UNCHANGED status
    /\ UNCHANGED <<announced, Hours, Bank, Menu>>

(* UpdateMyMerchant and UpdateMerchantStatus: an unconditional UPDATE. *)
UpdateMerchant(r, s) ==
    /\ status # None
    /\ Begin(r, [kind |-> "status", step |-> "read", seen |-> status])
    /\ status' = s /\ UNCHANGED <<rows, announced, Hours, Bank, Menu>>

(* Mutant: the event carries the row as it was read to check the owner. *)
FirstRead(seen) == seen
(* The row is read again after the UPDATE. *)
ReadAgain(seen) == status

GetByID(r) ==
    LET q == merchJob[r] IN
    /\ q.kind = "status" /\ q.step = "read"
    /\ Goes(r, [q EXCEPT !.step = "publish", !.seen = ReadAgain(q.seen)])
    /\ UNCHANGED <<Row, Hours, Bank, Menu>>

PublishMerchantUpdated(r) ==
    LET q == merchJob[r] IN
    /\ q.kind = "status" /\ q.step = "publish" /\ Goes(r, Idle)
    /\ announced' = q.seen /\ UNCHANGED <<rows, status, Hours, Bank, Menu>>

-----------------------------------------------------------------------------
(* The opening hours: one upsert per day of the request, the first that      *)
(* fails ends it.                                                            *)
UpsertOperatingHours(r, days) ==
    /\ status # None /\ days # {}
    /\ Begin(r, [kind |-> "hours", by |-> merchArrived', days |-> days, left |-> days])
    /\ UNCHANGED <<Row, Hours, Bank, Menu>>

(* Mutant: the loop ends a day early. *)
DayEarly(left) == IF Cardinality(left) = 1 THEN {} ELSE left
Left(left) == left

UpsertDay(r, d) ==
    LET q == merchJob[r] left == Left(q.left \ {d}) IN
    /\ q.kind = "hours" /\ d \in q.left
    /\ week' = [week EXCEPT ![d] = q.by]
    /\ IF left = {} THEN Goes(r, Idle) /\ asked' = [by |-> q.by, days |-> q.days]
       ELSE Goes(r, [q EXCEPT !.left = left]) /\ UNCHANGED asked
    /\ UNCHANGED <<Row, Bank, Menu>>

-----------------------------------------------------------------------------
(* The bank accounts. *)
AddBankAccount(r, a) ==
    /\ status # None /\ a \notin accounts
    /\ \A s \in Reqs : merchJob[s].kind = "accounts" => merchJob[s].id # a
    /\ Begin(r, [kind |-> "accounts", step |-> "clear", op |-> "insert", id |-> a])
    /\ UNCHANGED <<Row, Hours, Bank, Menu>>

(* Without SetPrimary it is one INSERT. *)
AddPlainAccount(a) ==
    /\ status # None /\ a \notin accounts /\ merchArrived < MaxRequests /\ merchArrived' = merchArrived + 1
    /\ \A s \in Reqs : merchJob[s].kind = "accounts" => merchJob[s].id # a
    /\ accounts' = accounts \cup {a}
    /\ UNCHANGED <<primary, lent, Row, Hours, Menu, merchClash, merchJob>>

(* The owner of the merchant is checked, the account is not: it may be one   *)
(* of another merchant's, or of nobody's.                                    *)
SetPrimaryBankAccount(r, a) ==
    /\ status # None
    /\ Begin(r, [kind |-> "accounts", step |-> "clear", op |-> "update", id |-> a])
    /\ UNCHANGED <<Row, Hours, Bank, Menu>>

(* Mutant: the other accounts keep the flag. *)
NotCleared == primary
Cleared == {}

ClearPrimary(r) ==
    LET q == merchJob[r] IN
    /\ q.kind = "accounts" /\ q.step = "clear"
    /\ Goes(r, [q EXCEPT !.step = "write"])
    /\ primary' = Cleared /\ lent' = {}
    /\ UNCHANGED <<accounts, Row, Hours, Menu>>

(* The UPDATE finds the row by its id; it matches none of this merchant's    *)
(* when the account is another's, unknown or deleted meanwhile.              *)
WriteAccount(r) ==
    LET q == merchJob[r] IN
    /\ q.kind = "accounts" /\ q.step = "write" /\ Goes(r, Idle)
    /\ accounts' = IF q.op = "insert" THEN accounts \cup {q.id} ELSE accounts
    /\ primary' = (primary \cup {q.id}) \cap accounts' /\ lent' = lent \ {q.id}
    /\ UNCHANGED <<Row, Hours, Menu>>

(* Another merchant's SetPrimaryBankAccount that names this one's account:   *)
(* it clears that merchant's rows, and writes this one.                      *)
SetPrimaryOfAnother(a) ==
    /\ a \in accounts /\ merchArrived < MaxRequests /\ merchArrived' = merchArrived + 1
    /\ primary' = primary \cup {a} /\ lent' = lent \cup ({a} \ primary)
    /\ UNCHANGED <<accounts, Row, Hours, Menu, merchClash, merchJob>>

(* The id alone finds the row, whichever merchant it is of. *)
DeleteBankAccount(a) ==
    /\ a \in accounts /\ merchArrived < MaxRequests /\ merchArrived' = merchArrived + 1
    /\ accounts' = accounts \ {a} /\ primary' = primary \ {a} /\ lent' = lent \ {a}
    /\ UNCHANGED <<Row, Hours, Menu, merchClash, merchJob>>

-----------------------------------------------------------------------------
(* The menu: one command each. *)
Edit(e, shown) ==
    /\ merchArrived < MaxRequests /\ merchArrived' = merchArrived + 1
    /\ menu' = [menu EXCEPT ![e] = shown]
    /\ UNCHANGED <<Row, Hours, Bank, merchClash, merchJob>>

(* CreateCategory, CreateItem: both are shown at once. *)
Create(e) == /\ status # None /\ menu[e] = "none"
             /\ Edit(e, "shown") /\ UNCHANGED deleted

(* Mutant: an update writes a whole document. *)
WholeDocument(e) == "shown"
(* Only the fields of the request are set. *)
GivenFields(e) == menu[e]

(* UpdateCategory, ReorderCategories, UpdateItem. *)
Update(e) == menu[e] # "none" /\ Edit(e, GivenFields(e)) /\ UNCHANGED deleted

(* DeleteCategory clears is_active, DeleteItem is_available. *)
Delete(e) == menu[e] # "none" /\ Edit(e, "hidden") /\ deleted' = deleted \cup {e}

(* A deleted item is an unavailable one: this brings it back. *)
ToggleAvailability(i, available) ==
    /\ menu[i] # "none" /\ Edit(i, IF available THEN "shown" ELSE "hidden")
    /\ deleted' = IF available THEN deleted \ {i} ELSE deleted

-----------------------------------------------------------------------------
(* Faults *)

(* A statement fails, the event is not written or the process dies. *)
Stop(r) ==
    /\ Faults /\ merchJob[r] # Idle
    /\ merchJob' = [merchJob EXCEPT ![r] = Idle] /\ merchClash' = merchClash \cup {merchJob[r].kind}
    /\ UNCHANGED <<Row, Hours, Bank, Menu, merchArrived>>

(* AddBankAccount drops the error of the first statement. *)
ClearFails(r) ==
    LET q == merchJob[r] IN
    /\ Faults /\ q.kind = "accounts" /\ q.step = "clear" /\ q.op = "insert"
    /\ merchJob' = [merchJob EXCEPT ![r].step = "write"] /\ merchClash' = merchClash \cup {"accounts"}
    /\ UNCHANGED <<Row, Hours, Bank, Menu, merchArrived>>

(* The handlers of one request. *)
MerchantRequests(r) == \/ RegisterMerchant(r) \/ \E s \in Statuses : UpdateMerchant(r, s)
                       \/ \E days \in SUBSET Days : UpsertOperatingHours(r, days)
AccountRequests(r) == \E a \in Accounts : AddBankAccount(r, a) \/ SetPrimaryBankAccount(r, a)
ShortRequests == \E a \in Accounts : AddPlainAccount(a) \/ SetPrimaryOfAnother(a) \/ DeleteBankAccount(a)
MenuRequests == \/ \E e \in Entries : Create(e) \/ Update(e) \/ Delete(e)
                \/ \E i \in Items, b \in BOOLEAN : ToggleAvailability(i, b)
Next == \/ \E r \in Reqs : \/ MerchantRequests(r) \/ AccountRequests(r) \/ CreateMerchant(r)
                           \/ GetByID(r) \/ PublishMerchantUpdated(r)
                           \/ \E d \in Days : UpsertDay(r, d)
                           \/ ClearPrimary(r) \/ WriteAccount(r) \/ Stop(r) \/ ClearFails(r)
        \/ ShortRequests \/ MenuRequests
Spec == Init /\ [][Next]_merchVars

-----------------------------------------------------------------------------
(* Properties *)

(* A user with two merchants registered twice at once, or once while the     *)
(* first registration was dying.                                             *)
OneMerchant == rows > 1 => "register" \in merchClash

(* Once nobody is writing it, the last event that was published names the    *)
(* merchant's status, unless updates overlapped or an event was lost.        *)
AnnouncedTrue == announced = status \/ Overlapping("status") \/ "status" \in merchClash

(* Every day a request named holds what the request said, once it has        *)
(* answered, unless another overlapped it or it stopped half way.            *)
WeekHeld == \/ Overlapping("hours") \/ "hours" \in merchClash
            \/ \A d \in asked.days : week[d] = asked.by

(* The merchant's own requests leave it one primary account at most, unless  *)
(* they overlap or an error is dropped; any other was set by a request of    *)
(* another merchant, whose account id nobody checks.                         *)
OnePrimary == Cardinality(primary \ lent) > 1 => "accounts" \in merchClash

(* What was deleted stays hidden until it is made available again. *)
DeletedHidden == \A e \in deleted : menu[e] = "hidden"

(* Together: one merchant for each user, true events, hours as they were     *)
(* asked for, one primary account of its own choice, nothing deleted shown.  *)
MerchantSafe == TypeOK /\ OneMerchant /\ AnnouncedTrue /\ WeekHeld /\ OnePrimary
                /\ DeletedHidden
=============================================================================
