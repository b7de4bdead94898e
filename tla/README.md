# Clay: a formal model of the backend

Clay is a super-app backend: some twenty Go services behind a gateway, each
with its own store, calling one another over HTTP and Kafka.  A ride is ordered
and paid in `ride-order-service`, offered to drivers by `matching-service`; a
parcel goes through `delivery-order-service`; a meal also needs its merchant
(`food-order-service`); the money moves through `wallet-service` and
`payment-service`; the other services keep accounts, codes, promos, messages,
rooms, ratings and positions around the orders.  This directory models the
parts that keep shared state and change it concurrently, checks them with TLC
on small instances, and proves most of what the runs check with TLAPS, for every
value of the constants.

Paths in this file are relative to `src/backend/services/` unless they say
otherwise.

## 1. Inventory

| Component | State it keeps | Operations that change it | Hard behaviours | What makes it correct | Module |
|---|---|---|---|---|---|
| ride-order-service | PostgreSQL `ride_orders`, `order_state_logs`, `trip_details` | CreateOrder, CancelOrder, DriverAcceptOrder, DriverRejectOrder, DriverUpdateOrderStatus, InternalAssignDriver, InternalUpdateStatus | every handler reads the row and later writes it with a conditional UPDATE; best-effort log and calls; one attempt to dispatch | the lifecycle holds under every interleaving; only the holder drives an order, unless it was given back under his update; a cancel is final; the log tells the truth | `RideLifecycle`, `RideOrder` |
| delivery-order-service | PostgreSQL `delivery_orders`, logs, details | as ride-order, with proofs of pickup and delivery | as ride-order; photos and fare follow the status one by one | as ride-order; evidence belongs to a step that took place | `DeliveryOrder` |
| food-order-service | PostgreSQL `food_orders`; Redis keys; Kafka events | CreateOrder, merchant confirm/reject/ready, driver pickup/deliver/update, CancelOrder | three actors and unconditional UPDATEs | no stage the handlers ask for is skipped; events are true; food on its way has a driver | `FoodOrder` |
| matching-service | Redis: driver status, geo index, driver lock, pending offer, session, rejections; mode and earnings | GoOnline, GoOffline, UpdateLocation, StartDispatch and its loop, Respond, CancelDispatch, FreeDriver, SetMode | whole hashes read, changed and written back; a loop and answers racing; TTLs; a process that dies | a driver has one order, an order one driver; offers are bounded; searches end; priority mode ends at its target | `Matching`, `DispatchMode`, `Scoring` |
| wallet-service | PostgreSQL `wallets.balance`, `wallet_transactions` | opening, TopUp, Debit, Transfer with compensation | row locks, three transactions in a transfer, crashes between them, repeated calls | the ledger is a chain ending in the balance; no debit overdraws a wallet; a transfer pays, gives back or is reported | `Wallet` |
| payment-service | PostgreSQL methods, charges, refunds, COD verifications, holds, settlements; a limiter in memory; Kafka events | add/default method, COD initiate/OTP/respond, charge, refund, hold/capture/release, settle | statements without a transaction, unconditional UPDATEs, ignored errors | refunds are backed; a hold is captured by few; guesses are counted; events are true | `Payment`, `CodVerification` |
| pkg/idempotency | Redis lock and stored result | Acquire, Complete | a crash between work and Complete, expiry during the work | one execution per life of a lock | `Idempotency` |
| pkg/kafka | consumer position and committed offset | consume loop, commit, flush, Publish | a handler's error is logged and committed; a crash loses the mark of a commit | committed is handled; the topic is read to its end | `KafkaConsumer` |
| auth-service | PostgreSQL users; refresh tokens, sessions and reset tokens in maps of the process; Redis OTP | Register, RequestOTP, VerifyOTP, Login, RefreshToken, Logout(All), RevokeSession, password reset and change | a rotation raced by another one or by a logout | one token per login; none outlives a logout from everywhere | `Auth`, `Otp` |
| sms-service | Redis codes and a rate counter | SendOTP, VerifyOTP | check, store, count and expire are commands of their own | a window grants its limit; a code is good once | `Otp` |
| security-service | PostgreSQL attempts, flags, blocked addresses | RecordLoginAttempt with its rule, create/resolve flag, block/unblock | counting then flagging | the rule fires at its threshold; one verdict per flag; one block in force | `Security` |
| promotion-service | PostgreSQL promos, usages, vouchers | Claim, Apply, Release, admin edits | quota read before the transaction that counts; a release that names one promo and deletes the use of another | the counter is the uses but for mistaken releases; a quota is overrun by the other handlers in flight at most; one use per order | `Promotion` |
| notification-, email-service | PostgreSQL preferences and templates; Redis mail logs | edits, internal send, webhooks | whole rows written back; events twice and out of order; keys that expire | edits are kept; a muted channel stays mute; the time of a delivery is kept | `Notification`, `Email` |
| user-service | PostgreSQL profiles, addresses, documents, drivers, settings | CRUD with a default, referral, verification, going online | look-then-insert, whole-row edits, a default cleared later | one row, one default, edits are kept | `UserProfile`, `Account` |
| merchant-service | PostgreSQL merchants, hours, bank accounts; MongoDB menu; events | registration, status, hours, primary account, menu | two statements for one primary, one of them by the account's id alone; events after the write | one primary, but for those other merchants set; announced statuses are true; deleted stays hidden | `Merchant` |
| chat-service | MongoDB rooms and messages | rooms, closing, send, mark read | rooms created twice, ids drawn before the insert | one room; a message once; read means seen | `Chat` |
| rating-service | PostgreSQL ratings | SubmitRating | several rows in one transaction | a subject is rated once; all rows of a list or none; true answers | `Rating` |
| gateway | Redis counter per route and client | limit, authenticate, proxy | a pipeline that is not a transaction, which renews the minute of whoever it refuses | a window passes its limit; who pauses is let in | `Gateway` |
| tracking-service | Redis position and points, MongoDB routes | Push/Stop | points that arrive during a stop | no point in time is lost | `Tracking` |
| geo-service | positions and ETAs in maps of the process; consumers of four topics | UpdateDriverLocation, the handlers of its topics | restarts that empty the maps, replays, late events | a driver is found where he is known; an ETA ends with its order | `Geo` |
| pricing-service | fare rules | estimates, final fares | rounding, minimums, percentages in two orders | a fare is its quote where the documented formulas apply; further is never cheaper | `Fares` |
| push, history, search, audit-log; pkg/database, acs, middleware, response, validator; Flutter apps; infra; docs | none that decides anything | - | - | - | section 6 |

`PROJECT.json` lists every one of them with its sources and status, and the
hazards with the line at which each bites.

### How the services interact

A user's `CreateOrder` reads the user's active order, debits the wallet when
the order is paid with it, inserts the row and starts a goroutine that asks
matching to dispatch.  Matching creates a session, offers the order to a driver
at a time, and ties the driver who accepts to it by `SETNX` on
`driver:active_order:{driver}`; a callback assigns the driver in ride-order.
The driver then moves the order on, and after the last step ride-order tells
matching to free the driver.  The wallet knows nothing of orders: a debit
carries a reference.  Neither a cancel nor a failed insert refunds the wallet,
and a user's cancel does not free the driver: the code has no such call.
Delivery-order asks nobody to dispatch.  Nothing in the repository publishes
the topics that geo-service consumes, and no service calls pkg/idempotency yet.
The other services share no state with the order services: they are called,
and answer.

## 2. Plan

Done in this order, the most important behaviour first:

1. `RideLifecycle`, `RideOrder`, `RideOrderProofs`: the lifecycle as a
   specification, the interleaved handlers, and the proof that they implement it.
2. `Wallet`, `WalletProofs`: row locks, ledger, transfers and crashes.
3. `Matching`, `MatchingProofs`: the dispatch, its loop, the driver lock, the
   death of the process.
4. `FoodOrder`, `FoodOrderProofs`: three actors and unconditional updates.
5. `Payment`, `CodVerification`: refunds, holds, cash-on-delivery verification.
6. `Idempotency`, `KafkaConsumer` and their proofs: run once, at least once.
7. `DeliveryOrder`, `DeliveryProofs`, with `RideLifecycle` as its abstract
   specification too.
8. `Auth`, `Otp`, `Promotion`, `Security`, `UserProfile`, `Account`,
   `Merchant`, `Rating`, `Chat`, `Notification`, `Email`, `Gateway`,
   `Tracking`, `Geo`, `DispatchMode`.
9. `Fares`, `Scoring`: the formulas, over boundary inputs.
10. `Services`, `Dispatch`: the compositions; `MCServices`, `MCDispatch`, `MCLive`:
    their instances.
11. `ServicesProofs`, `AccountsProofs`, `DispatchProofs`: the properties of the
    composed services, one inductive invariant for each service.

What would come next: the arithmetic of a promo's discount; ride-order's calls
composed with Matching's lock, where a `FreeDriver` that arrives late clears the lock of a
newer order (`match_cancel` shows the same clearing by a cancel).

Modules that hold theorems use no RECURSIVE operator; constants and their
assumptions are declared in the module that needs them.

## 3. Modules

A handler in flight is a record in a slot (`req[r]`, or `...Job[r]`): it reads
in one step, early returns included, and writes in later ones.  Each SQL
statement or transaction that writes, each Redis command that writes and each
critical section of a mutex is a step, unless a module says otherwise below.  A failing statement or a
dying process takes the slot's remaining steps away.

### RideLifecycle (abstract)

`status[o]` and `driver[o]` and the transitions of the State Machine section of
`ride-order-service/openapi.yaml`, as the tables `cancellableStates` and
`driverTransitions` of the code give them.  No handlers, no concurrency.
`InternalTargets` is the set of statuses internal callers ask for:
`InternalUpdateStatus` accepts any status, so the set is a parameter.

### RideOrder

| TLA+ | code (`ride_order_service.go`, `ride_order_repository.go`) |
|---|---|
| `status`, `driver`, `otp` | columns of `ride_orders` |
| `log` | `order_state_logs` |
| `outbox`, `delivered` | goroutines calling matching (`matching_client.go`), one attempt each |
| `refs`, `gopay`, `debited` | order ids handed out, those paid from the wallet, those the wallet was debited for |
| `took` | history: the status changes that took place |
| `crossed` | history: pairs of an order and a driver whose update was pending when an internal caller gave the order back to `finding_driver` |
| `CreateOrder`, `DebitWallet`, `InsertOrder` | `CreateOrder`: read, `debitWallet`, INSERT |
| `CancelOrder`, `DriverAcceptOrder`, `InternalAssignDriver`, `DriverUpdateOrderStatus`, `InternalUpdateStatus` | the reading half of each handler |
| `SetCancelled`, `AssignDriver`, `UpdateStatus` | the conditional UPDATEs with their WHERE clause (`...Matches`) |
| `InsertStateLog`, `CompleteTripEffects` | best-effort steps after the write |
| `Deliver` | the call arrives, or is lost |

Faults: a failing statement, an answer of the wallet that is lost after the
debit, a goroutine or handler that dies.  `debitWallet` with no wallet URL
configured (development mode) is left out.

`InternalUpdateStatus` asks the row for no more than that it is not at its end,
and takes any status (`openapi.yaml:656-658`, `:976-978` list some that are not
final).  Sending an order back to `finding_driver` is how an update of its old
driver can meet a row that has a new one: `UPDATE ... WHERE id AND status`
compares neither driver nor code.  `ride_race` gives internal callers that
status, and `UpdateByHolder` and `EffectsOfCompletion` except the pairs in
`crossed` and nothing else.

### DeliveryOrder

The same shape, without pickup code and without matching, and with evidence
instead: `proof[o]` and `fare[o]` are written after the status they belong to,
by statements that fail or come late.  `picked_up` and `on_delivery` are both
`on_trip` for `RideLifecycle`, so the step between them is a stutter there.  Here
too internal callers ask for any status: a cancel by the user can then meet the
photo of a pickup, but only if the order was sent back from the driver's hands
(`Reopened`), and never that of a delivery.

### Wallet

`lock[u]` is the row lock of `SELECT ... FOR UPDATE`, held until COMMIT or
ROLLBACK.  A transfer is a debit, a credit and, when the credit fails, a credit
back; between them the process may die (`Faults`), which `died` remembers by
the references in flight.  Amounts are of either sign: of the handlers only
`Transfer` (`wallet_handler.go:133`) refuses what is not positive, though
`wallet-service/openapi.yaml:479` says a top-up is 10000 at least.  A top-up of a
negative amount takes money and asks for no balance, and a debit of one gives
money; `NoOverdraft` says that this top-up is all that takes a wallet below zero.
The credit endpoint is not routed by `main.go`, so credits occur only inside
top-ups and transfers.

### FoodOrder

Unlike ride-order, every UPDATE of `food_order_repository.go` names the id
only, so a handler overwrites whatever was written since it read; `had[o]`, a
history variable, keeps every status an order has held, since the row does not.
`From` and `To` are the handlers' status checks and writes, `Effects` the Redis
and Kafka calls after the write, each its own step and each allowed to fail.
`UpdateStatus` ignores the columns its caller hands it: `DriverRejectOrder`
means to clear `driver_id` and does not (`DriverAfter`), which is also why no
race with a pickup leaves food on its way without a driver.  The document
promises refunds for cancels; no code makes them, and none are modelled.
`sent` keeps the last event only, which is enough to judge each one as it is
sent.

The document has `on_delivery` between pickup and delivery
(`food-order-service/openapi.yaml:14`, `:844`); `DriverDeliver`
(`food_order_service.go:458`) takes an order that is merely picked up.  The code and
the document disagree here, and `Stages` claims nothing of that stage.

### Matching

One step is one Redis write with the reads right after it; only a driver's
status hash and her place in the geo index change in one step, as she is
eligible by both or not at all.  `driver:pending_offer` is not kept: only
`GetFullStatus` reads it, and `Respond` judges an answer by the session alone.
The lock's two-hour TTL is not modelled.  `task[o]` is the
goroutine of `broadcastLoop`, `req[r]` a handler in flight, `session[o]` the
hash `matching:session:{o}` with status, candidate and tried count.

`Env` says what callers and time may do, so that each property can be stated
with exactly the disturbances it survives:

| switch | meaning |
|---|---|
| slow | an answer accepted in time is still being written when the loop wakes, two seconds after the offer's deadline |
| twice | a driver sends two answers to one offer |
| offline, free, cancel | GoOffline, FreeDriver, CancelDispatch are called |
| expiry | `driver:status` and ended sessions expire |
| error | `UpdateSession` of an answer fails, after the lock was taken |
| crash | the process dies, its loops and handlers with it; nothing resumes a search |

`Orderly` is the absence of slow, twice, cancel, error and crash.  Each of the
first, the second, error and crash breaks `OneDriverPerOrder` for real: a late,
failed or missing write leaves the session searching while the driver holds
the lock, and a reject that follows an accept reopens the search.  TLC shows
each when the guard is taken off and the switch is put on.

The score only ranks candidates, so `PickNextCandidate` takes any eligible
driver; `Scoring` is about the rank.  The ten-minute TTL of a rejection is not
modelled: searches are shorter.

### DispatchMode and Scoring

`DispatchMode` is one driver's priority mode: status, mode and the day's
earnings are three keys, written by SetMode, GoOnline, GoOffline, heartbeats
and the ends of trips (`FreeDriver`), one command a step, with midnights and
the status key's expiry.  GoOnline's look at the active order is left out (more
behaviours, not fewer; it is in Matching).  `Scoring` evaluates `computeScore`,
the choice of the better of two candidates and `suggestedSurge` over inputs
that straddle every bound of their formulas.

### Money: Payment and CodVerification

A handler of `Payment` is its plan, the statements after its reads in order;
errors of all but the first are ignored.  `captured[h]` and `settled[o]` count
by slot, so that a slot doing twice what it should do once is told from two
slots that overlap.  A capture copies the hold's method, so that a wallet's is
debited and another's is not.

`CodVerification` has the handlers that write back a whole row, and the limiter
of initiations.  `payment-service/main.go:42` gives it `InMemoryRedis`, a map without
a lock whose `Incr` (`internal/cache/redis.go:188`) never looks at the expiry that
`Allow` sets: a count is read, written and read again, two increments can collide
(`collided`), and a count ends with the process and not with the hour that
`Allow` is asked for.  `LimitHolds` is about one life of the process.

### Idempotency and KafkaConsumer

`Idempotency` keeps the lock and the result of a key as two Redis keys with two
lifetimes; callers follow the package's documentation.  `KafkaConsumer` is one
consumer: fetch, handle, commit; a commit is a mark the reader flushes once a
second, a crash loses it, a handler's error is logged and committed, and a
group without an offset starts at the end of the topic.

### Accounts, codes and messages

`Auth` has refresh tokens, sessions and reset tokens in maps under a mutex and
the account as a row; a refresh deletes and issues in two critical sections.
`Otp` is instantiated twice: with `CountFirst` it is auth's `otp.Store`, without
it sms-service.  `Security` has the automatic flag of failed logins, verdicts on
flags and blocked addresses: the column `ip_address` is unique
(`security-service/scripts/init.sql`), so that an address that was unblocked or whose
block expired has a row already, and the INSERT of a new block fails after the
check has let it through.  `UserProfile` and `Account` have the rows of
user-service that are looked for and then inserted, or read, changed and saved
whole; a driver's `verification_status` is set from outside
(`SetVerification`), as no code path of the service does.  `Notification` is
preferences, templates and the send that obeys them; `Email` the two Redis keys
of a mail's log with their seven days and the webhooks.  The provider id in a log
is made up locally (`pkg/acs/acs.go:107-122`, `email_service.go:76`), so what the
provider reports names an id nobody stored (`ProviderReports`), and `HandleWebhook`
is for callers that have read the id in a log.

### Around the orders

`Promotion` (claim, apply, release and administrators' saves of two promos; a
release names a promo and deletes the order's use of whichever, and `drift`
counts what that leaves), `Merchant` (status and event, hours day by day, the
primary account, which another merchant's request can set too, menu), `Chat`
(rooms and messages in MongoDB, with and without their indexes), `Rating`
(a list of subjects in one transaction, empty or malformed too), `Gateway`
(the limiter's pipeline, between whose commands other requests run, for one
counter: of a user on a protected route, or of whatever a client of a public route
calls itself), `Tracking` (a stop archives, deletes and clears in
three calls while points arrive; the module has a Redis client behind the cache,
where `tracking-service/main.go:38` passes nil and every start, push and stop
panics), `Geo` (two maps written by requests and by
consumers that replay), `Fares` (estimates and final fares of pricing and of
the two order services, by rule tables with defaults).

### Compositions

`Services` instantiates the services that share no variables and lets one move
in a behaviour: `focus` names it, the others stay in an initial state.  The
behaviours of the focused service are exactly those of its own specification,
and a property of it is stated where it moves (`For(focus, P)`); elsewhere it
would only be evaluated in an initial state.  `Dispatch` does the same with two
instances of Matching, one for each set of disturbances, and `MCLive` with what
the liveness properties are about.  The variables that would be shared by name
are renamed by INSTANCE ... WITH.  `Services` and `Dispatch` leave every
constant open, so that the theorems are about any values; `MCServices` and
`MCDispatch` give them TLC's.

## 4. Runs

Every bound is in the cfg or in the instance of the MC module.

| run | what it asks | bounds |
|---|---|---|
| ride_race | the inductive invariant (payment before insert, final cancels and a truthful log are parts of it), updates by the holder, effects of completion, no user cancel on a trip, refinement of `RideLifecycle`, under faults and with internal callers that cancel an order or give it back | one order, one user, two drivers, two handlers: every pair of handlers interleaves, and each conditional UPDATE meets each foreign write; internal targets `finding_driver` and `cancelled` (`ResetOrEnd`); a state with a log row is checked and not explored further (`NoLogYet`: nothing reads the log, and a failing INSERT of it leads on) |
| ride_booking (violation) | a user has one active order | two orders of one user |
| wallet_race | inductive invariant, ledger chain, no overdraft by debits, settled and backed transfers while statements fail and the process may die | two wallets, two handlers, two references, amounts one and minus one; a state with more than three ledger rows is checked and not explored further (`FewRows`: a transfer and its top-up, or two debits and theirs, are three) |
| wallet_retry (violation) | a repeated reference is debited once | one reference sent again |
| match_safety | two lanes: orderly answers (inductive invariant, one driver per order, matches final) with GoOffline and expiry; and one driver claimed under late, double and failing answers, FreeDriver and crashes (`UnrulyIsLocked`) | two drivers, one order, two rounds, so that a second candidate exists while the first answers; one driver, two orders, one round, so that two searches offer to her at once |
| match_cancel (violation) | no double assignment | one driver, two orders |
| match_cleanup (violation) | a cancel removes the session | two drivers, one order |
| food_race | inductive invariant (paid before inserted is part of it), no stage skipped but `on_delivery`, truthful events, food on its way has a driver, under faults | one order, one user, one driver, two handlers: each unconditional UPDATE meets each other |
| food_cancel (violation) | no user cancel once preparing | one order |
| live | completed rides and deliveries are settled, new orders are dispatched, searches end (cancelled ones too), a consumer that crashes twice catches up | one order, two handlers, two drivers, two rounds; four messages, one malformed, two crashes |
| services | seventeen properties of the other services, each the conjunction of its module's named parts | two handlers; three to five requests, so that a third handler can meet what two have left; a parcel's order is sent back from the driver's hands once (`SentBackOnce`); about 455 000 states |
| rating_subjects (violation) | a submission is refused only if the order was rated | one submission, two subjects |

The properties of `services`:

| property | what holds |
|---|---|
| `DeliverySafe`, `DeliveryLifecycle` | evidence belongs to steps that took place, a user's cancel comes before the pickup, unless the order had been sent back, and is final, a delivery is paid first; every step is one of the lifecycle |
| `PaymentSafe` | refunds are backed, a hold is captured once but for overlaps and lost marks, an order is settled once but for overlaps, events are true; guesses of a recipient are counted, the limiter holds in one life of the process unless increments collide |
| `OncePerLock` | a key is executed once in each life of its lock |
| `CommittedHandled` | a consumer has handled whatever it committed, and only malformed messages are dropped |
| `PromotionSafe` | the counter is the uses and what releases naming another promo left, a quota is overrun by the other handlers in flight at most, one use per order |
| `AuthSafe`, `OtpSafe` | one refresh token per login, none outlives a logout from everywhere but those being issued, one current session; a window grants its limit, a code is good once, each but for overlaps |
| `MessagesSafe` | preferences and templates keep what was last said, but for stale copies; a mail's log is found by its own id until a key expires or could not be stored, and no event takes back the time of a delivery |
| `SecuritySafe` | the rule fires for every attempt at or past its threshold and no oftener, one verdict, one block in force |
| `ProfileSafe` | one row, one default, one referral, edits are kept, judged documents stay; who is online was verified when it was checked; priority mode lasts from its setting to its target or the end of the shift |
| `MerchantSafe`, `ChatSafe`, `RatingSafe` | one merchant, true events, one primary of its own setting; one room, no message twice, no holes in what is read; no subject rated twice, lists stored whole or not at all, true answers |
| `GatewaySafe` | no window is overrun, and only who sent more than the limit without pausing for a window is refused |
| `FaresSafe` | a fare is its quote where the documented formulas apply, further is never cheaper; a candidate as good in everything is not passed over, surges follow the facts at every boundary |
| `TrackingSafe` | no point that came in time is lost, a route is not replaced by less; a driver is found where he is known, an ETA ends with its order |

Where a race is real the property names it exactly: it holds unless a named
history variable (`crossed`, `mixed`, `collided`, `drift`, `clobbered`, `straddle`,
`raced`, `overlapped`, `lent`, `stuck`, `leftover`, ...) records that handlers
overlapped, a write failed or a call named the wrong object, or it bounds the
damage by the number of handlers in flight.  So each states both
what the code keeps and the only way in which it can lose it.

Handlers of one object interfere pairwise: every interference is between a
read and a later write of one handler with one write of another.  Two slots
show each pair, and longer chains arise because slots are used again.  Symmetry
is used in runs without liveness only.  Deadlock is not checked: the systems
rest when every order has ended, the bounds are used up and no caller asks for
more.

### Violations

Six disagreements between a document and the code; `PROJECT.json` quotes both
sides.  The anti-double-booking key the openapi document describes does not
exist; a food order can be cancelled by its user while it is prepared, because
the cancel overwrites whatever status the row has by then; the debit endpoint
ignores the Idempotency-Key; cancelling a dispatch clears the candidate's lock
whatever order it is for; a cancelled dispatch's session is written back by a
loop or an answer that read it before; and a submission of ratings for driver
and merchant, which the document offers, conflicts with itself, since the
unique index leaves out the rated subject.

### Other disagreements

These have no run.  A module follows the code, and its properties claim nothing
of what the document adds; where one holds only up to the difference, its
comment says so.

* `food-order-service/openapi.yaml:14`, `:844` put `on_delivery` between pickup and
  delivery; `DriverDeliver` takes an order that is picked up
  (`food_order_service.go:458`).
* `wallet-service/openapi.yaml:479`: a top-up is 10000 at least; the handler takes
  any amount, negative ones too (`wallet_handler.go:53-70`).
* `promotion-service/openapi.yaml:267`, `:354`: a use past the limit is refused; the
  counter is compared before the transaction that increments it, so handlers at
  once overrun it (`QuotaOverrun` says by how many).
* `email-service/openapi.yaml:226-227`: a log has the provider's message id; it has a
  local one (`email_service.go:76`), and no webhook of the provider finds a log.
* `security-service/openapi.yaml:385-416`: an address is refused a block only while it
  is blocked; the unique column of `scripts/init.sql:45` refuses it for ever after.
* `user-service/openapi.yaml:31`, `:448-449`, `:548-549`: drivers are verified and then
  go online; no code path writes `verification_status` (a test sets it in its fake).
* `gateway/middleware/ratelimit.go:22`: a sliding window of a minute; every request,
  a refused one too, renews the expiry of the whole count (`RefusedBusy`).
* `rating-service/openapi.yaml:28`: one rating for each order, rater and subject; the
  index has order and rater (the run `rating_subjects`).
* `pricing-service/openapi.yaml:24-29`: the formula of a delivery knows no service fee
  and insures what is fragile; the code adds the fee at the end (the default rule
  has three percent) and insures a fragile parcel of no value in the quote only.
  The final formulas of the two order services forget the promo.
* `matching-service/openapi.yaml:24`: a driver in priority mode is first whatever the
  distance; in `computeScore` the mode is a weight of a fifth.
* `payment-service/internal/cache/redis.go:82`, `openapi.yaml:234`: three initiations an
  hour; the count in memory never expires.
* `tracking-service/main.go:38` passes nil for the cache, so that every start, push and
  stop of that process panics; `Tracking` is about the service with a cache.
  (`geo-service/main.go:45` has maps in memory, and `Geo` models these.)

### Fairness

In `live`, weak fairness of

* each handler's next step and each goroutine (dispatch calls, broadcast
  loops, the consumer's fetch, handler and commit): Go's scheduler runs what
  can run.  The passing of an offer's deadline is such a step, as it is time;
* the consumer's restart, which its deployment does, and the once-a-second
  flush of its mark.

No fairness of users, drivers or faults; crashes are bounded
(`MaxCrashes`), as a process that crashes for ever makes no progress.

### Hazards without a property, and what the models show of them

`PROJECT.json` lists the hazards the properties are for.  Others were met on
the way; where a module has the behaviour, its property excludes or counts it:

* matching: the driver lock expires after two hours, and a longer trip frees its
  driver (no document bounds a trip).  A trip's end deletes whatever mode the key
  holds, and a FreeDriver or UpdateLocation brings back a status that was deleted
  meanwhile.
* food: CreateOrder sets the active-order key after the row is visible, so a
  quick rejection may clear it first.
* payment: a second default method can be added; a release is written over a
  capture; events are published best effort.
* Kafka: messages published before a group's first commit while its consumer
  is down are skipped; a handler's error is logged and its message committed.
* promotion: a release decrements the promo it names and deletes whatever use the
  order has, so without a use, or with one of another promo, counter and uses
  part (`drift`); an administrator's save writes back the counter it read.
* auth: a logout leaves its session listed, RevokeSession leaves its token,
  and a restart loses all of the maps; the OTP's delete may remove a newer code.
* sms: a process that dies between INCR and EXPIRE leaves a counter without a
  lifetime.
* notification: a preference row that cannot be read is saved as the
  defaults.  email: a webhook that comes before the log is dropped.
* user: a driver who loses the verification stays online, and one who is about
  to go online when he loses it goes (`revoked`).
* merchant: two registrations at once; making an item available revives a
  deleted one; SetPrimaryBankAccount clears `WHERE merchant_id` and sets
  `WHERE id`, so a request that names another merchant's account gives that one a
  second primary (`lent`).
* chat: without its unique index two rooms of one order can exist; a
  participant's own messages are marked as read.
* rating: any error of an insert is answered ALREADY_RATED.
* tracking: an update after the stop starts a new session, which a repeated
  stop archives over the route; a failed archive still clears the points.
* geo: a driver who changes service type stays in the old set; late events
  recreate ETAs.
* pricing: the promo's tenth is taken of different sums before and after.

## 5. Proofs

* `RideOrderProofs`: `Invariance` proves `IInv` inductive.  A handler's read is
  stale by the time it writes, so the invariant says for each pending write:
  either what the handler read still holds, or its WHERE clause cannot match any
  more, because statuses return to `finding_driver` only when an internal caller
  gives the order back, and the pairs of order and driver whose update was pending
  then are in `crossed`.  From it follow the safety theorems and `Refinement`: each
  UPDATE is a step of `RideLifecycle`, everything else a stutter.  The theorems
  hold for any `InternalTargets`.
* `DeliveryProofs`: `DInv` is about what a pending write promises for good: an
  order it advances had a driver, evidence still to be written belongs to a step
  that took place, and no picked-up package returns to before its pickup unless an
  internal caller sent the order back.  `InternalTargets` is any set here too.  `DeliverySafety` and `Refinement`
  (of `RideLifecycle`, over `RideStatus`) follow.
* `WalletProofs`: the slot that holds a row lock is the only one with a
  pending write of that wallet, and what it read is still the balance; so the
  ledger stays a chain, and a debit meets a balance that covers it, under every
  fault and for amounts of either sign.  One
  handler carries a transfer, its phase tells which of the rows of debit, credit
  and return exist, and a debited transfer nobody carries has died or was logged.
  `BackedSafe` and `SettledSafe` are about every set of faults; with lost answers
  of commits ("ack") the properties claim nothing.
* `FoodOrderProofs`: nothing a handler read need still hold when it writes, so
  the invariant speaks of the past: a pending write remembers a status the order
  has held, and the history only grows.  `TableStep` says each write's
  predecessor in the life of an order is then in the history too.
* `MatchingProofs`: `HeldIsLocked` is inductive once no cancel runs: only
  `SETNX` writes an order into a lock, and a process that dies takes its pending
  writes with it.  The rest holds while answers are orderly (in time, once,
  written, no cancels, no crash): the loop's copy of a session is current while
  it is awake, because an answer in flight keeps it asleep; an answer's copy is
  current for the same reason; and every lock has a matched session, an expired
  one, or an answer still being written.  `AssignmentSafe`, `RoundsSafe` and
  `MatchSafe` follow.
* `DispatchProofs`: `UnrulySafe` is `HeldIsLocked` of the second instance.  Its
  theorems are cited by instance name, so what they assume of the constants is
  assumed of the second instance's.
* `ServicesProofs`, `AccountsProofs`: the properties of `services`, stated of
  `Services!Spec` itself.  `Moves` says that a step is one of the service in
  focus; for each service there is one inductive invariant, a lemma for its
  initial states, one for its steps (one case per action), and the theorem.  The
  invariants have the same three parts: the types, with the kinds of records a
  slot can hold; what each slot in flight promises about the rows it has still
  to write; and the property.  Some examples of the second part:
  - pkg/idempotency: only SETNX on a key without a lock begins an execution and
    only an expiry takes a lock away, so executions never outnumber lives;
  - pkg/kafka: everything up to the mark and the committed offset was handled,
    and so was what lies behind the position, but for the message in hand;
  - promotion: the uses of a quota plus the slots that have passed its check
    exceed the quota by the other slots in flight at most, a count over a finite
    set of slots (`IsFiniteSet(Reqs)`); the rows of an order are of one promo, so
    a release leaves counter and uses apart by what `drift` adds, for each promo;
  - payment: a slot captures a hold once, as its plan is a sequence that only
    gets shorter, so `captured` counts slots and more than one means an overlap
    that `was` recorded or a lost mark;
  - auth: a token is drawn with the next generation, so no two slots hold the
    same; a login has at most one live token or handler about to issue one;
  - codes: what a window has granted and what is being granted stay within the
    limit, unless a slot read the counter before it expired;
  - notification, email, rating, security: an edit that an unfinished handler
    has read is in the copy it will write back, or the history variable that
    records the overlap is set already;
  - user, merchant: each kind of request is alone on its row until two of it
    overlap or one stops half way, and until then an edit's copy is the row but
    for the fields it sends.  Of two default addresses one belongs to a handler
    that failed or that is about to make its own the only one;
  - chat: until two requests overlap a room is inserted when there is no other
    and a message when its client id is not there; message ids are drawn in
    order and stored once each;
  - a driver's priority mode: while today's earnings have reached the target,
    the end of a trip still has the mode to read or to delete, unless a handler
    died there or the target was set later (`spared`); what is about to be
    deleted was reached, on the day the handler read;
  - tracking: until a command fails each point sent is safe (in the list, in the
    archive, or late) or with the handler that pushes it, and what a stop holds is
    safe without it; until a point comes late the list, the archive and every
    copy of a stop are one sequence or empty, so no route is replaced by less;
  - geo: what each map shows of a driver is what the last of the first n reports
    of him says; a replay handles a report that is the last again or, after a
    restart, shows a driver the maps had forgotten;
  - gateway: a count is no more than what the client has sent since it paused
    for a window, unless the key is one on which an EXPIRE failed.  The handlers
    between INCR and EXPIRE hold different counts of the key that is there, and a request that passed is a window ago or keeps the key
    until it is.  So two that passed with one count are a window apart, and a
    window, whose counts differ, holds at most the limit of them;
  - pricing, matching's scores, surges: no state to speak of, but divisions of
    products of variables, which SMT does not do.  `Quotient`, `TimesMonotone`
    and `QuotientMonotone` (proved from the definition of `\div`) replace them by
    naturals with bounds; each formula is then a sum of these, and the
    comparisons are linear, for every rule, distance and promo.

Assumptions: the named ASSUMEs of the modules (`None` differs from every
driver and order, bounds are naturals or positive), evaluated by the runs.
`ServicesAssumption` says of the constants what the code's configuration gives:
bounds and limits are naturals, the rule's threshold and the codes' limit are
positive, slots and a promo's orders are finite sets, a new merchant's status is
a status, the targets of priority mode are naturals, and `None` and `"colour"`
name no referrer or plate and no preference.  Distances, minutes, weights,
amounts and the columns of a fare rule are naturals.  Estimated distances are
computed and the order services refuse to complete a trip without a positive
distance and duration; pricing-service itself does not look: `FaresSafety` says
nothing of a request or rule with a negative number, which is no trip or tariff.
`DispatchAssumption` is
Matching's assumption of the second instance.  Constants are otherwise
arbitrary; no other set is assumed finite.

Only model-checked: the liveness properties (fairness and ENABLED are beyond the
prover) and the violation runs.  Every other property of a passing run is a
theorem.

## 6. Not modelled

* push-service: its providers are stubs that always succeed, and the retry
  queue and invalid-token marks of its repository are never called.
* history-service, search-service, audit-log-service: read-only projections,
  stateless queries, append-only inserts.
* pkg/database, acs, middleware, response, validator: connection set-up and
  wrappers of one request.
* geo's routes, geocoding and places (stubs), its distances (floating point)
  and zones (read only).
* the arithmetic of a promo's discount, and the texts, listings and
  descriptive fields of every service; password hashing and token signatures;
  proxying in the gateway.
* pkg/kafka's partitions and batches, which the client library decides.
* the Flutter applications, deployment files and documents.

Inside the modelled services, read-only endpoints, wording and logging are
left out; where a service is "partly" modelled, its note in `PROJECT.json` names
what is missing.
