------------------------------ MODULE Services -------------------------------
(***************************************************************************)
(* The services that share no state, in one specification.  focus names    *)
(* the service that moves in a behaviour; the others stay in an initial    *)
(* state.  As no action reads a variable of another service, the           *)
(* behaviours of the focused one are exactly those of its own              *)
(* specification.                                                          *)
(***************************************************************************)
EXTENDS Integers, FiniteSets

CONSTANTS Reqs,    \* slots for handlers in flight, of every service
          None,
          Faults,  \* TRUE: statements and calls fail, processes die
          Bound,   \* Bound[f]: the requests that arrive at service f
          Parcels, Senders, Couriers, InternalTargets,  \* delivery-order
          PaidOrders, Holds, Methods, Wallets,  \* payment
          CodIds, maxAttempts, Guesses, MaxCount,  \* payment, cash on delivery
          Keys, MaxRuns,  \* pkg/idempotency
          MaxMessages, MaxCrashes, Malformed,  \* pkg/kafka
          Promos, PromoOrders, PromoUsers, Quotas,  \* promotion
          ResetTokens,  \* auth
          CodeLimit,  \* one-time codes
          Channels,  \* notification
          Emails,  \* email
          Admins, failedLoginThreshold,  \* security
          Referrers, Addresses, Documents,  \* user
          People, Plates, Prefs,  \* user, what users keep about themselves
          MerchantStatuses, Registered, Days, BankAccounts, Categories, MenuItems,  \* merchant
          ChatUser, ChatDriver, Clients, MaxRooms,  \* chat
          RatedOrders, Raters, Subjects,  \* rating
          RateLimit, Window, MaxTime,  \* gateway
          FareRules, Distances, Minutes, Weights, Values, Baskets,  \* pricing
          Ways, Radii, StarRatings, Replies, TripCounts, ZoneCounts,  \* matching, ranks
          Targets, MaxDay,  \* matching, priority mode
          MaxPoints, MaxStops,  \* tracking
          GeoDrivers, ServiceTypes  \* geo

ServiceNames == {"delivery", "payment", "cod", "idempotency", "kafka", "promotion",
                 "auth", "otp", "sms", "notification", "email", "security",
                 "user", "account", "merchant", "chat", "rating", "gateway",
                 "pricing", "scoring", "mode", "tracking", "geo"}
VARIABLES focus,
          refs, gopay, debited, stage, owner, driver, cancelledBy, proof, fare, req, took,
          method, charges, refunds, hold, heldFor, onWallet, settled, captured, was, events,
          payJob, payArrived,
          asks, initiated, collided, row, overdue, wrong, handed, mixed, codJob, codArrived,
          lock, result, runs, lapses, caller,
          published, up, fetchNext, iteration, inHand, unflushed, offset, consumed, origin,
          crashes,
          promo, usage, voucher, expired, drift, clobbered, promoJob, promoArrived,
          cred, tokens, sessions, current, resets, gen, logins, cut, straddle, given, uses,
          cutShort, authJob, authArrived,
          used, lives, code, codes, passed, uncounted, accepted, undeleted, otpJob, otpArrived,
          prefs, template, wish, spoiled, unwanted, offline, stale, noteJob, noteArrived,
          mailIds, sending, mailed, mapped, keyGone, idShown, log, failed, heard, raced,
          mailJob, mailArrived,
          recent, attempts, flags, raised, missed, open, resolver, resolvers, blocked,
          lifted, secJob, secArrived,
          referredBy, referrals, addresses, defaults, unsettled, documents, judged, userJob,
          userArrived,
          profiles, vehicles, approved, onDuty, settings, chosen, overlapped, revoked,
          accountJob, accountArrived,
          rows, status, announced, week, asked, accounts, primary, lent, menu, deleted,
          merchClash, merchJob, merchArrived,
          direct, indexed, rooms, closed, roomDriver, messages, drawn, read, marked, outrun,
          chatClash, chatJob, chatArrived,
          ratings, listed, answers, rateJob, rateArrived,
          clock, count, ttl, burst, pause, stuck, passes, slipped, gateJob, gateArrived,
          trip, quote, bill,
          radius, first, second, best, zone, surge,
          online, target, earnings, day, wanted, overtaken, spared, leftover, modeJob,
          modeArrived,
          position, points, route, sent, stops, archived, tardy, gaps, trackJob,
          drivers, geoSets, etas, reports, handled, committed, assigned, ended, posted, over,
          revived, restarted, geoArrived
deliveryOrder == <<refs, gopay, debited, stage, owner, driver, cancelledBy, proof, fare,
                   req, took>>
payment == <<method, charges, refunds, hold, heldFor, onWallet, settled, captured, was,
             events, payJob, payArrived>>
codVerification == <<asks, initiated, collided, row, overdue, wrong, handed, mixed,
                     codJob, codArrived>>
idempotency == <<lock, result, runs, lapses, caller>>
kafkaConsumer == <<published, up, fetchNext, iteration, inHand, unflushed, offset,
                   consumed, origin, crashes>>
promotion == <<promo, usage, voucher, expired, drift, clobbered, promoJob, promoArrived>>
auth == <<cred, tokens, sessions, current, resets, gen, logins, cut, straddle, given,
          uses, cutShort, authJob, authArrived>>
otp == <<used, lives, code, codes, passed, uncounted, accepted, undeleted, otpJob,
         otpArrived>>
notification == <<prefs, template, wish, spoiled, unwanted, offline, stale, noteJob,
                  noteArrived>>
email == <<mailIds, sending, mailed, mapped, keyGone, idShown, log, failed, heard, raced,
           mailJob, mailArrived>>
security == <<recent, attempts, flags, raised, missed, open, resolver, resolvers,
              blocked, lifted, secJob, secArrived>>
userProfile == <<referredBy, referrals, addresses, defaults, unsettled, documents,
                 judged, userJob, userArrived>>
account == <<profiles, vehicles, approved, onDuty, settings, chosen, overlapped, revoked,
             accountJob, accountArrived>>
merchant == <<rows, status, announced, week, asked, accounts, primary, lent, menu,
              deleted, merchClash, merchJob, merchArrived>>
chat == <<direct, indexed, rooms, closed, roomDriver, messages, drawn, read, marked,
          outrun, chatClash, chatJob, chatArrived>>
rating == <<ratings, listed, answers, rateJob, rateArrived>>
gateway == <<clock, count, ttl, burst, pause, stuck, passes, slipped, gateJob, gateArrived>>
fares == <<trip, quote, bill>>
scoring == <<radius, first, second, best, zone, surge>>
dispatchMode == <<online, target, earnings, day, wanted, overtaken, spared, leftover,
                  modeJob, modeArrived>>
tracking == <<position, points, route, sent, stops, archived, tardy, gaps, trackJob>>
geo == <<drivers, geoSets, etas, reports, handled, committed, assigned, ended, posted,
         over, revived, restarted, geoArrived>>

(* DeliveryProofs extends DeliveryOrder: its theorems are theorems of Ship.  *)
Ship  == INSTANCE DeliveryProofs WITH Orders <- Parcels, Users <- Senders,
                                      Drivers <- Couriers, status <- stage
Pay   == INSTANCE Payment WITH Orders <- PaidOrders, MaxRequests <- Bound["payment"]
Cod   == INSTANCE CodVerification WITH Ids <- CodIds, MaxRequests <- Bound["cod"]
Idem  == INSTANCE Idempotency WITH Callers <- Reqs
Kafka == INSTANCE KafkaConsumer WITH position <- fetchNext, phase <- iteration,
                                     message <- inHand, marked <- unflushed,
                                     committed <- offset, handled <- consumed,
                                     first <- origin
Promo == INSTANCE Promotion WITH Orders <- PromoOrders, Users <- PromoUsers,
                                 MaxRequests <- Bound["promotion"]
Auth  == INSTANCE Auth WITH MaxRequests <- Bound["auth"]
Otp   == INSTANCE Otp WITH CountFirst <- TRUE, Limit <- CodeLimit,
                           MaxRequests <- Bound["otp"]
Sms   == INSTANCE Otp WITH CountFirst <- FALSE, Limit <- CodeLimit,
                           MaxRequests <- Bound["otp"]
Note  == INSTANCE Notification WITH MaxRequests <- Bound["notification"]
Mail  == INSTANCE Email WITH MaxRequests <- Bound["email"]
Sec   == INSTANCE Security WITH MaxRequests <- Bound["security"]
Prof  == INSTANCE UserProfile WITH MaxRequests <- Bound["user"]
Acct  == INSTANCE Account WITH Users <- People, MaxRequests <- Bound["account"]
Merch == INSTANCE Merchant WITH Statuses <- MerchantStatuses, Accounts <- BankAccounts,
                                Items <- MenuItems, MaxRequests <- Bound["merchant"]
Talk  == INSTANCE Chat WITH User <- ChatUser, Driver <- ChatDriver,
                            MaxRequests <- Bound["chat"]
Rate  == INSTANCE Rating WITH Orders <- RatedOrders, MaxRequests <- Bound["rating"]
Gate  == INSTANCE Gateway WITH Limit <- RateLimit, MaxRequests <- Bound["gateway"]
Price == INSTANCE Fares WITH Rows <- FareRules
Score == INSTANCE Scoring WITH Distances <- Ways, Ratings <- StarRatings,
                               Trips <- TripCounts, Counts <- ZoneCounts
Mode  == INSTANCE DispatchMode WITH MaxRequests <- Bound["mode"]
Track == INSTANCE Tracking
Geo   == INSTANCE Geo WITH Drivers <- GeoDrivers, Services <- ServiceTypes,
                           MaxRequests <- Bound["geo"]

ASSUME ServicesAssumption ==
    /\ IsFiniteSet(Reqs) /\ IsFiniteSet(PromoOrders)
    /\ \A f \in ServiceNames : Bound[f] \in Nat
    /\ Quotas \subseteq Nat /\ CodeLimit \in Nat \ {0} /\ failedLoginThreshold \in Nat \ {0}
    /\ maxAttempts \in Nat /\ Guesses \in Nat /\ MaxCount \in Nat /\ MaxMessages \in Nat
    /\ Registered \in MerchantStatuses /\ None \notin Referrers \cup Plates
    /\ "colour" \notin Prefs /\ Targets \subseteq Nat /\ MaxDay \in Nat \ {0}
    /\ MaxPoints \in Nat /\ MaxStops \in Nat
    /\ RateLimit \in Nat /\ Window \in Nat \ {0} /\ MaxTime \in Nat
    /\ Distances \cup Minutes \cup Weights \cup Values \cup Baskets \subseteq Nat
    /\ \A r \in FareRules : {r.base, r.perKm, r.perMin, r.booking, r.feePct, r.min, r.perKg,
                             r.threshold, r.small} \subseteq Nat
    /\ Ways \cup StarRatings \cup Replies \cup TripCounts \cup ZoneCounts \subseteq Nat
    /\ Radii \subseteq Int
    /\ Ship!Constants


Others(f) ==
    /\ IF f = "delivery" THEN TRUE ELSE UNCHANGED deliveryOrder
    /\ IF f = "payment" THEN TRUE ELSE UNCHANGED payment
    /\ IF f = "cod" THEN TRUE ELSE UNCHANGED codVerification
    /\ IF f = "idempotency" THEN TRUE ELSE UNCHANGED idempotency
    /\ IF f = "kafka" THEN TRUE ELSE UNCHANGED kafkaConsumer
    /\ IF f = "promotion" THEN TRUE ELSE UNCHANGED promotion
    /\ IF f = "auth" THEN TRUE ELSE UNCHANGED auth
    /\ IF f \in {"otp", "sms"} THEN TRUE ELSE UNCHANGED otp
    /\ IF f = "notification" THEN TRUE ELSE UNCHANGED notification
    /\ IF f = "email" THEN TRUE ELSE UNCHANGED email
    /\ IF f = "security" THEN TRUE ELSE UNCHANGED security
    /\ IF f = "user" THEN TRUE ELSE UNCHANGED userProfile
    /\ IF f = "account" THEN TRUE ELSE UNCHANGED account
    /\ IF f = "merchant" THEN TRUE ELSE UNCHANGED merchant
    /\ IF f = "chat" THEN TRUE ELSE UNCHANGED chat
    /\ IF f = "rating" THEN TRUE ELSE UNCHANGED rating
    /\ IF f = "gateway" THEN TRUE ELSE UNCHANGED gateway
    /\ IF f = "pricing" THEN TRUE ELSE UNCHANGED fares
    /\ IF f = "scoring" THEN TRUE ELSE UNCHANGED scoring
    /\ IF f = "mode" THEN TRUE ELSE UNCHANGED dispatchMode
    /\ IF f = "tracking" THEN TRUE ELSE UNCHANGED tracking
    /\ IF f = "geo" THEN TRUE ELSE UNCHANGED geo

(* A service that does not move starts in one initial state. *)
Init ==
    /\ focus \in ServiceNames
    /\ Ship!Init
    /\ Pay!Init
    /\ Cod!Init
    /\ Idem!Init
    /\ Kafka!Init
    /\ Promo!Init /\ (focus # "promotion" => \A p \in Promos : promo[p].quota = 1)
    /\ Auth!Init /\ (focus # "auth" => cred = "none")
    /\ Otp!Init
    /\ Note!Init
    /\ Mail!Init
    /\ Sec!Init
    /\ Prof!Init
    /\ Acct!Init
    /\ Merch!Init /\ (focus # "merchant" => rows = 0)
    /\ Talk!Init /\ (focus # "chat" => direct /\ indexed)
    /\ Rate!Init
    /\ Gate!Init
    /\ Price!Init
    /\ Score!Init
    /\ Mode!Init
    /\ Track!Init
    /\ Geo!Init

Next ==
    \/ focus = "delivery" /\ Ship!Next /\ Others("delivery") /\ UNCHANGED focus
    \/ focus = "payment" /\ Pay!Next /\ Others("payment") /\ UNCHANGED focus
    \/ focus = "cod" /\ Cod!Next /\ Others("cod") /\ UNCHANGED focus
    \/ focus = "idempotency" /\ Idem!Next /\ Others("idempotency") /\ UNCHANGED focus
    \/ focus = "kafka" /\ Kafka!Next /\ Others("kafka") /\ UNCHANGED focus
    \/ focus = "promotion" /\ Promo!Next /\ Others("promotion") /\ UNCHANGED focus
    \/ focus = "auth" /\ Auth!Next /\ Others("auth") /\ UNCHANGED focus
    \/ focus = "otp" /\ Otp!Next /\ Others("otp") /\ UNCHANGED focus
    \/ focus = "sms" /\ Sms!Next /\ Others("sms") /\ UNCHANGED focus
    \/ focus = "notification" /\ Note!Next /\ Others("notification") /\ UNCHANGED focus
    \/ focus = "email" /\ Mail!Next /\ Others("email") /\ UNCHANGED focus
    \/ focus = "security" /\ Sec!Next /\ Others("security") /\ UNCHANGED focus
    \/ focus = "user" /\ Prof!Next /\ Others("user") /\ UNCHANGED focus
    \/ focus = "account" /\ Acct!Next /\ Others("account") /\ UNCHANGED focus
    \/ focus = "merchant" /\ Merch!Next /\ Others("merchant") /\ UNCHANGED focus
    \/ focus = "chat" /\ Talk!Next /\ Others("chat") /\ UNCHANGED focus
    \/ focus = "rating" /\ Rate!Next /\ Others("rating") /\ UNCHANGED focus
    \/ focus = "gateway" /\ Gate!Next /\ Others("gateway") /\ UNCHANGED focus
    \/ focus = "pricing" /\ Price!Next /\ Others("pricing") /\ UNCHANGED focus
    \/ focus = "scoring" /\ Score!Next /\ Others("scoring") /\ UNCHANGED focus
    \/ focus = "mode" /\ Mode!Next /\ Others("mode") /\ UNCHANGED focus
    \/ focus = "tracking" /\ Track!Next /\ Others("tracking") /\ UNCHANGED focus
    \/ focus = "geo" /\ Geo!Next /\ Others("geo") /\ UNCHANGED focus

vars == <<focus, deliveryOrder, payment, codVerification, idempotency, kafkaConsumer,
          promotion, auth, otp, notification, email, security, userProfile, account,
          merchant, chat, rating, gateway, fares, scoring, dispatchMode, tracking, geo>>
Spec == Init /\ [][Next]_vars

-----------------------------------------------------------------------------
(* The invariants and action properties the modules state and explain, where *)
(* the module moves: elsewhere it stays in an initial state.                 *)

For(f, P) == focus = f => P

DeliverySafe == For("delivery", Ship!DeliverySafe)
PaymentSafe == For("payment", Pay!PaymentSafe) /\ For("cod", Cod!CodSafe)
OncePerLock == For("idempotency", Idem!OncePerLock)
CommittedHandled == For("kafka", Kafka!CommittedHandled)
PromotionSafe == For("promotion", Promo!PromotionSafe)
AuthSafe == For("auth", Auth!AuthSafe)
OtpSafe == For("otp", Otp!OtpSafe) /\ For("sms", Sms!OtpSafe)
MessagesSafe == For("notification", Note!NotificationSafe) /\ For("email", Mail!EmailSafe)
SecuritySafe == For("security", Sec!SecuritySafe)
ProfileSafe == For("user", Prof!ProfileSafe) /\ For("account", Acct!AccountSafe) /\ For("mode", Mode!ModeSafe)
MerchantSafe == For("merchant", Merch!MerchantSafe)
ChatSafe == For("chat", Talk!ChatSafe)
RatingSafe == For("rating", Rate!RatingSafe)
GatewaySafe == For("gateway", Gate!GatewaySafe)
FaresSafe == For("pricing", Price!FaresSafe) /\ For("scoring", Score!ScoringSafe)
DeliveryLifecycle == Ship!DeliveryLifecycle
TrackingSafe == Track!TrackingSafe /\ []For("geo", Geo!GeoSafe)
=============================================================================
