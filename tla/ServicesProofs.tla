--------------------------- MODULE ServicesProofs ---------------------------
(***************************************************************************)
(* Proofs about Services for every value of its constants: any number of   *)
(* handlers, orders, promos, mails, and so on.  Each service has an        *)
(* inductive invariant of its own; Moves says that only the service in     *)
(* focus moves, so the invariants combine.  A handler is a record in a     *)
(* slot of the service: the invariant says what a slot at a statement may  *)
(* rely on, and what an overlap it has met is recorded in.                 *)
(***************************************************************************)
EXTENDS Services, FiniteSetTheorems, SequenceTheorems, TLAPS

(* The service in focus makes a step of its own.                             *)
LEMMA Moves ==
  ASSUME [Next]_vars
  PROVE  /\ focus' = focus
         /\ focus = "delivery" => [Ship!Next]_(Ship!vars)
         /\ focus = "payment" => [Pay!Next]_payment
         /\ focus = "cod" => [Cod!Next]_codVerification
         /\ focus = "idempotency" => [Idem!Next]_idempotency
         /\ focus = "kafka" => [Kafka!Next]_kafkaConsumer
         /\ focus = "promotion" => [Promo!Next]_promotion
         /\ focus = "auth" => [Auth!Next]_auth
         /\ focus = "otp" => [Otp!Next]_otp
         /\ focus = "sms" => [Sms!Next]_otp
         /\ focus = "notification" => [Note!Next]_notification
         /\ focus = "email" => [Mail!Next]_email
         /\ focus = "security" => [Sec!Next]_security
         /\ focus = "user" => [Prof!Next]_userProfile
         /\ focus = "account" => [Acct!Next]_account
         /\ focus = "merchant" => [Merch!Next]_merchant
         /\ focus = "chat" => [Talk!Next]_chat
         /\ focus = "rating" => [Rate!Next]_rating
         /\ focus = "gateway" => [Gate!Next]_gateway
         /\ focus = "pricing" => [Price!Next]_fares
         /\ focus = "scoring" => [Score!Next]_scoring
         /\ focus = "mode" => [Mode!Next]_dispatchMode
  BY DEF Next, vars, Ship!vars, Ship!money, Ship!extras, deliveryOrder

(* What the proofs need of the sizes of sets.                                *)
LEMMA SizeOfPart ==
  ASSUME NEW S, NEW T, IsFiniteSet(S), T \subseteq S
  PROVE  IsFiniteSet(T) /\ Cardinality(T) \in Nat /\ Cardinality(T) <= Cardinality(S)
  BY FS_Subset, FS_CardinalityType

LEMMA SizeLess ==
  ASSUME NEW S, NEW x, IsFiniteSet(S)
  PROVE  /\ IsFiniteSet(S \ {x}) /\ Cardinality(S \ {x}) \in Nat
         /\ Cardinality(S \ {x}) <= Cardinality(S)
         /\ x \in S => Cardinality(S \ {x}) = Cardinality(S) - 1
         /\ x \notin S => Cardinality(S \ {x}) = Cardinality(S)
  <1>1. Cardinality(S) \in Nat
    BY FS_CardinalityType
  <1>2. Cardinality(S \ {x}) = IF x \in S THEN Cardinality(S) - 1 ELSE Cardinality(S)
    BY FS_RemoveElement
  <1>3. IsFiniteSet(S \ {x})
    BY FS_RemoveElement
  <1>4. Cardinality(S \ {x}) \in Nat
    BY <1>3, FS_CardinalityType
  <1> QED
    BY <1>1, <1>2, <1>3, <1>4

LEMMA SizeMore ==
  ASSUME NEW S, NEW x, IsFiniteSet(S), x \notin S
  PROVE  /\ IsFiniteSet(S \cup {x}) /\ Cardinality(S \cup {x}) \in Nat
         /\ Cardinality(S \cup {x}) = Cardinality(S) + 1
  BY FS_AddElement, FS_CardinalityType

LEMMA SizeOfTwo ==
  ASSUME NEW S, NEW T, NEW U, IsFiniteSet(S), T \subseteq S, U \subseteq S, T \cap U = {}
  PROVE  Cardinality(T) + Cardinality(U) <= Cardinality(S)
  <1>1. IsFiniteSet(T) /\ IsFiniteSet(U) /\ T \cup U \subseteq S
    BY SizeOfPart
  <1>2. Cardinality(T) \in Nat
    BY <1>1, SizeOfPart
  <1>3. Cardinality(U) \in Nat
    BY <1>1, SizeOfPart
  <1>4. Cardinality(T \cup U) = Cardinality(T) + Cardinality(U) - Cardinality(T \cap U)
    BY <1>1, FS_Union
  <1>5. Cardinality(T \cap U) = 0
    BY FS_EmptySet
  <1>6. Cardinality(T \cup U) <= Cardinality(S)
    BY <1>1, SizeOfPart
  <1> QED
    BY <1>2, <1>3, <1>4, <1>5, <1>6

LEMMA SizeOfOne ==
  ASSUME NEW S, \A x, y \in S : x = y
  PROVE  /\ IsFiniteSet(S) /\ Cardinality(S) = IF S = {} THEN 0 ELSE 1
  <1>1. CASE S = {}
    BY <1>1, FS_EmptySet
  <1>2. CASE S # {}
    <2>1. PICK x : S = {x}
      BY <1>2
    <2> QED
      BY <2>1, FS_Singleton
  <1> QED
    BY <1>1, <1>2

-----------------------------------------------------------------------------
(* delivery-order-service: DeliveryProofs proves it of every instance; here  *)
(* it moves in some behaviours and rests in its initial state in the others. *)

LEMMA ShipSpec == Spec => Ship!Spec
  <1>1. Init => Ship!Init
    BY DEF Init
  <1>2. [Next]_vars => [Ship!Next]_(Ship!vars)
    BY DEF Next, vars, Others, Ship!vars, Ship!money, Ship!extras, deliveryOrder
  <1> QED
    BY <1>1, <1>2, PTL DEF Spec, Ship!Spec

(* Photos and fares only of what a driver did, a user's cancel before the    *)
(* pickup and for good, no delivery without its debit.                       *)
THEOREM DeliverySafety == Spec => []DeliverySafe
  <1>1. Ship!Spec => []Ship!DeliverySafe
    BY ServicesAssumption, Ship!DeliverySafety
  <1>2. Ship!DeliverySafe => DeliverySafe
    BY DEF DeliverySafe, For
  <1> QED
    BY <1>1, <1>2, ShipSpec, PTL

(* The interleaved delivery handlers implement the lifecycle of a ride.      *)
THEOREM DeliveryRefinement == Spec => DeliveryLifecycle
  <1>1. Ship!Spec => Ship!DeliveryLifecycle
    BY ServicesAssumption, Ship!Refinement
  <1> QED
    BY <1>1, ShipSpec, PTL DEF DeliveryLifecycle

-----------------------------------------------------------------------------
(* pkg/idempotency *)

(* Only SETNX begins an execution, on a key without a lock, and only an      *)
(* expiry takes the lock away.                                               *)
IdemCounts == /\ lock \subseteq Keys
              /\ runs \in [Keys -> Nat] /\ lapses \in [Keys -> Nat]
IdemInv == IdemCounts /\ Idem!OncePerLock

LEMMA IdemSetNX ==
  ASSUME IdemInv, NEW c \in Reqs, NEW k \in Keys, Idem!SetNX(c, k) \/ Idem!SetNXFails(c, k)
  PROVE  IdemInv'
  <1>1. IdemCounts'
    BY DEF IdemInv, IdemCounts, Idem!SetNX, Idem!SetNXFails
  <1>2. Idem!OncePerLock'
    BY DEF IdemInv, IdemCounts, Idem!OncePerLock, Idem!SetNX, Idem!SetNXFails
  <1> QED
    BY <1>1, <1>2 DEF IdemInv

(* What a caller does once SETNX has answered leaves lock and counts alone.  *)
LEMMA IdemCaller ==
  ASSUME IdemInv, NEW c \in Reqs,
         Idem!Get(c) \/ Idem!Work(c) \/ Idem!Complete(c) \/ Idem!Die(c)
  PROVE  IdemInv'
  <1>1. UNCHANGED <<lock, runs, lapses>>
    BY DEF Idem!Get, Idem!Proceeds, Idem!Work, Idem!Complete, Idem!Die
  <1> QED
    BY <1>1 DEF IdemInv, IdemCounts, Idem!OncePerLock

LEMMA IdemExpiry ==
  ASSUME IdemInv, NEW k \in Keys, Idem!LockExpires(k) \/ Idem!ResultExpires(k)
  PROVE  IdemInv'
  <1>1. IdemCounts'
    BY DEF IdemInv, IdemCounts, Idem!LockExpires, Idem!ResultExpires
  <1>2. Idem!OncePerLock'
    BY DEF IdemInv, IdemCounts, Idem!OncePerLock, Idem!LockExpires, Idem!ResultExpires
  <1> QED
    BY <1>1, <1>2 DEF IdemInv

LEMMA IdemStep ==
  ASSUME IdemInv, [Idem!Next]_idempotency
  PROVE  IdemInv'
  <1>1. CASE \E c \in Reqs, k \in Keys : Idem!SetNX(c, k) \/ Idem!SetNXFails(c, k)
    BY <1>1, IdemSetNX
  <1>2. CASE \E c \in Reqs : Idem!Get(c) \/ Idem!Work(c) \/ Idem!Complete(c) \/ Idem!Die(c)
    BY <1>2, IdemCaller
  <1>3. CASE \E k \in Keys : Idem!LockExpires(k) \/ Idem!ResultExpires(k)
    BY <1>3, IdemExpiry
  <1>4. CASE UNCHANGED idempotency
    BY <1>4 DEF idempotency, IdemInv, IdemCounts, Idem!OncePerLock
  <1> QED
    BY <1>1, <1>2, <1>3, <1>4 DEF Idem!Next

(* A key is executed at most once in each life of its lock, whatever fails,  *)
(* for any number of keys and callers.                                       *)
THEOREM IdempotencySafety == Spec => []OncePerLock
  <1>1. Init => For("idempotency", IdemInv)
    BY DEF Init, Idem!Init, For, IdemInv, IdemCounts, Idem!OncePerLock
  <1>2. For("idempotency", IdemInv) /\ [Next]_vars => For("idempotency", IdemInv)'
    BY Moves, IdemStep DEF For
  <1>3. For("idempotency", IdemInv) => OncePerLock
    BY DEF For, OncePerLock, IdemInv
  <1> QED
    BY <1>1, <1>2, <1>3, PTL DEF Spec

-----------------------------------------------------------------------------
(* pkg/kafka *)

(* Everything from the group's first offset up to n was handled.             *)
Seen(n) == \A o \in Kafka!Offsets : origin <= o /\ o <= n => o \in consumed \cup Malformed

Numbers == /\ published \in Nat /\ fetchNext \in Nat /\ inHand \in Nat
           /\ unflushed \in Nat /\ offset \in Nat /\ origin \in Nat
           /\ iteration \in {"fetch", "handle", "commit"} /\ up \in BOOLEAN

(* The consumer works through the topic in order: what lies behind its       *)
(* position was seen, but for the message in its hands.                      *)
ConsumeInv ==
    /\ Numbers
    /\ Seen(offset) /\ Seen(unflushed)
    /\ ~up => unflushed = 0 /\ iteration = "fetch"
    /\ up => /\ fetchNext > 0
             /\ iteration = "fetch" => Seen(fetchNext - 1)
             /\ iteration # "fetch" => inHand = fetchNext - 1 /\ inHand > 0
             /\ iteration = "handle" => Seen(inHand - 1)
             /\ iteration = "commit" => Seen(inHand)

LEMMA Behind0 ==
  ASSUME NEW o \in Kafka!Offsets
  PROVE  ~(o <= 0)
  BY ServicesAssumption DEF Kafka!Offsets

LEMMA ConsumeInit == Init => ConsumeInv
  <1> SUFFICES ASSUME Init PROVE ConsumeInv
    OBVIOUS
  <1>1. Numbers /\ ~up /\ iteration = "fetch" /\ unflushed = 0 /\ offset = 0
    BY DEF Init, Kafka!Init, Numbers
  <1>2. Seen(0)
    BY Behind0 DEF Seen
  <1> QED
    BY <1>1, <1>2 DEF ConsumeInv

LEMMA ConsumeStart ==
  ASSUME ConsumeInv, Kafka!Start
  PROVE  ConsumeInv'
  <1>1. Numbers' /\ fetchNext' > 0 /\ unflushed' = 0 /\ up' /\ iteration' = "fetch"
    BY DEF ConsumeInv, Numbers, Kafka!Start, Kafka!StartOffset
  <1>2. Seen(offset)' /\ Seen(fetchNext - 1)' /\ Seen(unflushed)'
    BY DEF ConsumeInv, Numbers, Kafka!Start, Kafka!StartOffset, Seen, Kafka!Offsets
  <1> QED
    BY <1>1, <1>2 DEF ConsumeInv

LEMMA ConsumeFetch ==
  ASSUME ConsumeInv, Kafka!FetchMessage
  PROVE  ConsumeInv'
  <1>1. /\ Numbers' /\ up' /\ fetchNext' = fetchNext + 1 /\ inHand' = fetchNext
        /\ fetchNext > 0 /\ fetchNext \in Nat
        /\ iteration' = IF fetchNext \in Malformed THEN "commit" ELSE "handle"
    BY DEF ConsumeInv, Numbers, Kafka!FetchMessage, Kafka!After
  <1>2. Seen(offset)' /\ Seen(unflushed)' /\ Seen(fetchNext - 1)
    BY DEF ConsumeInv, Kafka!FetchMessage, Seen
  <1>3. Seen(inHand - 1)'
    BY <1>1, <1>2 DEF Kafka!FetchMessage, Seen
  <1>4. iteration' = "commit" => Seen(inHand)'
    BY <1>1, <1>2 DEF Kafka!FetchMessage, Seen, Kafka!Offsets
  <1> QED
    BY <1>1, <1>2, <1>3, <1>4 DEF ConsumeInv

LEMMA ConsumeHandle ==
  ASSUME ConsumeInv, Kafka!CallHandler
  PROVE  ConsumeInv'
  <1>1. /\ Numbers' /\ up' /\ iteration' = "commit" /\ fetchNext' = fetchNext /\ inHand' = inHand
        /\ fetchNext > 0 /\ inHand = fetchNext - 1 /\ inHand > 0 /\ inHand \in Nat
    BY DEF ConsumeInv, Numbers, Kafka!CallHandler, Kafka!After
  <1>2. Seen(offset)' /\ Seen(unflushed)'
    BY DEF ConsumeInv, Kafka!CallHandler, Seen
  <1>3. Seen(inHand)'
    BY <1>1 DEF ConsumeInv, Kafka!CallHandler, Seen, Kafka!Offsets
  <1> QED
    BY <1>1, <1>2, <1>3 DEF ConsumeInv

LEMMA ConsumeCommit ==
  ASSUME ConsumeInv, Kafka!CommitMessages
  PROVE  ConsumeInv'
  <1>1. /\ Numbers' /\ up' /\ iteration' = "fetch" /\ fetchNext' = fetchNext /\ unflushed' = inHand
        /\ fetchNext > 0 /\ inHand = fetchNext - 1
    BY DEF ConsumeInv, Numbers, Kafka!CommitMessages, Kafka!After
  <1>2. Seen(offset)' /\ Seen(unflushed)' /\ Seen(fetchNext - 1)'
    BY <1>1 DEF ConsumeInv, Kafka!CommitMessages, Seen
  <1> QED
    BY <1>1, <1>2 DEF ConsumeInv

(* Publishing, flushing and dying move nothing that was seen.                *)
LEMMA ConsumeOther ==
  ASSUME ConsumeInv, Kafka!Publish \/ Kafka!Flush \/ Kafka!Crash \/ UNCHANGED kafkaConsumer
  PROVE  ConsumeInv'
  <1>1. CASE Kafka!Publish \/ Kafka!Flush \/ UNCHANGED kafkaConsumer
    BY <1>1 DEF ConsumeInv, Numbers, Seen, Kafka!Publish, Kafka!Flush, kafkaConsumer
  <1>2. CASE Kafka!Crash
    <2>1. /\ Numbers' /\ ~up' /\ iteration' = "fetch" /\ unflushed' = 0
          /\ offset' = offset /\ origin' = origin /\ consumed' = consumed
      BY <1>2 DEF ConsumeInv, Numbers, Kafka!Crash
    <2>2. Seen(offset)' /\ Seen(unflushed)'
      BY <2>1, Behind0 DEF ConsumeInv, Seen
    <2> QED
      BY <2>1, <2>2 DEF ConsumeInv
  <1> QED
    BY <1>1, <1>2

LEMMA ConsumeStep == ConsumeInv /\ [Kafka!Next]_kafkaConsumer => ConsumeInv'
  BY ConsumeStart, ConsumeFetch, ConsumeHandle, ConsumeCommit, ConsumeOther DEF Kafka!Next

(* No crash loses a message between the group's first and committed offset.  *)
THEOREM ConsumerSafety == Spec => []CommittedHandled
  <1>1. Init => For("kafka", ConsumeInv)
    BY ConsumeInit DEF For
  <1>2. For("kafka", ConsumeInv) /\ [Next]_vars => For("kafka", ConsumeInv)'
    BY Moves, ConsumeStep DEF For
  <1>3. For("kafka", ConsumeInv) => CommittedHandled
    BY DEF For, ConsumeInv, CommittedHandled, Kafka!CommittedHandled, Seen
  <1> QED
    BY <1>1, <1>2, <1>3, PTL DEF Spec

-----------------------------------------------------------------------------
(* promotion-service *)

PromoRows == [active : BOOLEAN, quota : Quotas, used : Int]
PromoCopies == [active : BOOLEAN, quota : Quotas \cup {0}, used : Int]
PromoJobs == [op : {"none", "apply", "release", "claim", "save"}, promo : Promos \cup {0},
              id : PromoOrders \cup PromoUsers \cup {0}, copy : PromoCopies]

(* What the request of a slot names, and the quota of the row it read.       *)
PromoJobOK(j) == /\ j.op # "none" => j.promo \in Promos
                 /\ j.op \in {"apply", "release"} => j.id \in PromoOrders
                 /\ j.op = "claim" => j.id \in PromoUsers
                 /\ j.op = "save" => j.copy.quota = promo[j.promo].quota /\ j.copy \in PromoRows

UsingOrders(p) == {o \in PromoOrders : <<o, p>> \in usage}
PastCheck(p) == {r \in Reqs : promoJob[r].op = "apply" /\ promoJob[r].promo = p}

UsesCounted(p) == p \notin clobbered
                    => promo[p].used = Cardinality(UsingOrders(p)) + drift[p]

(* The handlers past the check are counted as if they had written: the last  *)
(* one of them checked when the counter was below the quota.                 *)
QuotaBounded(p) ==
    p \notin clobbered /\ promo[p].quota > 0
      => /\ promo[p].used + Cardinality(PastCheck(p)) <= promo[p].quota + Cardinality(Reqs) - 1
            \/ PastCheck(p) = {}
         /\ promo[p].used <= promo[p].quota + Cardinality(Reqs) - 1

OneUse == \A v, w \in usage : v[1] = w[1] => v = w
OneVoucher == \A u \in PromoUsers : \A p \in Promos : voucher[u][p] <= 1

PromoTypes == /\ promo \in [Promos -> PromoRows]
              /\ usage \subseteq PromoOrders \X Promos
              /\ voucher \in [PromoUsers -> [Promos -> Nat]]
              /\ expired \cup clobbered \subseteq Promos /\ drift \in [Promos -> Int]
              /\ promoJob \in [Reqs -> PromoJobs]
PromoInv == /\ PromoTypes
            /\ \A r \in Reqs : PromoJobOK(promoJob[r])
            /\ OneUse /\ OneVoucher
            /\ \A p \in Promos : UsesCounted(p) /\ QuotaBounded(p)

LEMMA NoPromoJob == Promo!NoJob \in PromoJobs /\ Promo!NoJob.op = "none"
  BY DEF Promo!NoJob, PromoJobs, PromoCopies

LEMMA PromoSets ==
  ASSUME NEW p \in Promos
  PROVE  /\ IsFiniteSet(PastCheck(p)) /\ Cardinality(PastCheck(p)) \in Nat
         /\ Cardinality(PastCheck(p)) <= Cardinality(Reqs)
         /\ Cardinality(PastCheck(p)') \in Nat /\ Cardinality(PastCheck(p)') <= Cardinality(Reqs)
         /\ IsFiniteSet(UsingOrders(p)) /\ Cardinality(UsingOrders(p)) \in Nat
  <1>1. PastCheck(p) \subseteq Reqs /\ PastCheck(p)' \subseteq Reqs
    BY DEF PastCheck
  <1>2. UsingOrders(p) \subseteq PromoOrders
    BY DEF UsingOrders
  <1>3. IsFiniteSet(Reqs) /\ IsFiniteSet(PromoOrders)
    BY ServicesAssumption
  <1> QED
    BY <1>1, <1>2, <1>3, SizeOfPart

LEMMA PromoNumbers ==
  ASSUME PromoTypes, NEW p \in Promos
  PROVE  /\ promo[p].used \in Int /\ promo[p].quota \in Int /\ Cardinality(Reqs) \in Nat
         /\ drift[p] \in Int
  <1>1. \A q \in Quotas : q \in Int
    BY ServicesAssumption
  <1>2. promo[p].used \in Int /\ promo[p].quota \in Quotas /\ drift[p] \in Int
    BY DEF PromoTypes, PromoRows
  <1>3. Cardinality(Reqs) \in Nat
    BY ServicesAssumption, FS_CardinalityType
  <1> QED
    BY <1>1, <1>2, <1>3

(* What a slot's new content does to those past the check.                   *)
LEMMA PromoSlot ==
  ASSUME PromoInv, NEW r \in Reqs, NEW j \in PromoJobs,
         promoJob' = [promoJob EXCEPT ![r] = j]
  PROVE  /\ promoJob' \in [Reqs -> PromoJobs]
         /\ promoJob'[r] = j
         /\ \A s \in Reqs : s # r => promoJob'[s] = promoJob[s]
         /\ \A p \in Promos :
              ~(j.op = "apply" /\ j.promo = p) => PastCheck(p)' = PastCheck(p) \ {r}
  <1>1. /\ promoJob' \in [Reqs -> PromoJobs] /\ promoJob'[r] = j
        /\ \A s \in Reqs : s # r => promoJob'[s] = promoJob[s]
    BY DEF PromoInv, PromoTypes
  <1>2. ASSUME NEW p \in Promos, ~(j.op = "apply" /\ j.promo = p)
        PROVE  PastCheck(p)' = PastCheck(p) \ {r}
    BY <1>1, <1>2 DEF PastCheck
  <1> QED
    BY <1>1, <1>2

(* The bound on a promo's counter, when the counter does not grow while      *)
(* handlers end, when one reads it below the quota, or when one past the     *)
(* check counts its use.                                                     *)
LEMMA QuotaKept ==
  ASSUME PromoInv, NEW p \in Promos, promo'[p].quota = promo[p].quota, promo'[p].used \in Int,
         p \in clobbered => p \in clobbered',
         \/ promo'[p].used = promo[p].used /\ Promo!WithinQuota(promo[p])
         \/ promo'[p].used <= promo[p].used /\ PastCheck(p)' \subseteq PastCheck(p)
         \/ /\ promo'[p].used = promo[p].used + 1
            /\ \E r \in PastCheck(p) : PastCheck(p)' = PastCheck(p) \ {r}
  PROVE  QuotaBounded(p)'
  <1> DEFINE n == Cardinality(Reqs)
             q == promo[p].quota
             u == promo[p].used
             v == promo'[p].used
             a == Cardinality(PastCheck(p))
             k == Cardinality(PastCheck(p)')
  <1>0. PromoTypes
    BY DEF PromoInv
  <1>1. n \in Nat
    BY <1>0, PromoNumbers
  <1>2. q \in Int
    BY <1>0, PromoNumbers
  <1>3. u \in Int
    BY <1>0, PromoNumbers
  <1>4. v \in Int
    OBVIOUS
  <1>5. a \in Nat
    BY PromoSets
  <1>6. k \in Nat
    BY PromoSets
  <1>7. k <= n
    BY PromoSets
  <1> SUFFICES ASSUME p \notin clobbered, q > 0
               PROVE  (v + k <= q + n - 1 \/ PastCheck(p)' = {}) /\ v <= q + n - 1
    BY DEF QuotaBounded
  <1>8. (u + a <= q + n - 1 \/ PastCheck(p) = {}) /\ u <= q + n - 1
    BY DEF PromoInv, QuotaBounded
  <1> HIDE DEF n, q, u, v, a, k
  <1>9. CASE v = u /\ Promo!WithinQuota(promo[p])
    <2>1. u < q
      BY <1>9 DEF Promo!WithinQuota, q, u
    <2> QED
      BY <2>1, <1>1, <1>2, <1>3, <1>6, <1>7, <1>9
  <1>10. CASE v <= u /\ PastCheck(p)' \subseteq PastCheck(p)
    <2>1. k <= a
      BY <1>10, PromoSets, SizeOfPart DEF k, a
    <2>2. PastCheck(p) = {} => PastCheck(p)' = {}
      BY <1>10
    <2> QED
      BY <2>1, <2>2, <1>10, <1>1, <1>2, <1>3, <1>4, <1>5, <1>6, <1>8
  <1>11. CASE v = u + 1 /\ \E r \in PastCheck(p) : PastCheck(p)' = PastCheck(p) \ {r}
    <2>1. k = a - 1 /\ PastCheck(p) # {}
      BY <1>11, PromoSets, SizeLess DEF k, a
    <2> QED
      BY <2>1, <1>11, <1>1, <1>2, <1>3, <1>4, <1>5, <1>6, <1>8
  <1> QED
    BY <1>9, <1>10, <1>11 DEF u, v

(* A promo nothing happens to, but that handlers end.                        *)
LEMMA PromoUntouched ==
  ASSUME PromoInv, NEW p \in Promos, promo'[p] = promo[p], drift'[p] = drift[p],
         p \in clobbered => p \in clobbered', UsingOrders(p)' = UsingOrders(p),
         PastCheck(p)' \subseteq PastCheck(p)
  PROVE  UsesCounted(p)' /\ QuotaBounded(p)'
  <1>1. UsesCounted(p)'
    BY DEF PromoInv, UsesCounted
  <1>2. promo'[p].used \in Int /\ promo'[p].used <= promo[p].used
    BY PromoNumbers DEF PromoInv
  <1> QED
    BY <1>1, <1>2, QuotaKept

(* A slot that ends or reads: no counter moves.                              *)
LEMMA PromoReads ==
  ASSUME PromoInv, NEW r \in Reqs, NEW j \in PromoJobs, PromoJobOK(j),
         promoJob' = [promoJob EXCEPT ![r] = j],
         j.op = "apply" => Promo!WithinQuota(promo[j.promo]),
         UNCHANGED <<promo, usage, expired, drift, clobbered>>,
         voucher' \in [PromoUsers -> [Promos -> Nat]], OneVoucher'
  PROVE  PromoInv'
  <1>1. PromoTypes'
    BY PromoSlot DEF PromoInv, PromoTypes
  <1>2. \A s \in Reqs : PromoJobOK(promoJob[s])'
    BY PromoSlot DEF PromoInv, PromoJobOK
  <1>3. OneUse'
    BY DEF PromoInv, OneUse
  <1>4. ASSUME NEW p \in Promos PROVE UsesCounted(p)' /\ QuotaBounded(p)'
    <2>1. UsesCounted(p)'
      BY DEF PromoInv, UsesCounted, UsingOrders
    <2>2. promo'[p].used \in Int /\ promo'[p].quota = promo[p].quota
          /\ promo'[p].used = promo[p].used
      BY PromoNumbers DEF PromoInv
    <2>3. CASE j.op = "apply" /\ j.promo = p
      <3>1. promo'[p].used = promo[p].used /\ Promo!WithinQuota(promo[p])
        BY <2>2, <2>3
      <3>2. p \in clobbered => p \in clobbered'
        OBVIOUS
      <3> QED
        BY <3>1, <3>2, <2>1, <2>2, QuotaKept
    <2>4. CASE ~(j.op = "apply" /\ j.promo = p)
      <3>1. PastCheck(p)' = PastCheck(p) \ {r}
        BY <2>4, PromoSlot
      <3>2. PastCheck(p)' \subseteq PastCheck(p)
        BY <3>1
      <3>3. promo'[p].used <= promo[p].used
        BY <2>2
      <3>4. p \in clobbered => p \in clobbered'
        OBVIOUS
      <3> QED
        BY <3>2, <3>3, <3>4, <2>1, <2>2, QuotaKept
    <2> QED
      BY <2>1, <2>3, <2>4
  <1> QED
    BY <1>1, <1>2, <1>3, <1>4 DEF PromoInv

LEMMA PromoRequest ==
  ASSUME PromoInv, NEW r \in Reqs, Promo!Requests(r)
  PROVE  PromoInv'
  <1>1. ASSUME NEW op \in {"apply", "release", "claim", "save"}, NEW p \in Promos,
               NEW i \in PromoOrders \cup PromoUsers \cup {0}, NEW c \in PromoRows,
               Promo!Begin(r, op, p, i, c), c.quota = promo[p].quota,
               op \in {"apply", "release"} => i \in PromoOrders,
               op = "claim" => i \in PromoUsers,
               op = "apply" => Promo!WithinQuota(promo[p])
        PROVE  PromoInv'
    <2> DEFINE j == [op |-> op, promo |-> p, id |-> i, copy |-> c]
    <2>1. c \in PromoCopies
      BY DEF PromoRows, PromoCopies
    <2>2. j \in PromoJobs /\ PromoJobOK(j) /\ j.op = op /\ j.promo = p
      BY <1>1, <2>1 DEF PromoJobs, PromoJobOK
    <2>3. voucher' \in [PromoUsers -> [Promos -> Nat]] /\ OneVoucher'
      BY <1>1 DEF PromoInv, PromoTypes, OneVoucher, Promo!Begin
    <2> QED
      BY <1>1, <2>2, <2>3, PromoReads DEF Promo!Begin
  <1>2. \A p \in Promos : promo[p] \in PromoRows
    BY DEF PromoInv, PromoTypes
  <1>3. ASSUME NEW p \in Promos, NEW a \in BOOLEAN
        PROVE  /\ [promo[p] EXCEPT !.active = a] \in PromoRows
               /\ [promo[p] EXCEPT !.active = a].quota = promo[p].quota
    BY <1>2 DEF PromoRows
  <1>4. PICK p \in Promos :
          \/ \E o \in PromoOrders : Promo!ApplyPromo(r, p, o) \/ Promo!ReleasePromo(r, p, o)
          \/ \E u \in PromoUsers : Promo!ClaimVoucher(r, p, u)
          \/ \E a \in BOOLEAN : Promo!UpdatePromo(r, p, a)
    BY DEF Promo!Requests
  <1>5. CASE \E o \in PromoOrders : Promo!ApplyPromo(r, p, o)
    BY <1>5, <1>1, <1>2 DEF Promo!ApplyPromo, Promo!checkEligibility
  <1>6. CASE \E o \in PromoOrders : Promo!ReleasePromo(r, p, o)
    BY <1>6, <1>1, <1>2 DEF Promo!ReleasePromo
  <1>7. CASE \E u \in PromoUsers : Promo!ClaimVoucher(r, p, u)
    BY <1>7, <1>1, <1>2 DEF Promo!ClaimVoucher
  <1>8. CASE \E a \in BOOLEAN : Promo!UpdatePromo(r, p, a)
    <2>1. PICK a \in BOOLEAN : Promo!UpdatePromo(r, p, a)
      BY <1>8
    <2> QED
      BY <2>1, <1>1, <1>3 DEF Promo!UpdatePromo
  <1> QED
    BY <1>4, <1>5, <1>6, <1>7, <1>8

LEMMA PromoNoWrite ==
  ASSUME PromoInv, NEW r \in Reqs, Promo!Finish(r),
         UNCHANGED <<promo, usage, voucher, expired, drift, clobbered>>
  PROVE  PromoInv'
  <1>1. promoJob' = [promoJob EXCEPT ![r] = Promo!NoJob] /\ PromoJobOK(Promo!NoJob)
    BY NoPromoJob DEF Promo!Finish, PromoJobOK
  <1>2. voucher' \in [PromoUsers -> [Promos -> Nat]] /\ OneVoucher'
    BY DEF PromoInv, PromoTypes, OneVoucher
  <1> QED
    BY <1>1, <1>2, NoPromoJob, PromoReads

LEMMA PromoCountUse ==
  ASSUME PromoInv, NEW r \in Reqs, Promo!CountUse(r)
  PROVE  PromoInv'
  <1>1. PICK o \in PromoOrders, p \in Promos :
          o = promoJob[r].id /\ p = promoJob[r].promo /\ promoJob[r].op = "apply"
    BY DEF PromoInv, PromoJobOK, Promo!CountUse
  <1>2. Promo!Finish(r) /\ promoJob' = [promoJob EXCEPT ![r] = Promo!NoJob]
    BY DEF Promo!CountUse, Promo!Finish
  <1>3. CASE Promo!UsesOf(o) # {}
    <2>1. UNCHANGED <<promo, usage, voucher, expired, drift, clobbered>>
      BY <1>1, <1>3 DEF Promo!CountUse, Promo!IsFirstUse
    <2> QED
      BY <2>1, <1>2, PromoNoWrite
  <1>4. CASE Promo!UsesOf(o) = {}
    <2>1. /\ usage' = usage \cup {<<o, p>>} /\ promo' = [promo EXCEPT ![p].used = @ + 1]
          /\ UNCHANGED <<voucher, expired, drift, clobbered>>
      BY <1>1, <1>4 DEF Promo!CountUse, Promo!IsFirstUse
    <2>2. \A q \in Promos : <<o, q>> \notin usage
      BY <1>4 DEF Promo!UsesOf
    <2>3. promo \in [Promos -> PromoRows] /\ promo[p].used \in Int
      BY PromoNumbers DEF PromoInv, PromoTypes
    <2>4. PICK s \in Int : s = promo[p].used + 1
      BY <2>3
    <2>5. promo' = [promo EXCEPT ![p] = [promo[p] EXCEPT !.used = s]]
      BY <2>1, <2>3, <2>4
    <2>6. [promo[p] EXCEPT !.used = s] \in PromoRows
      BY <2>3 DEF PromoRows
    <2>7. /\ promo' \in [Promos -> PromoRows]
          /\ promo'[p].used = s /\ promo'[p].quota = promo[p].quota
          /\ \A q \in Promos : q # p => promo'[q] = promo[q]
          /\ \A q \in Promos : promo'[q].quota = promo[q].quota
      <3>1. /\ promo' \in [Promos -> PromoRows]
            /\ \A q \in Promos : q # p => promo'[q] = promo[q]
        BY <2>3, <2>5, <2>6
      <3>2. promo'[p] = [promo[p] EXCEPT !.used = s] /\ promo[p] \in PromoRows
        BY <2>3, <2>5
      <3>3. promo'[p].used = s /\ promo'[p].quota = promo[p].quota
        BY <3>2 DEF PromoRows
      <3> QED
        BY <3>1, <3>3
    <2>8. PromoTypes'
      BY <2>1, <2>7, <1>2, NoPromoJob, PromoSlot DEF PromoInv, PromoTypes
    <2>9. \A t \in Reqs : PromoJobOK(promoJob[t])'
      BY <2>7, <1>2, NoPromoJob, PromoSlot DEF PromoInv, PromoJobOK
    <2>10. OneUse'
      <3>1. \A w \in usage : w = <<w[1], w[2]>> /\ w[2] \in Promos
        BY DEF PromoInv, PromoTypes
      <3>2. \A w \in usage : w[1] # o
        BY <3>1, <2>2
      <3> QED
        BY <3>2, <2>1 DEF PromoInv, OneUse
    <2>11. OneVoucher'
      BY <2>1 DEF PromoInv, OneVoucher
    <2>12. ASSUME NEW q \in Promos PROVE UsesCounted(q)' /\ QuotaBounded(q)'
      <3>1. PastCheck(q)' = PastCheck(q) \ {r}
        BY <1>2, NoPromoJob, PromoSlot
      <3>2. CASE q # p
        <4>1. UsingOrders(q)' = UsingOrders(q)
          BY <2>1, <3>2 DEF UsingOrders
        <4>2. PastCheck(q)' \subseteq PastCheck(q)
          BY <3>1
        <4> QED
          BY <4>1, <4>2, <2>1, <2>7, <3>2, PromoUntouched
      <3>3. CASE q = p
        <4>1. UsingOrders(p)' = UsingOrders(p) \cup {o} /\ o \notin UsingOrders(p)
          BY <2>1, <2>2 DEF UsingOrders
        <4>2. Cardinality(UsingOrders(p)') = Cardinality(UsingOrders(p)) + 1
          BY <4>1, PromoSets, SizeMore
        <4>3. UsesCounted(p)'
          <5>1. Cardinality(UsingOrders(p)) \in Nat
            BY PromoSets
          <5>2. drift[p] \in Int /\ drift'[p] = drift[p]
            BY <2>1, PromoNumbers DEF PromoInv
          <5>3. p \notin clobbered => promo[p].used = Cardinality(UsingOrders(p)) + drift[p]
            BY DEF PromoInv, UsesCounted
          <5>4. p \notin clobbered =>
                  promo'[p].used = Cardinality(UsingOrders(p)') + drift'[p]
            BY <5>1, <5>2, <5>3, <4>2, <2>4, <2>7
          <5> QED
            BY <5>4, <2>1 DEF UsesCounted
        <4>4. r \in PastCheck(p)
          BY <1>1 DEF PastCheck
        <4>5. QuotaBounded(p)'
          BY <4>4, <3>1, <3>3, <2>1, <2>4, <2>7, QuotaKept
        <4> QED
          BY <4>3, <4>5, <3>3
      <3> QED
        BY <3>2, <3>3
    <2> QED
      BY <2>8, <2>9, <2>10, <2>11, <2>12 DEF PromoInv
  <1> QED
    BY <1>3, <1>4

LEMMA PromoRelease ==
  ASSUME PromoInv, NEW r \in Reqs, Promo!ReleasePromoUsage(r)
  PROVE  PromoInv'
  <1>1. PICK o \in PromoOrders, p \in Promos : o = promoJob[r].id /\ p = promoJob[r].promo
    BY DEF PromoInv, PromoJobOK, Promo!ReleasePromoUsage
  <1>2. promoJob' = [promoJob EXCEPT ![r] = Promo!NoJob]
    BY DEF Promo!ReleasePromoUsage, Promo!Finish
  <1>3. /\ usage' = {w \in usage : w[1] # o} /\ promo' = [promo EXCEPT ![p].used = @ - 1]
        /\ drift' = [q \in Promos |->
                       IF q = p /\ q \notin Promo!UsesOf(o) THEN drift[q] - 1
                       ELSE IF q # p /\ q \in Promo!UsesOf(o) THEN drift[q] + 1 ELSE drift[q]]
        /\ UNCHANGED <<voucher, expired, clobbered>>
    BY <1>1 DEF Promo!ReleasePromoUsage, Promo!Decrement
  <1>4. promo \in [Promos -> PromoRows] /\ \A q \in Promos : promo[q].used \in Int
    BY PromoNumbers DEF PromoInv, PromoTypes
  <1>5. PICK s \in Int : s = promo[p].used - 1
    BY <1>4
  <1>6. /\ promo' \in [Promos -> PromoRows]
        /\ promo'[p].used = s /\ promo'[p].quota = promo[p].quota
        /\ \A q \in Promos : q # p => promo'[q] = promo[q]
        /\ \A q \in Promos : promo'[q].quota = promo[q].quota
    <2>1. promo' = [promo EXCEPT ![p] = [promo[p] EXCEPT !.used = s]]
      BY <1>3, <1>4, <1>5
    <2>2. [promo[p] EXCEPT !.used = s] \in PromoRows
      BY <1>4 DEF PromoRows
    <2>3. promo' \in [Promos -> PromoRows] /\ \A q \in Promos : q # p => promo'[q] = promo[q]
      BY <2>1, <2>2, <1>4
    <2>4. promo'[p] = [promo[p] EXCEPT !.used = s] /\ promo[p] \in PromoRows
      BY <2>1, <1>4
    <2>5. promo'[p].used = s /\ promo'[p].quota = promo[p].quota
      BY <2>4 DEF PromoRows
    <2> QED
      BY <2>3, <2>5
  <1>7. \A q \in Promos : q \in Promo!UsesOf(o) <=> <<o, q>> \in usage
    BY DEF Promo!UsesOf
  <1>8. \A q \in Promos : drift[q] \in Int
    BY PromoNumbers DEF PromoInv
  <1>9. PromoTypes'
    <2>1. drift' \in [Promos -> Int]
      BY <1>3, <1>8
    <2>2. usage' \subseteq PromoOrders \X Promos
      BY <1>3 DEF PromoInv, PromoTypes
    <2> QED
      BY <2>1, <2>2, <1>3, <1>6, <1>2, NoPromoJob, PromoSlot DEF PromoInv, PromoTypes
  <1>10. \A t \in Reqs : PromoJobOK(promoJob[t])'
    BY <1>6, <1>2, NoPromoJob, PromoSlot DEF PromoInv, PromoJobOK
  <1>11. OneUse' /\ OneVoucher'
    BY <1>3 DEF PromoInv, OneUse, OneVoucher
  <1>12. ASSUME NEW q \in Promos PROVE UsesCounted(q)' /\ QuotaBounded(q)'
    <2>1. UsingOrders(q)' = UsingOrders(q) \ {o} /\ (o \in UsingOrders(q) <=> <<o, q>> \in usage)
      BY <1>3 DEF UsingOrders
    <2>2. /\ <<o, q>> \in usage => Cardinality(UsingOrders(q)') = Cardinality(UsingOrders(q)) - 1
          /\ <<o, q>> \notin usage => Cardinality(UsingOrders(q)') = Cardinality(UsingOrders(q))
      BY <2>1, PromoSets, SizeLess
    <2>3. Cardinality(UsingOrders(q)) \in Nat
      BY PromoSets
    <2>4. q \notin clobbered => promo[q].used = Cardinality(UsingOrders(q)) + drift[q]
      BY DEF PromoInv, UsesCounted
    <2>5. drift'[q] = IF q = p /\ <<o, q>> \notin usage THEN drift[q] - 1
                      ELSE IF q # p /\ <<o, q>> \in usage THEN drift[q] + 1 ELSE drift[q]
      BY <1>3, <1>7
    <2>6. promo'[q].used = IF q = p THEN promo[q].used - 1 ELSE promo[q].used
      BY <1>5, <1>6
    <2>7. q \notin clobbered => promo'[q].used = Cardinality(UsingOrders(q)') + drift'[q]
      <3>1. CASE <<o, q>> \in usage
        BY <3>1, <2>2, <2>3, <2>4, <2>5, <2>6, <1>4, <1>8
      <3>2. CASE <<o, q>> \notin usage
        BY <3>2, <2>2, <2>3, <2>4, <2>5, <2>6, <1>4, <1>8
      <3> QED
        BY <3>1, <3>2
    <2>8. UsesCounted(q)'
      BY <2>7, <1>3 DEF UsesCounted
    <2>9. PastCheck(q)' \subseteq PastCheck(q)
      <3>1. PastCheck(q)' = PastCheck(q) \ {r}
        BY <1>2, NoPromoJob, PromoSlot
      <3> QED
        BY <3>1
    <2>10. promo'[q].used \in Int /\ promo'[q].used <= promo[q].used
      BY <2>6, <1>4
    <2>11. QuotaBounded(q)'
      BY <2>9, <2>10, <1>3, <1>6, QuotaKept
    <2> QED
      BY <2>8, <2>11
  <1> QED
    BY <1>9, <1>10, <1>11, <1>12 DEF PromoInv

(* A save that changes the counter is a clobbering one; any other leaves     *)
(* counter and quota as they are.                                            *)
LEMMA PromoSave ==
  ASSUME PromoInv, NEW r \in Reqs, Promo!SavePromo(r)
  PROVE  PromoInv'
  <1>1. PICK p \in Promos, c \in PromoRows :
          p = promoJob[r].promo /\ c = promoJob[r].copy /\ c.quota = promo[p].quota
    BY DEF PromoInv, PromoJobOK, Promo!SavePromo
  <1>2. promoJob' = [promoJob EXCEPT ![r] = Promo!NoJob]
    BY DEF Promo!SavePromo, Promo!Finish
  <1>3. /\ promo' = [promo EXCEPT ![p] = c]
        /\ clobbered' = IF c.used # promo[p].used THEN clobbered \cup {p} ELSE clobbered
        /\ UNCHANGED <<usage, voucher, expired, drift>>
    BY <1>1 DEF Promo!SavePromo
  <1>4. /\ promo' \in [Promos -> PromoRows] /\ promo'[p] = c
        /\ \A q \in Promos : q # p => promo'[q] = promo[q]
        /\ \A q \in Promos : promo'[q].quota = promo[q].quota
    BY <1>1, <1>3 DEF PromoInv, PromoTypes
  <1>5. PromoTypes'
    BY <1>1, <1>2, <1>3, <1>4, NoPromoJob, PromoSlot DEF PromoInv, PromoTypes
  <1>6. \A s \in Reqs : PromoJobOK(promoJob[s])'
    BY <1>4, <1>2, NoPromoJob, PromoSlot DEF PromoInv, PromoJobOK
  <1>7. OneUse' /\ OneVoucher'
    BY <1>3 DEF PromoInv, OneUse, OneVoucher
  <1>8. ASSUME NEW q \in Promos PROVE UsesCounted(q)' /\ QuotaBounded(q)'
    <2>1. PastCheck(q)' \subseteq PastCheck(q) /\ UsingOrders(q)' = UsingOrders(q)
      <3>1. PastCheck(q)' = PastCheck(q) \ {r}
        BY <1>2, NoPromoJob, PromoSlot
      <3>2. UsingOrders(q)' = UsingOrders(q)
        BY <1>3 DEF UsingOrders
      <3> QED
        BY <3>1, <3>2
    <2>2. CASE q # p
      BY <2>1, <2>2, <1>3, <1>4, PromoUntouched
    <2>3. CASE q = p /\ c.used # promo[p].used
      BY <2>3, <1>3 DEF UsesCounted, QuotaBounded
    <2>4. CASE q = p /\ c.used = promo[p].used
      <3>1. promo'[p].used = promo[p].used /\ drift'[p] = drift[p] /\ clobbered' = clobbered
        BY <2>4, <1>3, <1>4
      <3>2. UsesCounted(p)'
        BY <3>1, <2>1, <2>4 DEF PromoInv, UsesCounted
      <3>3. promo'[p].used \in Int /\ promo'[p].used <= promo[p].used
        BY <3>1, PromoNumbers DEF PromoInv
      <3> QED
        BY <3>1, <3>2, <3>3, <2>1, <2>4, <1>4, QuotaKept
    <2> QED
      BY <2>2, <2>3, <2>4
  <1> QED
    BY <1>5, <1>6, <1>7, <1>8 DEF PromoInv

LEMMA PromoClaimed ==
  ASSUME PromoInv, NEW r \in Reqs, Promo!CreateUserPromo(r)
  PROVE  PromoInv'
  <1>1. PICK u \in PromoUsers, p \in Promos : u = promoJob[r].id /\ p = promoJob[r].promo
    BY DEF PromoInv, PromoJobOK, Promo!CreateUserPromo
  <1>2. /\ promoJob' = [promoJob EXCEPT ![r] = Promo!NoJob]
        /\ UNCHANGED <<promo, usage, expired, drift, clobbered>>
        /\ voucher' = IF voucher[u][p] = 0 THEN [voucher EXCEPT ![u][p] = @ + 1] ELSE voucher
    BY <1>1 DEF Promo!CreateUserPromo, Promo!Finish
  <1>3. voucher \in [PromoUsers -> [Promos -> Nat]]
    BY DEF PromoInv, PromoTypes
  <1>4. voucher' \in [PromoUsers -> [Promos -> Nat]] /\ OneVoucher'
    <2>1. CASE voucher[u][p] = 0
      <3>1. voucher' = [voucher EXCEPT ![u] = [voucher[u] EXCEPT ![p] = 1]]
        BY <2>1, <1>2, <1>3
      <3>2. [voucher[u] EXCEPT ![p] = 1] \in [Promos -> Nat]
        BY <1>3
      <3> QED
        BY <3>1, <3>2, <1>3 DEF PromoInv, OneVoucher
    <2>2. CASE voucher[u][p] # 0
      BY <2>2, <1>2, <1>3 DEF PromoInv, OneVoucher
    <2> QED
      BY <2>1, <2>2
  <1>5. PromoJobOK(Promo!NoJob)
    BY NoPromoJob DEF PromoJobOK
  <1> QED
    BY <1>2, <1>4, <1>5, NoPromoJob, PromoReads

LEMMA PromoStep ==
  ASSUME PromoInv, [Promo!Next]_promotion
  PROVE  PromoInv'
  <1>1. CASE Promo!Expire \/ UNCHANGED promotion
    <2>1. /\ UNCHANGED <<promo, usage, voucher, drift, clobbered, promoJob>>
          /\ expired' \cup clobbered' \subseteq Promos
      BY <1>1 DEF Promo!Expire, promotion, PromoInv, PromoTypes
    <2> QED
      BY <2>1 DEF PromoInv, PromoTypes, PromoJobOK, OneUse, OneVoucher, UsesCounted,
                  QuotaBounded, UsingOrders, PastCheck
  <1>2. ASSUME NEW r \in Reqs,
               \/ Promo!Requests(r) \/ Promo!CountUse(r) \/ Promo!ReleasePromoUsage(r)
               \/ Promo!CreateUserPromo(r) \/ Promo!SavePromo(r)
        PROVE  PromoInv'
    BY <1>2, PromoRequest, PromoCountUse, PromoRelease, PromoSave, PromoClaimed
  <1>3. ASSUME NEW r \in Reqs, Promo!Die(r) PROVE PromoInv'
    BY <1>3, PromoNoWrite DEF Promo!Die
  <1> QED
    BY <1>1, <1>2, <1>3 DEF Promo!Next

LEMMA PromoInit == Init => PromoInv
  <1> SUFFICES ASSUME Promo!Init PROVE PromoInv
    BY DEF Init
  <1>1. promo \in [Promos -> [active : {TRUE}, quota : Quotas, used : {0}]]
    BY DEF Promo!Init
  <1>2. ASSUME NEW p \in Promos PROVE promo[p] \in PromoRows /\ promo[p].used = 0
    <2>1. promo[p] \in [active : {TRUE}, quota : Quotas, used : {0}]
      BY <1>1
    <2>2. promo[p] = [active |-> promo[p].active, quota |-> promo[p].quota, used |-> promo[p].used]
      BY <2>1
    <2>3. promo[p].active \in BOOLEAN /\ promo[p].quota \in Quotas /\ promo[p].used = 0
      BY <2>1
    <2> QED
      BY <2>2, <2>3 DEF PromoRows
  <1>3. promo \in [Promos -> PromoRows]
    BY <1>1, <1>2
  <1>4. /\ promoJob \in [Reqs -> PromoJobs]
        /\ \A r \in Reqs : promoJob[r] = Promo!NoJob
    BY NoPromoJob DEF Promo!Init
  <1>5. PromoTypes
    BY <1>3, <1>4 DEF Promo!Init, PromoTypes
  <1>6. \A r \in Reqs : PromoJobOK(promoJob[r])
    BY <1>4, NoPromoJob DEF PromoJobOK
  <1>7. OneUse /\ OneVoucher
    BY DEF Promo!Init, OneUse, OneVoucher
  <1>8. ASSUME NEW p \in Promos PROVE UsesCounted(p) /\ QuotaBounded(p)
    <2>1. PastCheck(p) = {} /\ UsingOrders(p) = {} /\ drift[p] = 0
      BY <1>4, NoPromoJob DEF PastCheck, UsingOrders, Promo!Init
    <2>2. Cardinality(UsingOrders(p)) = 0
      BY <2>1, FS_EmptySet
    <2>3. UsesCounted(p)
      BY <2>1, <2>2, <1>2 DEF UsesCounted
    <2>4. Cardinality(Reqs) \in Nat /\ promo[p].quota \in Int
      BY <1>5, PromoNumbers
    <2> QED
      BY <2>1, <2>3, <2>4, <1>2 DEF QuotaBounded
  <1> QED
    BY <1>5, <1>6, <1>7, <1>8 DEF PromoInv

LEMMA PromoSize == \A S : Promo!Cardinality(S) = Cardinality(S)
  BY DEF Promo!Cardinality, Cardinality

(* For any number of promos, orders, users and handlers: the counter of a    *)
(* promo is the number of its uses but for what releases that name another   *)
(* promo leave, it passes the quota by no more than the handlers past the    *)
(* check, and no order uses two promos.                                      *)
THEOREM PromotionSafety == Spec => []PromotionSafe
  <1>1. Init => For("promotion", PromoInv)
    BY PromoInit DEF For
  <1>2. For("promotion", PromoInv) /\ [Next]_vars => For("promotion", PromoInv)'
    BY Moves, PromoStep DEF For
  <1>3. PromoInv => Promo!TypeOK
    BY DEF PromoInv, PromoTypes, PromoRows, PromoJobs, Promo!TypeOK
  <1>4. ASSUME PromoInv PROVE Promo!QuotaOverrun
    <2>1. \A p \in Promos : QuotaBounded(p)
      BY <1>4 DEF PromoInv
    <2>2. Promo!Cardinality(Reqs) = Cardinality(Reqs)
      BY PromoSize
    <2> QED
      BY <2>1, <2>2 DEF QuotaBounded, Promo!QuotaOverrun
  <1>5. ASSUME PromoInv PROVE Promo!CountMatches
    <2>1. ASSUME NEW p \in Promos, p \notin clobbered
          PROVE  promo[p].used = Promo!Cardinality(Promo!UsersOf(p)) + drift[p]
      <3>1. Promo!UsersOf(p) = UsingOrders(p)
        BY DEF Promo!UsersOf, UsingOrders
      <3>2. Promo!Cardinality(Promo!UsersOf(p)) = Cardinality(UsingOrders(p))
        BY <3>1, PromoSize
      <3>3. promo[p].used = Cardinality(UsingOrders(p)) + drift[p]
        BY <1>5, <2>1 DEF PromoInv, UsesCounted
      <3> QED
        BY <3>2, <3>3
    <2> QED
      BY <2>1 DEF Promo!CountMatches
  <1>6. ASSUME PromoInv PROVE Promo!OncePerOrder
    <2>1. ASSUME NEW o \in PromoOrders PROVE Promo!Cardinality(Promo!UsesOf(o)) <= 1
      <3>1. \A p, q \in Promo!UsesOf(o) : p = q
        BY <1>6 DEF PromoInv, OneUse, Promo!UsesOf
      <3>2. Cardinality(Promo!UsesOf(o)) = IF Promo!UsesOf(o) = {} THEN 0 ELSE 1
        BY <3>1, SizeOfOne
      <3>3. Promo!Cardinality(Promo!UsesOf(o)) = Cardinality(Promo!UsesOf(o))
        BY PromoSize
      <3> QED
        BY <3>2, <3>3
    <2> QED
      BY <1>6, <2>1 DEF PromoInv, OneVoucher, Promo!OncePerOrder
  <1>7. For("promotion", PromoInv) => PromotionSafe
    BY <1>3, <1>4, <1>5, <1>6 DEF For, PromotionSafe, Promo!PromotionSafe
  <1> QED
    BY <1>1, <1>2, <1>7, PTL DEF Spec

-----------------------------------------------------------------------------
(* notification-service *)

NoteJobs ==
    {Note!Idle}
    \cup [op : {"prefs"}, channel : Channels, row : [Channels -> BOOLEAN],
          seen : [Channels -> BOOLEAN], failed : BOOLEAN]
    \cup [op : {"create"}, channel : Channels]
    \cup [op : {"update"}, channel : Channels, state : Note!States, asked : BOOLEAN]
    \cup [op : {"find", "log"}, channel : Channels, against : BOOLEAN, excused : BOOLEAN]

NoteTypes == /\ prefs \in [Channels -> BOOLEAN] /\ wish \in [Channels -> BOOLEAN]
             /\ template \in [Channels -> Note!States]
             /\ spoiled \subseteq Channels /\ offline \subseteq Channels /\ stale \subseteq Channels
             /\ noteJob \in [Reqs -> NoteJobs]

(* A row read whole changes one channel of what was seen; a send against the *)
(* user's wish has an excuse.                                                *)
NoteCopies ==
    \A r \in Reqs :
        /\ noteJob[r].op = "prefs" /\ ~noteJob[r].failed =>
              \A c \in Channels \ {noteJob[r].channel} : noteJob[r].row[c] = noteJob[r].seen[c]
        /\ noteJob[r].op \in {"find", "log"} => ~noteJob[r].against \/ noteJob[r].excused

NoteInv == NoteTypes /\ NoteCopies /\ Note!WishKept /\ Note!MutedHolds /\ Note!TakenDownHolds

LEMMA NoteJobKinds ==
  ASSUME NEW q \in NoteJobs
  PROVE  /\ q.op \in {"none", "prefs", "create", "update", "find", "log"}
         /\ q.op = "none" => q = Note!Idle
         /\ q.op # "none" => q.channel \in Channels
         /\ q.op = "prefs" => /\ q.row \in [Channels -> BOOLEAN] /\ q.seen \in [Channels -> BOOLEAN]
                              /\ q.failed \in BOOLEAN
         /\ q.op = "update" => q.state \in Note!States /\ q.asked \in BOOLEAN
         /\ q.op = "find" => [q EXCEPT !.op = "log"] \in NoteJobs
  <1>1. CASE q = Note!Idle
    BY <1>1 DEF Note!Idle
  <1>2. CASE q \in [op : {"prefs"}, channel : Channels, row : [Channels -> BOOLEAN],
                    seen : [Channels -> BOOLEAN], failed : BOOLEAN]
    BY <1>2
  <1>3. CASE q \in [op : {"create"}, channel : Channels]
    BY <1>3
  <1>4. CASE q \in [op : {"update"}, channel : Channels, state : Note!States, asked : BOOLEAN]
    BY <1>4
  <1>5. CASE q \in [op : {"find", "log"}, channel : Channels, against : BOOLEAN, excused : BOOLEAN]
    <2>1. [q EXCEPT !.op = "log"]
             \in [op : {"find", "log"}, channel : Channels, against : BOOLEAN, excused : BOOLEAN]
      BY <1>5
    <2>2. [q EXCEPT !.op = "log"] \in NoteJobs
      BY <2>1 DEF NoteJobs
    <2> QED
      BY <1>5, <2>2
  <1> QED
    BY <1>1, <1>2, <1>3, <1>4, <1>5 DEF NoteJobs

LEMMA NoteSlot ==
  ASSUME NoteInv, NEW r \in Reqs, NEW q \in NoteJobs, noteJob' = [noteJob EXCEPT ![r] = q]
  PROVE  /\ noteJob' \in [Reqs -> NoteJobs] /\ noteJob'[r] = q
         /\ \A s \in Reqs : s # r => noteJob'[s] = noteJob[s]
  BY DEF NoteInv, NoteTypes

(* A handler that begins or goes on and writes nothing.                      *)
LEMMA NoteReads ==
  ASSUME NoteInv, NEW r \in Reqs, NEW q \in NoteJobs, noteJob' = [noteJob EXCEPT ![r] = q],
         UNCHANGED <<prefs, template, wish, spoiled, unwanted, offline, stale>>,
         q.op = "prefs" /\ ~q.failed => \A c \in Channels \ {q.channel} : q.row[c] = q.seen[c],
         q.op \in {"find", "log"} => ~q.against \/ q.excused
  PROVE  NoteInv'
  <1>1. NoteTypes' /\ NoteCopies'
    BY NoteSlot DEF NoteInv, NoteTypes, NoteCopies
  <1> QED
    BY <1>1 DEF NoteInv, Note!WishKept, Note!MutedHolds, Note!TakenDownHolds

(* A handler that writes, and is done.                                       *)
LEMMA NoteWrites ==
  ASSUME NoteInv, NEW r \in Reqs, noteJob' = [noteJob EXCEPT ![r] = Note!Idle]
  PROVE  noteJob' \in [Reqs -> NoteJobs] /\ NoteCopies'
  <1>1. Note!Idle \in NoteJobs /\ Note!Idle.op = "none"
    BY DEF NoteJobs, Note!Idle
  <1>2. /\ noteJob' \in [Reqs -> NoteJobs] /\ noteJob'[r].op = "none"
        /\ \A s \in Reqs : s # r => noteJob'[s] = noteJob[s]
    BY <1>1, NoteSlot
  <1>3. NoteCopies
    BY DEF NoteInv
  <1> QED
    BY <1>2, <1>3 DEF NoteCopies

LEMMA NoteRequests ==
  ASSUME NoteInv, NEW r \in Reqs, Note!Requests(r)
  PROVE  NoteInv'
  <1>1. PICK c \in Channels :
          \/ \E on \in BOOLEAN : Note!UpdatePreferences(r, c, on)
          \/ Note!CreateTemplate(r, c) \/ Note!UpdateTemplate(r, c)
          \/ \E critical, overrides \in BOOLEAN : Note!SendNotification(r, c, critical, overrides)
    BY DEF Note!Requests
  <1>2. ASSUME NEW on \in BOOLEAN, Note!UpdatePreferences(r, c, on)
        PROVE  NoteInv'
    <2>1. PICK row0 \in [Channels -> BOOLEAN], fail \in BOOLEAN :
            /\ noteJob' = [noteJob EXCEPT ![r] = [op |-> "prefs", channel |-> c, row |-> row0,
                                                  seen |-> prefs, failed |-> fail]]
            /\ ~fail => \A d \in Channels \ {c} : row0[d] = prefs[d]
      <3>1. /\ prefs \in [Channels -> BOOLEAN] /\ Note!Defaults \in [Channels -> BOOLEAN]
        BY DEF NoteInv, NoteTypes, Note!Defaults
      <3>2. /\ [prefs EXCEPT ![c] = on] \in [Channels -> BOOLEAN]
            /\ \A d \in Channels \ {c} : [prefs EXCEPT ![c] = on][d] = prefs[d]
            /\ [Note!Defaults EXCEPT ![c] = on] \in [Channels -> BOOLEAN]
        BY <3>1
      <3> QED
        BY <1>2, <3>2 DEF Note!UpdatePreferences, Note!Begin, Note!OverRow
    <2> DEFINE q == [op |-> "prefs", channel |-> c, row |-> row0, seen |-> prefs, failed |-> fail]
    <2>2. q \in NoteJobs
      BY DEF NoteJobs, NoteInv, NoteTypes
    <2>3. /\ q.op = "prefs" /\ q.channel = c /\ q.row = row0 /\ q.seen = prefs /\ (q.failed <=> fail)
      OBVIOUS
    <2>4. UNCHANGED <<prefs, template, wish, spoiled, unwanted, offline, stale>>
      BY <1>2 DEF Note!UpdatePreferences
    <2>5. noteJob' = [noteJob EXCEPT ![r] = q]
      BY <2>1
    <2> HIDE DEF q
    <2>6. ~q.failed => \A d \in Channels \ {q.channel} : q.row[d] = q.seen[d]
      BY <2>1, <2>3
    <2> QED
      BY <2>2, <2>3, <2>4, <2>5, <2>6, NoteReads
  <1>3. CASE Note!CreateTemplate(r, c)
    <2> DEFINE q == [op |-> "create", channel |-> c]
    <2>1. q \in NoteJobs /\ q.op = "create"
      BY DEF NoteJobs
    <2>2. /\ noteJob' = [noteJob EXCEPT ![r] = q]
          /\ UNCHANGED <<prefs, template, wish, spoiled, unwanted, offline, stale>>
      BY <1>3 DEF Note!CreateTemplate, Note!Begin
    <2> HIDE DEF q
    <2> QED
      BY <2>1, <2>2, NoteReads
  <1>4. CASE Note!UpdateTemplate(r, c)
    <2>1. PICK s \in Note!States, asks0 \in BOOLEAN :
            noteJob' = [noteJob EXCEPT ![r] = [op |-> "update", channel |-> c, state |-> s,
                                               asked |-> asks0]]
      <3>1. template[c] \in Note!States
        BY DEF NoteInv, NoteTypes
      <3> QED
        BY <1>4, <3>1 DEF Note!UpdateTemplate, Note!Begin, Note!States
    <2> DEFINE q == [op |-> "update", channel |-> c, state |-> s, asked |-> asks0]
    <2>2. q \in NoteJobs /\ q.op = "update"
      BY DEF NoteJobs
    <2>3. UNCHANGED <<prefs, template, wish, spoiled, unwanted, offline, stale>>
      BY <1>4 DEF Note!UpdateTemplate
    <2>4. noteJob' = [noteJob EXCEPT ![r] = q]
      BY <2>1
    <2> HIDE DEF q
    <2> QED
      BY <2>2, <2>3, <2>4, NoteReads
  <1>5. ASSUME NEW critical \in BOOLEAN, NEW overrides \in BOOLEAN,
               Note!SendNotification(r, c, critical, overrides)
        PROVE  NoteInv'
    <2> DEFINE no == ~critical /\ ~wish[c]
               but == c \in spoiled \/ ~Note!Wanted(prefs[c], critical)
               op == IF overrides THEN "log" ELSE "find"
               q == [op |-> op, channel |-> c, against |-> no, excused |-> but]
    <2>1. no \in BOOLEAN /\ but \in BOOLEAN /\ op \in {"find", "log"}
      OBVIOUS
    <2>2. ~no \/ but
      BY DEF Note!Wanted, NoteInv, Note!WishKept
    <2>3. noteJob' = [noteJob EXCEPT ![r] = q]
      BY <1>5 DEF Note!SendNotification, Note!Begin
    <2>4. UNCHANGED <<prefs, template, wish, spoiled, unwanted, offline, stale>>
      BY <1>5 DEF Note!SendNotification
    <2> HIDE DEF no, but, op
    <2>5. q \in NoteJobs
      BY <2>1 DEF NoteJobs
    <2>6. q.op = op /\ q.against = no /\ q.excused = but
      OBVIOUS
    <2> HIDE DEF q
    <2>7. ~q.against \/ q.excused
      BY <2>2, <2>6, Zenon
    <2> QED
      BY <2>1, <2>3, <2>4, <2>5, <2>6, <2>7, NoteReads
  <1> QED
    BY <1>1, <1>2, <1>3, <1>4, <1>5

LEMMA NoteHandles ==
  ASSUME NoteInv, NEW r \in Reqs,
         \/ Note!UpsertPreferences(r) \/ Note!InsertTemplate(r) \/ Note!SaveTemplate(r)
         \/ Note!FindTemplate(r) \/ Note!CreateNotificationLog(r) \/ Note!Die(r)
  PROVE  NoteInv'
  <1> PICK q \in NoteJobs : q = noteJob[r]
    BY DEF NoteInv, NoteTypes
  <1>1. CASE Note!UpsertPreferences(r)
    <2>1. /\ q.op = "prefs" /\ noteJob' = [noteJob EXCEPT ![r] = Note!Idle]
          /\ prefs' = q.row /\ wish' = [wish EXCEPT ![q.channel] = q.row[q.channel]]
          /\ spoiled' = (spoiled \cup {c \in Channels : q.failed \/ q.seen[c] # prefs[c]})
                          \ {q.channel}
          /\ UNCHANGED <<template, unwanted, offline, stale>>
      BY <1>1 DEF Note!UpsertPreferences, Note!End
    <2>2. /\ q.channel \in Channels /\ q.row \in [Channels -> BOOLEAN]
      BY <2>1, NoteJobKinds
    <2>3. q.row[q.channel] \in BOOLEAN
      BY <2>2
    <2>4. wish' \in [Channels -> BOOLEAN]
      BY <2>1, <2>2, <2>3 DEF NoteInv, NoteTypes
    <2>5. NoteTypes' /\ NoteCopies'
      BY <2>1, <2>2, <2>4, NoteWrites DEF NoteInv, NoteTypes
    <2>6. Note!WishKept'
      <3> SUFFICES ASSUME NEW c \in Channels, c \notin spoiled'
                   PROVE  prefs'[c] = wish'[c]
        BY DEF Note!WishKept
      <3>1. CASE c = q.channel
        BY <3>1, <2>1, <2>2 DEF NoteInv, NoteTypes
      <3>2. CASE c # q.channel
        <4>1. c \notin spoiled /\ ~q.failed /\ q.seen[c] = prefs[c]
          BY <3>2, <2>1
        <4>2. q.row[c] = q.seen[c]
          BY <3>2, <4>1, <2>1 DEF NoteInv, NoteCopies
        <4>3. wish'[c] = wish[c]
          BY <3>2, <2>1, <2>2 DEF NoteInv, NoteTypes
        <4>4. prefs[c] = wish[c]
          BY <4>1 DEF NoteInv, Note!WishKept
        <4> QED
          BY <2>1, <4>1, <4>2, <4>3, <4>4, Zenon
      <3> QED
        BY <3>1, <3>2
    <2> QED
      BY <2>1, <2>5, <2>6 DEF NoteInv, Note!MutedHolds, Note!TakenDownHolds
  <1>2. CASE Note!InsertTemplate(r)
    <2>1. /\ q.op = "create" /\ noteJob' = [noteJob EXCEPT ![r] = Note!Idle]
          /\ \/ UNCHANGED template
             \/ template[q.channel] = "none" /\ template' = [template EXCEPT ![q.channel] = "active"]
          /\ UNCHANGED <<prefs, wish, spoiled, unwanted, offline, stale>>
      BY <1>2 DEF Note!InsertTemplate, Note!End, Note!NoneAtAll
    <2>2. NoteTypes' /\ NoteCopies'
      BY <2>1, NoteWrites DEF NoteInv, NoteTypes, Note!States
    <2>3. Note!TakenDownHolds'
      BY <2>1 DEF NoteInv, NoteTypes, Note!TakenDownHolds
    <2> QED
      BY <2>1, <2>2, <2>3 DEF NoteInv, Note!WishKept, Note!MutedHolds
  <1>3. CASE Note!SaveTemplate(r)
    <2>1. /\ q.op = "update" /\ noteJob' = [noteJob EXCEPT ![r] = Note!Idle]
          /\ template' = [template EXCEPT ![q.channel] = q.state]
          /\ offline' = IF ~q.asked THEN offline
                        ELSE IF q.state = "inactive" THEN offline \cup {q.channel}
                        ELSE offline \ {q.channel}
          /\ stale' = IF q.asked THEN stale \ {q.channel}
                      ELSE IF q.state # template[q.channel] THEN stale \cup {q.channel} ELSE stale
          /\ UNCHANGED <<prefs, wish, spoiled, unwanted>>
      BY <1>3 DEF Note!SaveTemplate, Note!End
    <2>2. q.channel \in Channels /\ q.state \in Note!States
      BY <2>1, NoteJobKinds
    <2>3. /\ template' \in [Channels -> Note!States] /\ template'[q.channel] = q.state
          /\ \A c \in Channels : c # q.channel => template'[c] = template[c]
      BY <2>1, <2>2 DEF NoteInv, NoteTypes
    <2>4. offline' \subseteq Channels /\ stale' \subseteq Channels
      BY <2>1, <2>2 DEF NoteInv, NoteTypes
    <2>5. NoteTypes' /\ NoteCopies'
      BY <2>1, <2>3, <2>4, NoteWrites DEF NoteInv, NoteTypes
    <2>6. Note!TakenDownHolds'
      <3> SUFFICES ASSUME NEW c \in offline', c \notin stale'
                   PROVE  template'[c] = "inactive"
        BY DEF Note!TakenDownHolds
      <3>1. \A d \in offline \ stale : template[d] = "inactive"
        BY DEF NoteInv, Note!TakenDownHolds
      <3>2. CASE c = q.channel
        BY <3>1, <3>2, <2>1, <2>3
      <3>3. CASE c # q.channel
        BY <3>1, <3>3, <2>1, <2>3, <2>4
      <3> QED
        BY <3>2, <3>3
    <2> QED
      BY <2>1, <2>5, <2>6 DEF NoteInv, Note!WishKept, Note!MutedHolds
  <1>4. CASE Note!FindTemplate(r)
    <2>1. /\ q.op = "find"
          /\ \/ noteJob' = [noteJob EXCEPT ![r] = [q EXCEPT !.op = "log"]]
             \/ noteJob' = [noteJob EXCEPT ![r] = Note!Idle]
          /\ UNCHANGED <<prefs, template, wish, spoiled, unwanted, offline, stale>>
      BY <1>4 DEF Note!FindTemplate, Note!End, NoteInv, NoteTypes
    <2>2. PICK u : u = [q EXCEPT !.op = "log"]
      OBVIOUS
    <2>3. u \in NoteJobs
      BY <2>1, <2>2, NoteJobKinds
    <2>4. /\ q \in [op : {"find", "log"}, channel : Channels, against : BOOLEAN, excused : BOOLEAN]
      BY <2>1 DEF NoteJobs, Note!Idle
    <2>5. u.op = "log" /\ u.against = q.against /\ u.excused = q.excused
      BY <2>2, <2>4
    <2>6. ~q.against \/ q.excused
      BY <2>1 DEF NoteInv, NoteCopies
    <2>7. ~u.against \/ u.excused
      BY <2>5, <2>6, Zenon
    <2>8. Note!Idle \in NoteJobs /\ Note!Idle.op = "none"
      BY DEF NoteJobs, Note!Idle
    <2> QED
      BY <2>1, <2>2, <2>3, <2>5, <2>7, <2>8, NoteReads
  <1>5. CASE Note!CreateNotificationLog(r)
    <2>1. /\ q.op = "log" /\ noteJob' = [noteJob EXCEPT ![r] = Note!Idle]
          /\ unwanted' = IF q.against /\ ~q.excused THEN unwanted \cup {q.channel} ELSE unwanted
          /\ UNCHANGED <<prefs, template, wish, spoiled, offline, stale>>
      BY <1>5 DEF Note!CreateNotificationLog, Note!End
    <2>2. ~q.against \/ q.excused
      BY <2>1 DEF NoteInv, NoteCopies
    <2>3. unwanted' = unwanted
      BY <2>1, <2>2
    <2>4. NoteTypes' /\ NoteCopies'
      BY <2>1, NoteWrites DEF NoteInv, NoteTypes
    <2> QED
      BY <2>1, <2>3, <2>4 DEF NoteInv, Note!WishKept, Note!MutedHolds, Note!TakenDownHolds
  <1>6. CASE Note!Die(r)
    <2>1. /\ noteJob' = [noteJob EXCEPT ![r] = Note!Idle]
          /\ UNCHANGED <<prefs, template, wish, spoiled, unwanted, offline, stale>>
      BY <1>6 DEF Note!Die, Note!End
    <2>2. Note!Idle \in NoteJobs /\ Note!Idle.op = "none"
      BY DEF NoteJobs, Note!Idle
    <2> QED
      BY <2>1, <2>2, NoteReads
  <1> QED
    BY <1>1, <1>2, <1>3, <1>4, <1>5, <1>6

LEMMA NoteStep ==
  ASSUME NoteInv, [Note!Next]_notification
  PROVE  NoteInv'
  <1>1. CASE UNCHANGED notification
    BY <1>1 DEF notification, NoteInv, NoteTypes, NoteCopies, Note!WishKept, Note!MutedHolds,
                Note!TakenDownHolds
  <1>2. ASSUME NEW c \in Channels, Note!DeactivateTemplate(c)
        PROVE  NoteInv'
    <2>1. NoteTypes' /\ NoteCopies'
      BY <1>2 DEF Note!DeactivateTemplate, NoteInv, NoteTypes, NoteCopies, Note!States
    <2>2. Note!TakenDownHolds'
      BY <1>2 DEF Note!DeactivateTemplate, NoteInv, NoteTypes, Note!TakenDownHolds
    <2> QED
      BY <1>2, <2>1, <2>2 DEF Note!DeactivateTemplate, NoteInv, Note!WishKept, Note!MutedHolds
  <1> QED
    BY <1>1, <1>2, NoteRequests, NoteHandles DEF Note!Next

LEMMA NoteInit == Init => NoteInv
  BY DEF Init, Note!Init, Note!Defaults, Note!Idle, Note!States, NoteInv, NoteTypes, NoteJobs,
     NoteCopies, Note!WishKept, Note!MutedHolds, Note!TakenDownHolds

LEMMA NoteImplied == NoteInv => Note!NotificationSafe
  <1> SUFFICES ASSUME NoteInv PROVE Note!NotificationSafe
    OBVIOUS
  <1>1. \A r \in Reqs : noteJob[r].op \in {"none", "prefs", "create", "update", "find", "log"}
    BY NoteJobKinds DEF NoteInv, NoteTypes
  <1> QED
    BY <1>1 DEF NoteInv, NoteTypes, Note!MutedHolds, Note!TypeOK, Note!NotificationSafe

-----------------------------------------------------------------------------
(* email-service *)

MailJobs ==
    {Mail!Idle}
    \cup [op : {"find", "map", "log"}, email : Emails, seen : Mail!Logs,
          new : [status : {"queued", "sent", "delivered", "bounced", "spam"}, at : BOOLEAN]]

MailTypes == /\ mailIds \subseteq Emails /\ keyGone \subseteq Emails /\ idShown \subseteq Emails
             /\ sending \subseteq Emails /\ mailed \subseteq Emails /\ mapped \subseteq Emails
             /\ failed \subseteq Emails /\ heard \subseteq Emails /\ raced \subseteq Emails
             /\ log \in [Emails -> Mail!Logs]
             /\ mailJob \in [Reqs -> MailJobs]

(* What is about to be stored keeps the time of a delivery that was seen; a  *)
(* log is stored after the key that leads to it.                             *)
MailCopies ==
    \A r \in Reqs :
        /\ mailJob[r].op \in {"map", "log"} =>
              (mailJob[r].seen.at \/ mailJob[r].new.status = "delivered" => mailJob[r].new.at)
        /\ mailJob[r].op = "log" => mailJob[r].email \in mapped \cup failed \cup keyGone

MailInv == MailTypes /\ MailCopies /\ Mail!LogReachable /\ Mail!DeliveryKept

Opened == [op : {"find", "map", "log"}, email : Emails, seen : Mail!Logs,
           new : [status : {"queued", "sent", "delivered", "bounced", "spam"}, at : BOOLEAN]]

LEMMA MailJobKinds ==
  ASSUME NEW q \in MailJobs
  PROVE  /\ q.op \in {"none", "find", "map", "log"}
         /\ q.op # "none" => q \in Opened
         /\ q \in Opened => q.op # "none"
  BY DEF MailJobs, Mail!Idle, Opened

LEMMA MailSlot ==
  ASSUME MailInv, NEW r \in Reqs, NEW q \in MailJobs, mailJob' = [mailJob EXCEPT ![r] = q]
  PROVE  /\ mailJob' \in [Reqs -> MailJobs] /\ mailJob'[r] = q
         /\ \A s \in Reqs : s # r => mailJob'[s] = mailJob[s]
  BY DEF MailInv, MailTypes

(* A step of a handler that leaves the logs alone.                           *)
LEMMA MailMoves ==
  ASSUME MailInv, NEW r \in Reqs, NEW q \in MailJobs, mailJob' = [mailJob EXCEPT ![r] = q],
         mailIds' \subseteq Emails, sending' \subseteq Emails, mapped' \subseteq Emails,
         failed' \subseteq Emails, keyGone' \subseteq Emails,
         mapped \cup failed \cup keyGone \subseteq mapped' \cup failed' \cup keyGone',
         UNCHANGED <<mailed, idShown, log, heard, raced>>,
         q.op \in {"map", "log"} => (q.seen.at \/ q.new.status = "delivered" => q.new.at),
         q.op = "log" => q.email \in mapped' \cup failed' \cup keyGone'
  PROVE  MailInv'
  <1>1. MailTypes'
    BY MailSlot DEF MailInv, MailTypes
  <1>2. MailCopies'
    BY MailSlot DEF MailInv, MailCopies
  <1> QED
    BY <1>1, <1>2 DEF MailInv, Mail!LogReachable, Mail!DeliveryKept

LEMMA MailThen ==
  ASSUME MailInv, NEW r \in Reqs, NEW op \in {"log", "none"}, mailJob[r].op = "map",
         mailJob' = [mailJob EXCEPT ![r] = IF op = "none" THEN Mail!Idle ELSE [@ EXCEPT !.op = op]]
  PROVE  \E q \in MailJobs :
            /\ mailJob' = [mailJob EXCEPT ![r] = q] /\ q.op = op
            /\ op = "log" => /\ q.email = mailJob[r].email /\ q.seen = mailJob[r].seen
                             /\ q.new = mailJob[r].new
  <1>1. mailJob[r] \in Opened
    BY MailJobKinds DEF MailInv, MailTypes
  <1>2. PICK q : q = [mailJob[r] EXCEPT !.op = "log"]
    OBVIOUS
  <1>3. /\ q \in MailJobs /\ q.op = "log" /\ q.email = mailJob[r].email
        /\ q.seen = mailJob[r].seen /\ q.new = mailJob[r].new
    BY <1>1, <1>2 DEF Opened, MailJobs
  <1>4. Mail!Idle \in MailJobs /\ Mail!Idle.op = "none"
    BY DEF MailJobs, Mail!Idle
  <1>5. CASE op = "log"
    <2>1. mailJob' = [mailJob EXCEPT ![r] = q]
      BY <1>2, <1>5 DEF MailInv, MailTypes
    <2> QED
      BY <1>3, <1>5, <2>1
  <1>6. CASE op = "none"
    <2>1. mailJob' = [mailJob EXCEPT ![r] = Mail!Idle]
      BY <1>6
    <2> QED
      BY <1>4, <1>6, <2>1
  <1> QED
    BY <1>5, <1>6

LEMMA MailHandles ==
  ASSUME MailInv, NEW r \in Reqs,
         \/ \E e \in Emails : Mail!SendEmail(r, e)
         \/ \E e \in Emails, s \in {"sent", "delivered", "bounced", "spam"} :
              Mail!HandleWebhook(r, e, s)
         \/ Mail!GetEmailStatus(r) \/ Mail!SetProviderKey(r) \/ Mail!SetLog(r) \/ Mail!Die(r)
  PROVE  MailInv'
  <1>0. Mail!Idle \in MailJobs /\ Mail!Idle.op = "none"
    BY DEF MailJobs, Mail!Idle
  <1>1. ASSUME NEW e \in Emails, Mail!SendEmail(r, e)
        PROVE  MailInv'
    <2> DEFINE q == [op |-> "map", email |-> e, seen |-> Mail!NoLog, new |-> Mail!Queued]
    <2>1. q \in MailJobs /\ q.op = "map" /\ ~(q.seen.at \/ q.new.status = "delivered")
      BY DEF MailJobs, Mail!NoLog, Mail!Queued, Mail!Logs
    <2>2. /\ mailJob' = [mailJob EXCEPT ![r] = q] /\ sending' = sending \cup {e}
          /\ mailIds' = mailIds \cup {e}
          /\ UNCHANGED <<mailed, mapped, keyGone, idShown, log, failed, heard, raced>>
      BY <1>1 DEF Mail!SendEmail, Mail!Begin, Mail!After
    <2> HIDE DEF q
    <2> QED
      BY <2>1, <2>2, MailMoves DEF MailInv, MailTypes
  <1>2. ASSUME NEW e \in Emails, NEW s \in {"sent", "delivered", "bounced", "spam"},
               Mail!HandleWebhook(r, e, s)
        PROVE  MailInv'
    <2> DEFINE q == [op |-> "find", email |-> e, seen |-> Mail!NoLog,
                     new |-> [status |-> s, at |-> FALSE]]
    <2>1. q \in MailJobs /\ q.op = "find"
      BY DEF MailJobs, Mail!NoLog, Mail!Logs
    <2>2. /\ mailJob' = [mailJob EXCEPT ![r] = q] \/ UNCHANGED mailJob
          /\ UNCHANGED <<mailIds, sending, mailed, mapped, keyGone, idShown, log, failed, heard,
                         raced>>
      BY <1>2 DEF Mail!HandleWebhook, Mail!Begin
    <2> HIDE DEF q
    <2>3. CASE mailJob' = [mailJob EXCEPT ![r] = q]
      BY <2>1, <2>2, <2>3, MailMoves DEF MailInv, MailTypes
    <2>4. CASE UNCHANGED mailJob
      BY <2>2, <2>4 DEF MailInv, MailTypes, MailCopies, Mail!LogReachable, Mail!DeliveryKept
    <2> QED
      BY <2>2, <2>3, <2>4
  <1>3. CASE Mail!GetEmailStatus(r)
    <2> PICK p : p = mailJob[r]
      OBVIOUS
    <2>1. p \in Opened
      BY <1>3, MailJobKinds DEF MailInv, MailTypes, Mail!GetEmailStatus
    <2>2. p.email \in Emails /\ p.new.status \in {"queued", "sent", "delivered", "bounced", "spam"}
      BY <2>1 DEF Opened
    <2>3. PICK l \in Mail!Logs : l = log[p.email]
      BY <2>2 DEF MailInv, MailTypes
    <2>4. l.at \in BOOLEAN
      <3>1. CASE l = Mail!NoLog
        BY <3>1 DEF Mail!NoLog
      <3>2. CASE l # Mail!NoLog
        BY <3>2 DEF Mail!Logs
      <3> QED
        BY <3>1, <3>2
    <2> DEFINE n == [status |-> p.new.status, at |-> l.at \/ p.new.status = "delivered"]
               q == [op |-> "map", email |-> p.email, seen |-> l, new |-> n]
    <2>5. (l.at \/ p.new.status = "delivered") \in BOOLEAN
      OBVIOUS
    <2>6. n \in [status : {"queued", "sent", "delivered", "bounced", "spam"}, at : BOOLEAN]
      BY <2>2, <2>5
    <2>7. l.at \/ n.status = "delivered" => n.at
      BY <2>4
    <2> HIDE DEF n
    <2>8. q \in MailJobs /\ q.op = "map" /\ q.seen = l /\ q.new = n
      BY <2>2, <2>6 DEF MailJobs
    <2>9. /\ \/ mailJob' = [mailJob EXCEPT ![r] = Mail!Idle]
             \/ mailJob' = [mailJob EXCEPT ![r] = q]
          /\ UNCHANGED <<mailIds, sending, mailed, mapped, keyGone, idShown, log, failed, heard,
                         raced>>
      BY <1>3, <2>3 DEF Mail!GetEmailStatus, Mail!After, Mail!Changed, n
    <2> HIDE DEF q
    <2>10. q.seen.at \/ q.new.status = "delivered" => q.new.at
      BY <2>7, <2>8
    <2> QED
      BY <1>0, <2>8, <2>9, <2>10, MailMoves DEF MailInv, MailTypes
  <1>4. CASE Mail!SetProviderKey(r)
    <2>1. /\ mailJob[r].op = "map"
          /\ mailJob' = [mailJob EXCEPT ![r] = [@ EXCEPT !.op = "log"]]
          /\ \/ /\ mapped' = mapped \cup {mailJob[r].email}
                /\ keyGone' = keyGone \ {mailJob[r].email} /\ UNCHANGED failed
             \/ failed' = failed \cup {mailJob[r].email} /\ UNCHANGED <<mapped, keyGone>>
          /\ UNCHANGED <<mailIds, sending, mailed, idShown, log, heard, raced>>
      BY <1>4 DEF Mail!SetProviderKey, Mail!Then, Mail!After
    <2>2. PICK q \in MailJobs :
            /\ mailJob' = [mailJob EXCEPT ![r] = q] /\ q.op = "log"
            /\ q.email = mailJob[r].email /\ q.seen = mailJob[r].seen /\ q.new = mailJob[r].new
      BY <2>1, MailThen
    <2>3. mailJob[r].email \in Emails
      BY <2>1, MailJobKinds DEF MailInv, MailTypes, Opened
    <2>4. q.seen.at \/ q.new.status = "delivered" => q.new.at
      BY <2>1, <2>2 DEF MailInv, MailCopies
    <2>5. /\ mapped \cup failed \cup keyGone \subseteq mapped' \cup failed' \cup keyGone'
          /\ mapped' \subseteq Emails /\ failed' \subseteq Emails /\ keyGone' \subseteq Emails
          /\ q.email \in mapped' \cup failed'
      BY <2>1, <2>2, <2>3 DEF MailInv, MailTypes
    <2> QED
      BY <2>1, <2>2, <2>4, <2>5, MailMoves DEF MailInv, MailTypes
  <1>5. CASE Mail!SetLog(r)
    <2> PICK p : p = mailJob[r]
      OBVIOUS
    <2>1. p.op = "log" /\ p \in Opened
      BY <1>5, MailJobKinds DEF MailInv, MailTypes, Mail!SetLog
    <2>2. /\ mailJob' = [mailJob EXCEPT ![r] = Mail!Idle]
          /\ log' = [log EXCEPT ![p.email] = p.new]
          /\ heard' = IF p.new.status = "delivered" THEN heard \cup {p.email} ELSE heard
          /\ raced' = IF p.seen # log[p.email] THEN raced \cup {p.email} ELSE raced
          /\ idShown' = idShown \cup {p.email}
          /\ UNCHANGED <<mailIds, sending, mailed, mapped, keyGone, failed>>
      BY <1>5 DEF Mail!SetLog, Mail!Then, Mail!After
    <2>3. p.email \in Emails /\ p.new \in Mail!Logs
      BY <2>1 DEF Opened, Mail!Logs
    <2>4. /\ log' \in [Emails -> Mail!Logs] /\ log'[p.email] = p.new
          /\ \A e \in Emails : e # p.email => log'[e] = log[e]
      BY <2>2, <2>3 DEF MailInv, MailTypes
    <2>5. MailTypes'
      BY <1>0, <2>2, <2>3, <2>4, MailSlot DEF MailInv, MailTypes
    <2>6. MailCopies'
      BY <1>0, <2>2, MailSlot DEF MailInv, MailCopies
    <2>7. Mail!LogReachable'
      <3>1. p.email \in mapped \cup failed \cup keyGone
        BY <2>1 DEF MailInv, MailCopies
      <3> QED
        BY <2>2, <2>4, <3>1 DEF MailInv, Mail!LogReachable
    <2>8. Mail!DeliveryKept'
      <3> SUFFICES ASSUME NEW e \in heard', e \notin raced'
                   PROVE  log'[e].at
        BY DEF Mail!DeliveryKept
      <3>1. e \in Emails
        BY <2>5 DEF MailTypes
      <3>2. CASE e # p.email
        BY <3>1, <3>2, <2>2, <2>4 DEF MailInv, Mail!DeliveryKept
      <3>3. CASE e = p.email
        <4>1. p.seen = log[e] /\ e \notin raced
          BY <3>3, <2>2
        <4>2. e \in heard \/ p.new.status = "delivered"
          BY <3>3, <2>2
        <4>3. e \in heard => p.seen.at
          BY <4>1 DEF MailInv, Mail!DeliveryKept
        <4>4. p.new.at
          BY <4>2, <4>3, <2>1 DEF MailInv, MailCopies
        <4> QED
          BY <3>3, <4>4, <2>4
      <3> QED
        BY <3>2, <3>3
    <2> QED
      BY <2>5, <2>6, <2>7, <2>8 DEF MailInv
  <1>6. CASE Mail!Die(r)
    <2>1. /\ mailJob' = [mailJob EXCEPT ![r] = Mail!Idle]
          /\ UNCHANGED <<mailIds, sending, mailed, mapped, keyGone, idShown, log, failed, heard,
                         raced>>
      BY <1>6 DEF Mail!Die, Mail!Then
    <2> QED
      BY <1>0, <2>1, MailMoves DEF MailInv, MailTypes
  <1> QED
    BY <1>1, <1>2, <1>3, <1>4, <1>5, <1>6

LEMMA MailStep ==
  ASSUME MailInv, [Mail!Next]_email
  PROVE  MailInv'
  <1>1. CASE UNCHANGED email
    BY <1>1 DEF email, MailInv, MailTypes, MailCopies, Mail!LogReachable, Mail!DeliveryKept
  <1>2. ASSUME NEW e \in Emails, Mail!CallProvider(e)
        PROVE  MailInv'
    <2>1. /\ sending' \subseteq Emails /\ mailed' \subseteq Emails
          /\ UNCHANGED <<mailIds, mapped, keyGone, idShown, log, failed, heard, raced, mailJob>>
      BY <1>2 DEF Mail!CallProvider, MailInv, MailTypes
    <2> QED
      BY <2>1 DEF MailInv, MailTypes, MailCopies, Mail!LogReachable, Mail!DeliveryKept
  <1>3. ASSUME NEW e \in Emails, Mail!ProviderReports(e)
        PROVE  MailInv'
    BY <1>3 DEF Mail!ProviderReports, MailInv, MailTypes, MailCopies, Mail!LogReachable,
                Mail!DeliveryKept
  <1>4. ASSUME NEW e \in Emails, Mail!ProviderKeyExpires(e)
        PROVE  MailInv'
    <2>1. /\ mapped' \subseteq Emails /\ keyGone' \subseteq Emails
          /\ mapped \cup failed \cup keyGone \subseteq mapped' \cup failed' \cup keyGone'
          /\ UNCHANGED <<mailIds, sending, mailed, idShown, log, failed, heard, raced, mailJob>>
      BY <1>4 DEF Mail!ProviderKeyExpires, MailInv, MailTypes
    <2> QED
      BY <2>1 DEF MailInv, MailTypes, MailCopies, Mail!LogReachable, Mail!DeliveryKept
  <1>5. ASSUME NEW e \in Emails, Mail!LogExpires(e)
        PROVE  MailInv'
    <2>1. /\ log' = [log EXCEPT ![e] = Mail!NoLog] /\ Mail!NoLog \in Mail!Logs
          /\ heard' = heard \ {e}
          /\ UNCHANGED <<mailIds, sending, mailed, mapped, keyGone, idShown, failed, raced, mailJob>>
      BY <1>5 DEF Mail!LogExpires, Mail!Logs
    <2>2. MailTypes' /\ MailCopies'
      BY <2>1 DEF MailInv, MailTypes, MailCopies
    <2>3. \A i \in Emails : log'[i] = IF i = e THEN Mail!NoLog ELSE log[i]
      BY <2>1 DEF MailInv, MailTypes
    <2>4. heard \subseteq Emails
      BY DEF MailInv, MailTypes
    <2> QED
      BY <2>1, <2>2, <2>3, <2>4 DEF MailInv, Mail!LogReachable, Mail!DeliveryKept
  <1> QED
    BY <1>1, <1>2, <1>3, <1>4, <1>5, MailHandles DEF Mail!Next

LEMMA MailInit == Init => MailInv
  BY DEF Init, Mail!Init, Mail!Idle, Mail!NoLog, Mail!Logs, MailInv, MailTypes, MailJobs,
     MailCopies, Mail!LogReachable, Mail!DeliveryKept

LEMMA MailImplied == MailInv => Mail!EmailSafe
  <1> SUFFICES ASSUME MailInv PROVE Mail!EmailSafe
    OBVIOUS
  <1>1. \A r \in Reqs : mailJob[r].op \in {"none", "find", "map", "log"}
    BY MailJobKinds DEF MailInv, MailTypes
  <1> QED
    BY <1>1 DEF MailInv, MailTypes, Mail!TypeOK, Mail!EmailSafe

(* Preferences are what the user asked for and sends obey them, a template   *)
(* taken down stays down, an e-mail's log can be found by the id it shows,   *)
(* if that could be stored and has not expired, and keeps the time of a      *)
(* delivery.                                                                 *)
THEOREM MessagesSafety == Spec => []MessagesSafe
  <1>1. Init => For("notification", NoteInv) /\ For("email", MailInv)
    BY NoteInit, MailInit DEF For
  <1>2. For("notification", NoteInv) /\ For("email", MailInv) /\ [Next]_vars
          => (For("notification", NoteInv) /\ For("email", MailInv))'
    BY Moves, NoteStep, MailStep DEF For
  <1>3. For("notification", NoteInv) /\ For("email", MailInv) => MessagesSafe
    BY NoteImplied, MailImplied DEF For, MessagesSafe
  <1> QED
    BY <1>1, <1>2, <1>3, PTL DEF Spec

-----------------------------------------------------------------------------
(* rating-service *)

RateIds == 1..Bound["rating"]
Submissions == [by : RateIds, order : RatedOrders, rater : Raters,
                left : SUBSET Rate!Entries, rows : SUBSET Rate!Rows]
InFlight(r) == rateJob[r].by # 0
SameKey(x, y) == x.order = y.order /\ x.rater = y.rater

RateTypes == /\ ratings \subseteq Rate!Rows /\ listed \in [RateIds -> SUBSET Rate!Entries]
             /\ answers \in [RateIds -> Rate!Answers]
             /\ rateArrived \in 0..Bound["rating"]
             /\ rateJob \in [Reqs -> {Rate!Idle} \cup Submissions]

(* Every submission has a number of its own.                                 *)
Numbered ==
    /\ \A r \in Reqs : InFlight(r) => rateJob[r].by <= rateArrived
    /\ \A r, s \in Reqs : InFlight(r) /\ rateJob[r].by = rateJob[s].by => r = s
    /\ \A x \in ratings : x.by <= rateArrived
    /\ \A i \in RateIds : i > rateArrived => answers[i] = "none"

(* The entries that were taken have their rows.                              *)
Covered(r) ==
    /\ \A x \in rateJob[r].rows : x.subject \in listed[rateJob[r].by]
    /\ \A s \in listed[rateJob[r].by] \ rateJob[r].left : \E x \in rateJob[r].rows : x.subject = s
    /\ rateJob[r].left \subseteq listed[rateJob[r].by]

(* An open transaction holds rows of its own submission, under keys that no  *)
(* other transaction, open or committed, has; it has not been answered.      *)
OpenRows ==
    \A r \in Reqs : InFlight(r) =>
        /\ \A x \in rateJob[r].rows : /\ x.by = rateJob[r].by
                                      /\ x.order = rateJob[r].order /\ x.rater = rateJob[r].rater
        /\ Covered(r)
        /\ \A x \in ratings : x.by # rateJob[r].by
        /\ answers[rateJob[r].by] = "none"
        /\ \A x \in rateJob[r].rows, y \in ratings : ~SameKey(x, y)
        /\ \A s \in Reqs : InFlight(s) /\ s # r =>
              \A x \in rateJob[r].rows, y \in rateJob[s].rows : ~SameKey(x, y)

(* The rows of one rater and order come from one submission.                 *)
OneSubmission == \A x, y \in ratings : SameKey(x, y) => x.by = y.by

Whole(i) == /\ \A x \in ratings : x.by = i => x.subject \in listed[i]
            /\ \A s \in listed[i] : \E x \in ratings : x.by = i /\ x.subject = s
Absent(i) == \A x \in ratings : x.by # i
Truthful == \A i \in RateIds :
    /\ Whole(i) \/ Absent(i)
    /\ answers[i] = "submitted" => Whole(i)
    /\ answers[i] \in {"already_rated", "invalid"} => Absent(i)

RateInv == RateTypes /\ Numbered /\ OpenRows /\ OneSubmission /\ Truthful

LEMMA RateBound == Bound["rating"] \in Nat
  BY ServicesAssumption DEF ServiceNames

LEMMA RateSlots ==
  ASSUME RateInv, NEW r \in Reqs
  PROVE  /\ rateJob[r] # Rate!Idle <=> InFlight(r)
         /\ InFlight(r) => rateJob[r] \in Submissions
  <1>1. rateJob[r] \in {Rate!Idle} \cup Submissions
    BY DEF RateInv, RateTypes
  <1>2. \A q \in Submissions : q.by # 0
    BY RateBound DEF Submissions, RateIds
  <1>3. Rate!Idle.by = 0
    BY DEF Rate!Idle
  <1> QED
    BY <1>1, <1>2, <1>3 DEF InFlight

(* A submission begins.                                                      *)
LEMMA RateSubmit ==
  ASSUME RateInv, NEW r \in Reqs, NEW o \in RatedOrders, NEW u \in Raters,
         NEW entries \in SUBSET Rate!Entries, Rate!SubmitRating(r, o, u, entries)
  PROVE  RateInv'
  <1> DEFINE q == [by |-> rateArrived + 1, order |-> o, rater |-> u, left |-> entries, rows |-> {}]
  <1>1. /\ rateArrived + 1 \in RateIds /\ rateArrived' = rateArrived + 1
        /\ rateJob' = [rateJob EXCEPT ![r] = q] /\ UNCHANGED <<ratings, answers>>
        /\ listed' = [listed EXCEPT ![rateArrived + 1] = entries]
        /\ rateJob[r].by = 0
    BY RateBound DEF Rate!SubmitRating, Rate!Idle, RateIds, RateInv, RateTypes
  <1>2. q \in Submissions
    BY <1>1 DEF Submissions
  <1>3. /\ q.by = rateArrived + 1 /\ q.left = entries /\ q.rows = {}
    BY <1>1
  <1> HIDE DEF q
  <1>4. rateJob'[r] = q /\ \A s \in Reqs : s # r => rateJob'[s] = rateJob[s]
    BY <1>1 DEF RateInv, RateTypes
  <1>5. RateTypes'
    BY <1>1, <1>2, RateBound DEF RateInv, RateTypes, RateIds
  <1>6. rateArrived \in Nat /\ rateArrived + 1 # 0
    BY RateBound DEF RateInv, RateTypes
  <1>7. \A s \in Reqs : s # r => (InFlight(s)' <=> InFlight(s))
    BY <1>4 DEF InFlight
  <1>8. \A i \in RateIds : i \in Nat
    BY RateBound DEF RateIds
  <1>9. /\ \A s \in Reqs : InFlight(s) => rateJob[s].by \in RateIds
        /\ \A x \in ratings : x.by \in RateIds
    BY RateSlots DEF Submissions, RateInv, RateTypes, Rate!Rows, Rate!Ids, RateIds
  <1>10. listed'[q.by] = entries /\ \A i \in RateIds : i # q.by => listed'[i] = listed[i]
    BY <1>1, <1>3 DEF RateInv, RateTypes
  <1>11. /\ \A s \in Reqs : s # r /\ InFlight(s) => rateJob[s].by # q.by
         /\ \A x \in ratings : x.by # q.by
         /\ answers[q.by] = "none"
    BY <1>1, <1>3, <1>6, <1>8, <1>9 DEF RateInv, Numbered
  <1>12. Numbered'
    <2>2. \A s \in Reqs : InFlight(s)' => rateJob'[s].by <= rateArrived'
      BY <1>1, <1>3, <1>4, <1>6, <1>7, <1>8, <1>9 DEF RateInv, Numbered
    <2>3. \A s, t \in Reqs : InFlight(s)' /\ rateJob'[s].by = rateJob'[t].by => s = t
      BY <1>11, <1>3, <1>4, <1>6, <1>7 DEF RateInv, Numbered, InFlight
    <2>4. \A x \in ratings' : x.by <= rateArrived'
      BY <1>1, <1>6, <1>8, <1>9 DEF RateInv, Numbered
    <2>5. \A i \in RateIds : i > rateArrived' => answers'[i] = "none"
      BY <1>1, <1>6, <1>8 DEF RateInv, Numbered
    <2> QED
      BY <2>2, <2>3, <2>4, <2>5 DEF Numbered
  <1>13. OpenRows'
    <2>1. Covered(r)'
      BY <1>3, <1>4, <1>10 DEF Covered
    <2>2. \A s \in Reqs : s # r /\ InFlight(s) => Covered(s)'
      BY <1>4, <1>9, <1>10, <1>11 DEF RateInv, OpenRows, Covered
    <2> QED
      BY <1>1, <1>3, <1>4, <1>7, <1>11, <2>1, <2>2 DEF RateInv, OpenRows
  <1>14. Truthful'
    <2> SUFFICES ASSUME NEW i \in RateIds
                 PROVE  /\ Whole(i)' \/ Absent(i)'
                        /\ answers[i] = "submitted" => Whole(i)'
                        /\ answers[i] \in {"already_rated", "invalid"} => Absent(i)'
      BY <1>1 DEF Truthful
    <2>1. CASE i = q.by
      BY <2>1, <1>1, <1>11 DEF Absent
    <2>2. CASE i # q.by
      BY <2>2, <1>1, <1>10 DEF RateInv, Truthful, Whole, Absent
    <2> QED
      BY <2>1, <2>2
  <1> QED
    BY <1>1, <1>5, <1>12, <1>13, <1>14 DEF RateInv, OneSubmission

(* A row is inserted under a key nobody holds.                               *)
LEMMA RateInsert ==
  ASSUME RateInv, NEW r \in Reqs, NEW s \in Subjects, Rate!CreateRating(r, s),
         UNCHANGED answers
  PROVE  RateInv'
  <1> DEFINE p == rateJob[r]
             new == [by |-> p.by, order |-> p.order, rater |-> p.rater, subject |-> s]
             q == [by |-> p.by, order |-> p.order, rater |-> p.rater, left |-> p.left \ {s},
                   rows |-> p.rows \cup {new}]
  <1>1. InFlight(r) /\ p \in Submissions
    BY RateSlots DEF Rate!CreateRating
  <1>2. new \in Rate!Rows
    BY <1>1 DEF Submissions, Rate!Rows, Rate!Ids, RateIds
  <1>3. q \in Submissions /\ [p EXCEPT !.left = p.left \ {s}, !.rows = p.rows \cup {new}] = q
    <2>1. q \in Submissions
      BY <1>1, <1>2 DEF Submissions
    <2>2. ASSUME NEW b \in Submissions, NEW S, NEW T
          PROVE  [b EXCEPT !.left = S, !.rows = T]
                   = [by |-> b.by, order |-> b.order, rater |-> b.rater, left |-> S, rows |-> T]
      <3> DEFINE c == [by |-> b.by, order |-> b.order, rater |-> b.rater, left |-> S, rows |-> b.rows]
      <3>1. [b EXCEPT !.left = S] = c
        BY DEF Submissions
      <3>2. [c EXCEPT !.rows = T]
              = [by |-> b.by, order |-> b.order, rater |-> b.rater, left |-> S, rows |-> T]
        OBVIOUS
      <3>3. [b EXCEPT !.left = S, !.rows = T] = [[b EXCEPT !.left = S] EXCEPT !.rows = T]
        OBVIOUS
      <3> QED
        BY <3>1, <3>2, <3>3, Zenon
    <2> QED
      BY <1>1, <2>1, <2>2
  <1>4. ~Rate!Duplicate(new, ratings \cup p.rows)
    <2> SUFFICES ASSUME Rate!Duplicate(new, ratings \cup p.rows)
                 PROVE  FALSE
      OBVIOUS
    <2>1. answers' = [answers EXCEPT ![p.by] = "already_rated"]
      BY DEF Rate!CreateRating, Rate!Answer
    <2>2. answers[p.by] = "none" /\ p.by \in RateIds
      BY <1>1 DEF RateInv, OpenRows, Submissions
    <2> QED
      BY <2>1, <2>2 DEF RateInv, RateTypes
  <1>5. /\ rateJob' = [rateJob EXCEPT ![r] = q] /\ UNCHANGED <<ratings, listed, rateArrived>>
        /\ ~Rate!Locked(r, new)
    BY <1>3, <1>4 DEF Rate!CreateRating, Rate!Pending
  <1>6. /\ new.by = p.by /\ new.order = p.order /\ new.rater = p.rater
        /\ q.by = p.by /\ q.order = p.order /\ q.rater = p.rater /\ q.rows = p.rows \cup {new}
        /\ q.left = p.left \ {s} /\ new.subject = s /\ s \in p.left
    BY DEF Rate!CreateRating
  <1>7. /\ \A x \in ratings : ~SameKey(new, x)
        /\ \A t \in Reqs : t # r /\ InFlight(t) => \A x \in rateJob[t].rows : ~SameKey(new, x)
    BY <1>4, <1>5, RateSlots DEF Rate!Duplicate, Rate!Locked, SameKey
  <1> HIDE DEF new, q
  <1>8. rateJob'[r] = q /\ \A t \in Reqs : t # r => rateJob'[t] = rateJob[t]
    BY <1>5 DEF RateInv, RateTypes
  <1>9. \A t \in Reqs : (InFlight(t)' <=> InFlight(t)) /\ rateJob'[t].by = rateJob[t].by
    BY <1>6, <1>8 DEF InFlight
  <1>10. RateTypes'
    BY <1>3, <1>5 DEF RateInv, RateTypes
  <1>11. Numbered'
    BY <1>5, <1>9 DEF RateInv, Numbered
  <1>12. OpenRows'
    <2> SUFFICES ASSUME NEW t \in Reqs, InFlight(t)
                 PROVE  /\ \A x \in rateJob'[t].rows : /\ x.by = rateJob'[t].by
                              /\ x.order = rateJob'[t].order /\ x.rater = rateJob'[t].rater
                        /\ Covered(t)'
                        /\ \A x \in ratings : x.by # rateJob'[t].by
                        /\ answers[rateJob'[t].by] = "none"
                        /\ \A x \in rateJob'[t].rows, y \in ratings : ~SameKey(x, y)
                        /\ \A v \in Reqs : InFlight(v) /\ v # t =>
                             \A x \in rateJob'[t].rows, y \in rateJob'[v].rows : ~SameKey(x, y)
      BY <1>5, <1>9 DEF OpenRows
    <2>1. CASE t = r
      <3>1. Covered(r)'
        BY <1>1, <1>5, <1>6, <1>8 DEF RateInv, OpenRows, Covered
      <3> QED
        BY <2>1, <3>1, <1>1, <1>6, <1>7, <1>8 DEF RateInv, OpenRows
    <2>2. CASE t # r
      <3>1. \A x, y : SameKey(x, y) <=> SameKey(y, x)
        BY DEF SameKey
      <3>2. rateJob'[t] = rateJob[t]
        BY <2>2, <1>8
      <3>3. ASSUME NEW v \in Reqs, InFlight(v), v # t, NEW x \in rateJob[t].rows,
                   NEW y \in rateJob'[v].rows
            PROVE  ~SameKey(x, y)
        <4>1. y \in rateJob[v].rows \/ (v = r /\ y = new)
          BY <3>3, <1>6, <1>8
        <4> QED
          BY <4>1, <3>1, <3>3, <2>2, <1>1, <1>7 DEF RateInv, OpenRows
      <3>4. Covered(t)'
        BY <1>5, <3>2 DEF RateInv, OpenRows, Covered
      <3> QED
        BY <3>2, <3>3, <3>4 DEF RateInv, OpenRows
    <2> QED
      BY <2>1, <2>2
  <1> QED
    BY <1>5, <1>10, <1>11, <1>12 DEF RateInv, OneSubmission, Truthful, Whole, Absent

(* A transaction ends: with its rows and no refusal, or without them and any *)
(* answer but "submitted".                                                   *)
LEMMA RateEnds ==
  ASSUME RateInv, NEW r \in Reqs, InFlight(r), UNCHANGED <<listed, rateArrived>>,
         rateJob' = [rateJob EXCEPT ![r] = Rate!Idle],
         NEW a \in Rate!Answers, answers' = [answers EXCEPT ![rateJob[r].by] = a],
         \/ ratings' = ratings /\ a # "submitted"
         \/ /\ ratings' = ratings \cup rateJob[r].rows /\ rateJob[r].left = {}
            /\ a \notin {"already_rated", "invalid"}
  PROVE  RateInv'
  <1> DEFINE p == rateJob[r]
  <1>1. p \in Submissions /\ p.by \in RateIds /\ p.rows \subseteq Rate!Rows
    BY RateSlots DEF Submissions
  <1>2. rateJob'[r] = Rate!Idle /\ \A t \in Reqs : t # r => rateJob'[t] = rateJob[t]
    BY DEF RateInv, RateTypes
  <1>3. ~InFlight(r)' /\ \A t \in Reqs : t # r => (InFlight(t)' <=> InFlight(t))
    BY <1>2 DEF InFlight, Rate!Idle
  <1>4. answers'[p.by] = a /\ \A i \in RateIds : i # p.by => answers'[i] = answers[i]
    BY <1>1 DEF RateInv, RateTypes
  <1>5. /\ \A x \in p.rows : x.by = p.by /\ x.order = p.order /\ x.rater = p.rater
        /\ Covered(r)
        /\ \A x \in ratings : x.by # p.by
        /\ answers[p.by] = "none"
        /\ \A x \in p.rows, y \in ratings : ~SameKey(x, y)
        /\ \A s \in Reqs : InFlight(s) /\ s # r =>
              \A x \in p.rows, y \in rateJob[s].rows : ~SameKey(x, y)
    BY DEF RateInv, OpenRows
  <1>6. ratings \subseteq ratings' /\ \A x \in ratings' : x \in ratings \/ x \in p.rows
    OBVIOUS
  <1>7. RateTypes'
    BY <1>1, <1>6 DEF RateInv, RateTypes
  <1>8. \A t \in Reqs : t # r /\ InFlight(t) => rateJob[t].by # p.by /\ rateJob[t].by \in RateIds
    BY RateSlots DEF RateInv, Numbered, Submissions
  <1>9. Numbered'
    <2>1. \A t, v \in Reqs : InFlight(t)' /\ rateJob'[t].by = rateJob'[v].by => t = v
      BY <1>2, <1>3 DEF RateInv, Numbered, InFlight
    <2>2. \A x \in ratings' : x.by <= rateArrived
      BY <1>5, <1>6 DEF RateInv, Numbered
    <2>3. \A i \in RateIds : i > rateArrived => answers'[i] = "none"
      <3>1. p.by <= rateArrived /\ p.by \in Nat /\ rateArrived \in Nat
        BY <1>1, RateBound DEF RateInv, Numbered, RateTypes, RateIds
      <3>2. \A i \in RateIds : i > rateArrived => i # p.by
        BY <3>1, RateBound DEF RateIds
      <3> QED
        BY <3>2, <1>4 DEF RateInv, Numbered
    <2> QED
      BY <1>2, <1>3, <2>1, <2>2, <2>3 DEF RateInv, Numbered
  <1>10. OpenRows'
    <2> SUFFICES ASSUME NEW t \in Reqs, t # r, InFlight(t)
                 PROVE  /\ \A x \in ratings' : x.by # rateJob[t].by
                        /\ answers'[rateJob[t].by] = "none"
                        /\ \A x \in rateJob[t].rows, y \in ratings' : ~SameKey(x, y)
      BY <1>2, <1>3 DEF RateInv, OpenRows, Covered
    <2>1. \A x, y : SameKey(x, y) <=> SameKey(y, x)
      BY DEF SameKey
    <2>2. \A x \in rateJob[t].rows, y \in ratings' : ~SameKey(x, y)
      BY <1>5, <1>6, <2>1 DEF RateInv, OpenRows
    <2>3. \A x \in ratings' : x.by # rateJob[t].by
      BY <1>5, <1>6, <1>8 DEF RateInv, OpenRows
    <2>4. answers'[rateJob[t].by] = "none"
      BY <1>4, <1>8 DEF RateInv, OpenRows
    <2> QED
      BY <2>2, <2>3, <2>4
  <1>11. OneSubmission'
    <2> SUFFICES ASSUME NEW x \in ratings', NEW y \in ratings', SameKey(x, y)
                 PROVE  x.by = y.by
      BY DEF OneSubmission
    <2>1. SameKey(y, x)
      BY DEF SameKey
    <2>2. CASE x \in ratings /\ y \in ratings
      BY <2>2 DEF RateInv, OneSubmission
    <2> QED
      BY <2>1, <2>2, <1>5, <1>6
  <1>12. Truthful'
    <2> SUFFICES ASSUME NEW i \in RateIds
                 PROVE  /\ Whole(i)' \/ Absent(i)'
                        /\ answers'[i] = "submitted" => Whole(i)'
                        /\ answers'[i] \in {"already_rated", "invalid"} => Absent(i)'
      BY DEF Truthful
    <2>1. /\ Whole(i) \/ Absent(i)
          /\ answers[i] = "submitted" => Whole(i)
          /\ answers[i] \in {"already_rated", "invalid"} => Absent(i)
      BY DEF RateInv, Truthful
    <2>2. CASE i # p.by
      <3>1. \A x \in ratings' : x.by = i => x \in ratings
        BY <2>2, <1>5, <1>6
      <3>2. (Whole(i) => Whole(i)') /\ (Absent(i) => Absent(i)')
        BY <3>1, <1>6 DEF Whole, Absent
      <3> QED
        BY <2>1, <2>2, <3>2, <1>4
    <2>3. CASE i = p.by
      <3>1. CASE ratings' = ratings /\ a # "submitted"
        BY <2>3, <3>1, <1>4, <1>5 DEF Absent
      <3>2. CASE /\ ratings' = ratings \cup p.rows /\ p.left = {}
                 /\ a \notin {"already_rated", "invalid"}
        <4>1. Whole(i)'
          BY <2>3, <3>2, <1>5 DEF Whole, Covered
        <4> QED
          BY <2>3, <3>2, <4>1, <1>4
      <3> QED
        BY <3>1, <3>2
    <2> QED
      BY <2>2, <2>3
  <1> QED
    BY <1>7, <1>9, <1>10, <1>11, <1>12 DEF RateInv

LEMMA RateStep ==
  ASSUME RateInv, [Rate!Next]_rating
  PROVE  RateInv'
  <1>1. CASE UNCHANGED rating
    BY <1>1 DEF rating, RateInv, RateTypes, Numbered, OpenRows, Covered, InFlight, OneSubmission,
                Truthful, Whole, Absent
  <1>2. ASSUME NEW r \in Reqs, NEW a \in Rate!Answers, Rate!Answer(r, a), InFlight(r),
               \/ ratings' = ratings /\ a # "submitted"
               \/ /\ ratings' = ratings \cup rateJob[r].rows /\ rateJob[r].left = {}
                  /\ a \notin {"already_rated", "invalid"}
        PROVE  RateInv'
    BY <1>2, RateEnds DEF Rate!Answer
  <1>3. ASSUME NEW r \in Reqs, Rate!RejectEntry(r) \/ Rate!Commit(r) \/ Rate!InsertFails(r)
                                  \/ Rate!CommitFails(r) \/ Rate!Die(r)
        PROVE  RateInv'
    <2>1. InFlight(r)
      BY <1>3, RateSlots DEF Rate!RejectEntry, Rate!Commit, Rate!InsertFails, Rate!CommitFails, Rate!Die
    <2>2. {"none", "submitted", "already_rated", "invalid", "error"} = Rate!Answers
      BY DEF Rate!Answers
    <2>3. CASE Rate!RejectEntry(r)
      BY <1>2, <2>1, <2>2, <2>3 DEF Rate!RejectEntry
    <2>4. CASE Rate!Commit(r)
      BY <1>2, <2>1, <2>2, <2>4 DEF Rate!Commit
    <2>5. CASE Rate!InsertFails(r)
      BY <1>2, <2>1, <2>2, <2>5 DEF Rate!InsertFails
    <2>6. CASE Rate!CommitFails(r)
      <3>1. PICK a \in {"error", "none"} : Rate!Answer(r, a)
        BY <2>6 DEF Rate!CommitFails
      <3>2. ratings' = ratings \/ (ratings' = ratings \cup rateJob[r].rows /\ rateJob[r].left = {})
        BY <2>6 DEF Rate!CommitFails
      <3> QED
        BY <1>2, <2>1, <2>2, <3>1, <3>2
    <2>7. CASE Rate!Die(r)
      BY <1>2, <2>1, <2>2, <2>7 DEF Rate!Die
    <2> QED
      BY <1>3, <2>3, <2>4, <2>5, <2>6, <2>7
  <1>4. ASSUME NEW r \in Reqs, NEW s \in Subjects, Rate!CreateRating(r, s)
        PROVE  RateInv'
    <2>1. InFlight(r)
      BY <1>4, RateSlots DEF Rate!CreateRating
    <2>2. \/ UNCHANGED answers
          \/ Rate!Answer(r, "already_rated") /\ UNCHANGED ratings
      BY <1>4 DEF Rate!CreateRating
    <2> QED
      BY <1>2, <1>4, <2>1, <2>2, RateInsert DEF Rate!Answers
  <1> QED
    BY <1>1, <1>3, <1>4, RateSubmit DEF Rate!Next

LEMMA RateInit == Init => RateInv
  <1> SUFFICES ASSUME Rate!Init PROVE RateInv
    BY DEF Init
  <1>1. \A r \in Reqs : ~InFlight(r)
    BY DEF Rate!Init, Rate!Idle, InFlight
  <1>2. RateTypes
    BY RateBound DEF Rate!Init, RateTypes, RateIds, Rate!Ids, Rate!Answers
  <1>3. Numbered /\ OpenRows
    BY <1>1 DEF Rate!Init, Numbered, OpenRows, RateIds, Rate!Ids
  <1>4. OneSubmission /\ Truthful
    BY DEF Rate!Init, OneSubmission, Truthful, Absent, RateIds, Rate!Ids
  <1> QED
    BY <1>2, <1>3, <1>4 DEF RateInv

LEMMA RateImplied == RateInv => Rate!RatingSafe
  <1> SUFFICES ASSUME RateInv PROVE Rate!RatingSafe
    OBVIOUS
  <1>1. ASSUME NEW r \in Reqs, rateJob[r] # Rate!Idle
        PROVE  rateJob[r].rows \subseteq Rate!Rows /\ rateJob[r].left \subseteq Rate!Entries
    BY <1>1, RateSlots DEF Submissions
  <1>2. Rate!RatedOnce
    <2> SUFFICES ASSUME NEW x \in ratings, NEW y \in ratings, x.order = y.order,
                        x.rater = y.rater, x.subject = y.subject
                 PROVE  x = y
      BY DEF Rate!RatedOnce
    <2>1. x.by = y.by
      BY DEF RateInv, OneSubmission, SameKey
    <2>2. x \in Rate!Rows /\ y \in Rate!Rows
      BY DEF RateInv, RateTypes
    <2> QED
      BY <2>1, <2>2 DEF Rate!Rows
  <1>3. \A i \in RateIds : /\ (Whole(i) => (Rate!Rated(i) = listed[i]))
                            /\ (Absent(i) => (Rate!Rated(i) = {}))
    BY DEF Whole, Absent, Rate!Rated
  <1>4. Rate!Ids = RateIds
    BY DEF Rate!Ids, RateIds
  <1>5. Rate!AllOrNone
    <2> SUFFICES ASSUME NEW i \in RateIds
                 PROVE  Rate!Rated(i) = {} \/ Rate!Rated(i) = listed[i]
      BY <1>4 DEF Rate!AllOrNone
    <2> QED
      BY <1>3 DEF RateInv, Truthful
  <1>6. Rate!AnswerTruthful
    <2> SUFFICES ASSUME NEW i \in RateIds
                 PROVE  /\ answers[i] = "submitted" => Rate!Rated(i) = listed[i]
                        /\ answers[i] \in {"already_rated", "invalid"} => Rate!Rated(i) = {}
      BY <1>4 DEF Rate!AnswerTruthful
    <2> QED
      BY <1>3 DEF RateInv, Truthful
  <1> QED
    BY <1>1, <1>2, <1>4, <1>5, <1>6 DEF RateInv, RateTypes, Rate!TypeOK, Rate!RatingSafe

(* No subject of an order is rated twice by a rater, a list of entries is    *)
(* stored whole or not at all, and the answers are true of the rows: for any *)
(* number of submissions that overlap or fail.                               *)
THEOREM RatingSafety == Spec => []RatingSafe
  <1>1. Init => For("rating", RateInv)
    BY RateInit DEF For
  <1>2. For("rating", RateInv) /\ [Next]_vars => For("rating", RateInv)'
    BY Moves, RateStep DEF For
  <1>3. For("rating", RateInv) => RatingSafe
    BY RateImplied DEF For, RatingSafe
  <1> QED
    BY <1>1, <1>2, <1>3, PTL DEF Spec

-----------------------------------------------------------------------------
(* payment-service, cash on delivery *)

CodRows == [status : Cod!Statuses, left : 0..Guesses, token : BOOLEAN]
CodJobs == [op : {"none", "judge", "insert"}] \cup [op : {"count"}, seen : 0..(MaxCount - 1)]
           \cup [op : {"update"}, id : CodIds, copy : CodRows]
Judging == {r \in Reqs : codJob[r].op = "judge"}
Writing(r, v) == codJob[r].op = "update" /\ codJob[r].id = v
Granting(c) == c.status \in {"verified", "accepted"}

CodTypes == /\ asks \in 0..MaxCount /\ initiated \in Nat /\ collided \in BOOLEAN
            /\ row \in [CodIds -> CodRows] /\ wrong \in [CodIds -> Nat]
            /\ handed \subseteq CodIds /\ overdue \subseteq CodIds /\ mixed \subseteq CodIds
            /\ codJob \in [Reqs -> CodJobs]

(* Unless increments collide who counts is alone and has seen the count, and *)
(* the limiter has counted all it granted and all it is yet to judge.        *)
CountLane ==
    ~collided => /\ \A r \in Reqs : codJob[r].op = "count" => codJob[r].seen = asks
                 /\ \A r, s \in Reqs : codJob[r].op = "count" /\ codJob[s].op = "count" => r = s
                 /\ initiated + Cardinality(Judging) <= asks
                 /\ initiated <= maxAttempts

(* A row that says verified has its token, and so has a copy of it; who      *)
(* writes a verification alone has counted on its copy every wrong guess.    *)
CodCopies ==
    /\ \A v \in CodIds : /\ row[v].status = "none" => row[v] = Cod!NoRow /\ wrong[v] = 0
                         /\ Granting(row[v]) => row[v].token
    /\ \A r \in Reqs, v \in CodIds : Writing(r, v) =>
          /\ row[v].status # "none" /\ codJob[r].copy.status # "none"
          /\ Granting(codJob[r].copy) => codJob[r].copy.token
          /\ v \notin mixed =>
                /\ codJob[r].copy.left + wrong[v] = Guesses
                /\ row[v].token => codJob[r].copy.token
                /\ \A s \in Reqs : Writing(s, v) => s = r

CodInv == CodTypes /\ CountLane /\ CodCopies /\ Cod!GuessesCounted /\ Cod!ToldIsSaved

LEMMA CodConstants ==
  /\ MaxCount \in Nat /\ maxAttempts \in Nat /\ Guesses \in Nat /\ Bound["cod"] \in Nat
  BY ServicesAssumption DEF ServiceNames

LEMMA CodSlot ==
  ASSUME CodInv, NEW r \in Reqs, NEW j \in CodJobs, codJob' = [codJob EXCEPT ![r] = j]
  PROVE  /\ codJob' \in [Reqs -> CodJobs] /\ codJob'[r] = j
         /\ \A s \in Reqs : s # r => codJob'[s] = codJob[s]
  BY DEF CodInv, CodTypes

LEMMA WritesKnown ==
  ASSUME CodInv, NEW r \in Reqs, codJob[r].op = "update"
  PROVE  codJob[r].id \in CodIds /\ codJob[r].copy \in CodRows
  BY DEF CodInv, CodTypes, CodJobs

LEMMA CodJobKinds ==
  /\ Cod!NoRow \in CodRows /\ Cod!Free \in CodJobs
  /\ Cod!Free.op = "none" /\ Cod!NoRow.status = "none" /\ Cod!NoRow.left = 0
  /\ Cod!NoRow.token = FALSE
  /\ \A op \in {"judge", "insert"} : [op |-> op] \in CodJobs
  /\ \A n \in 0..(MaxCount - 1) : [op |-> "count", seen |-> n] \in CodJobs
  /\ \A v \in CodIds, c \in CodRows : [op |-> "update", id |-> v, copy |-> c] \in CodJobs
  BY CodConstants DEF CodRows, CodJobs, Cod!NoRow, Cod!Free, Cod!Statuses

LEMMA JudgingSize == IsFiniteSet(Judging) /\ Cardinality(Judging) \in Nat
  BY SizeOfPart, ServicesAssumption DEF Judging

(* Who neither counts nor judges afterwards leaves the limiter as it was.    *)
LEMMA CountKept ==
  ASSUME CodInv, NEW r \in Reqs, NEW j \in CodJobs, codJob' = [codJob EXCEPT ![r] = j],
         j.op # "count", j.op # "judge", UNCHANGED <<asks, initiated, collided>>
  PROVE  CountLane'
  <1>1. codJob'[r] = j /\ \A s \in Reqs : s # r => codJob'[s] = codJob[s]
    BY CodSlot
  <1>2. Judging' = Judging \ {r}
    BY <1>1 DEF Judging
  <1>3. PICK n \in Nat, m \in Nat : /\ n = Cardinality(Judging) /\ m = Cardinality(Judging')
                                   /\ m <= n
    BY <1>2, JudgingSize, SizeLess
  <1>4. asks \in Nat /\ initiated \in Nat
    BY CodConstants DEF CodInv, CodTypes
  <1>5. initiated + n <= asks => initiated + m <= asks
    BY <1>3, <1>4
  <1> QED
    BY <1>1, <1>3, <1>5 DEF CodInv, CountLane

(* A step of the limiter, or a new row: nobody starts or ends a write.       *)
LEMMA CodQuiet ==
  ASSUME CodInv, NEW r \in Reqs, NEW j \in CodJobs, codJob' = [codJob EXCEPT ![r] = j],
         j.op # "update", codJob[r].op # "update",
         asks' \in 0..MaxCount, initiated' \in Nat, collided' \in BOOLEAN, CountLane',
         UNCHANGED <<overdue, row, wrong, handed, mixed>>
  PROVE  CodInv'
  <1>1. CodTypes'
    BY CodSlot DEF CodInv, CodTypes
  <1>2. \A s \in Reqs, v \in CodIds : Writing(s, v)' <=> Writing(s, v)
    BY CodSlot DEF Writing
  <1>3. \A s \in Reqs : codJob[s].op = "update" => codJob'[s] = codJob[s]
    BY CodSlot
  <1>4. CodCopies'
    <2>1. \A s \in Reqs, v \in CodIds : Writing(s, v) => codJob'[s].copy = codJob[s].copy
      BY <1>3 DEF Writing
    <2> QED
      BY <1>2, <2>1 DEF CodInv, CodCopies, Granting
  <1>5. \A v \in CodIds : Cod!Busy(v)' = {} <=> Cod!Busy(v) = {}
    BY <1>2 DEF Cod!Busy, Writing
  <1> QED
    BY <1>1, <1>4, <1>5 DEF CodInv, Cod!GuessesCounted, Cod!ToldIsSaved

(* A handler reads the row and changes its copy.                             *)
LEMMA CodReads ==
  ASSUME CodInv, NEW r \in Reqs, NEW v \in CodIds, NEW c \in CodRows, Cod!Begin(r, v, c),
         c.status # "none", Granting(c) => c.token, row[v].token => c.token,
         wrong' \in [CodIds -> Nat], \A u \in CodIds : u # v => wrong'[u] = wrong[u],
         row[v].left + wrong[v] = Guesses => c.left + wrong'[v] = Guesses
  PROVE  CodInv'
  <1> DEFINE j == [op |-> "update", id |-> v, copy |-> c]
  <1>1. /\ j \in CodJobs /\ codJob' = [codJob EXCEPT ![r] = j] /\ codJob[r].op = "none"
        /\ mixed' = IF Cod!Busy(v) = {} THEN mixed ELSE mixed \cup {v}
        /\ row[v] # Cod!NoRow /\ UNCHANGED <<overdue, asks, initiated, collided, row, handed>>
    BY CodJobKinds DEF Cod!Begin, Cod!Goes, Cod!Arrive
  <1>2. j.op = "update" /\ j.id = v /\ j.copy = c
    OBVIOUS
  <1> HIDE DEF j
  <1>3. codJob'[r] = j /\ \A s \in Reqs : s # r => codJob'[s] = codJob[s]
    BY <1>1, CodSlot
  <1>4. CodTypes'
    BY <1>1, CodSlot DEF CodInv, CodTypes
  <1>5. \A s \in Reqs, u \in CodIds :
           Writing(s, u)' <=> IF s = r THEN u = v ELSE Writing(s, u)
    BY <1>2, <1>3 DEF Writing
  <1>6. Cod!Busy(v) = {} <=> \A s \in Reqs : ~Writing(s, v)
    BY DEF Cod!Busy, Writing
  <1>7. ~\E u \in CodIds : Writing(r, u)
    BY <1>1 DEF Writing
  <1>8. row[v].status # "none"
    BY <1>1 DEF CodInv, CodCopies
  <1>9. \A u \in CodIds : u \notin mixed' => u \notin mixed
    BY <1>1
  <1>10. v \notin mixed' => /\ \A s \in Reqs : ~Writing(s, v)
                            /\ row[v].left + wrong[v] = Guesses
    BY <1>1, <1>6 DEF CodInv, Cod!GuessesCounted
  <1>11. CodCopies'
    <2>1. \A u \in CodIds : /\ row'[u].status = "none" => row'[u] = Cod!NoRow /\ wrong'[u] = 0
                            /\ Granting(row'[u]) => row'[u].token
      BY <1>1, <1>8 DEF CodInv, CodCopies
    <2>2. ASSUME NEW s \in Reqs, NEW u \in CodIds, Writing(s, u)'
          PROVE  /\ row'[u].status # "none" /\ codJob'[s].copy.status # "none"
                 /\ Granting(codJob'[s].copy) => codJob'[s].copy.token
                 /\ u \notin mixed' =>
                      /\ codJob'[s].copy.left + wrong'[u] = Guesses
                      /\ row'[u].token => codJob'[s].copy.token
                      /\ \A t \in Reqs : Writing(t, u)' => t = s
      <3>1. CASE s = r
        <4>1. u = v /\ codJob'[s].copy = c
          BY <3>1, <2>2, <1>2, <1>3, <1>5
        <4> QED
          BY <3>1, <4>1, <1>1, <1>5, <1>8, <1>10
      <3>2. CASE s # r
        <4>1. Writing(s, u) /\ codJob'[s] = codJob[s]
          BY <3>2, <2>2, <1>3, <1>5
        <4>2. u \notin mixed' => u # v
          BY <4>1, <1>10
        <4> QED
          BY <3>2, <4>1, <4>2, <1>1, <1>5, <1>9 DEF CodInv, CodCopies
      <3> QED
        BY <3>1, <3>2
    <2> QED
      BY <2>1, <2>2 DEF CodCopies, Granting
  <1>12. Cod!GuessesCounted'
    <2>1. \A u \in CodIds : Cod!Busy(u)' = {} => u # v /\ Cod!Busy(u) = {}
      BY <1>5, <1>7 DEF Cod!Busy, Writing
    <2> QED
      BY <2>1, <1>1, <1>9 DEF CodInv, Cod!GuessesCounted
  <1>13. Cod!ToldIsSaved'
    BY <1>1, <1>9 DEF CodInv, Cod!ToldIsSaved
  <1>14. CountLane'
    BY <1>1, <1>2, CountKept
  <1> QED
    BY <1>4, <1>11, <1>12, <1>13, <1>14 DEF CodInv

(* It writes the copy back, or fails to; or it ends without.                 *)
LEMMA CodWrites ==
  ASSUME CodInv, NEW r \in Reqs, NEW v \in CodIds, Writing(r, v),
         codJob' = [codJob EXCEPT ![r] = Cod!Free],
         UNCHANGED <<overdue, asks, initiated, collided, wrong>>,
         \/ row' = [row EXCEPT ![v] = codJob[r].copy] /\ UNCHANGED mixed
         \/ mixed' = mixed \cup {v} /\ UNCHANGED row,
         \/ handed' = handed
         \/ handed' = handed \cup {v} /\ Granting(codJob[r].copy)
  PROVE  CodInv'
  <1>1. codJob'[r] = Cod!Free /\ \A s \in Reqs : s # r => codJob'[s] = codJob[s]
    BY CodSlot, CodJobKinds
  <1>2. codJob[r].copy \in CodRows
    BY WritesKnown DEF Writing
  <1>3. CodTypes'
    BY <1>2, CodSlot, CodJobKinds DEF CodInv, CodTypes
  <1>4. \A s \in Reqs, u \in CodIds : Writing(s, u)' <=> s # r /\ Writing(s, u)
    BY <1>1, CodJobKinds DEF Writing
  <1>5. \A u \in CodIds : u # v => row'[u] = row[u]
    BY DEF CodInv, CodTypes
  <1>6. row'[v] = row[v] \/ row'[v] = codJob[r].copy
    BY DEF CodInv, CodTypes
  <1>7. \A u \in CodIds : u \notin mixed' => u \notin mixed
    OBVIOUS
  <1>8. v \notin mixed' => /\ row'[v] = codJob[r].copy
                           /\ \A s \in Reqs : ~Writing(s, v)'
    BY <1>4 DEF CodInv, CodTypes, CodCopies
  <1>9. CodCopies'
    <2>1. row'[v].status # "none" /\ (Granting(row'[v]) => row'[v].token)
      BY <1>6 DEF CodInv, CodCopies
    <2>2. \A u \in CodIds : /\ row'[u].status = "none" => row'[u] = Cod!NoRow /\ wrong'[u] = 0
                            /\ Granting(row'[u]) => row'[u].token
      BY <2>1, <1>5 DEF CodInv, CodCopies
    <2>3. ASSUME NEW s \in Reqs, NEW u \in CodIds, Writing(s, u)'
          PROVE  /\ row'[u].status # "none" /\ codJob'[s].copy.status # "none"
                 /\ Granting(codJob'[s].copy) => codJob'[s].copy.token
                 /\ u \notin mixed' =>
                      /\ codJob'[s].copy.left + wrong'[u] = Guesses
                      /\ row'[u].token => codJob'[s].copy.token
                      /\ \A t \in Reqs : Writing(t, u)' => t = s
      <3>1. Writing(s, u) /\ codJob'[s] = codJob[s]
        BY <2>3, <1>1, <1>4
      <3>2. u \notin mixed' => u # v /\ u \notin mixed
        BY <2>3, <1>7, <1>8
      <3> QED
        BY <3>1, <3>2, <2>1, <1>4, <1>5 DEF CodInv, CodCopies
    <2> QED
      BY <2>2, <2>3 DEF CodCopies, Granting
  <1>10. Cod!GuessesCounted'
    <2> SUFFICES ASSUME NEW u \in CodIds \ mixed', row'[u] # Cod!NoRow, Cod!Busy(u)' = {}
                 PROVE  row'[u].left + wrong'[u] = Guesses
      BY DEF Cod!GuessesCounted
    <2>1. CASE u = v
      BY <2>1, <1>7, <1>8 DEF CodInv, CodCopies
    <2>2. CASE u # v
      <3>1. Cod!Busy(u) = {}
        <4>1. \A s \in Reqs : ~Writing(s, u)'
          BY DEF Cod!Busy, Writing
        <4>2. ~Writing(r, u)
          BY <2>2 DEF Writing
        <4> QED
          BY <4>1, <4>2, <1>4 DEF Cod!Busy, Writing
      <3> QED
        BY <2>2, <3>1, <1>5, <1>7 DEF CodInv, Cod!GuessesCounted
    <2> QED
      BY <2>1, <2>2
  <1>11. Cod!ToldIsSaved'
    <2> SUFFICES ASSUME NEW u \in (CodIds \ mixed') \cap handed'
                 PROVE  row'[u].token
      BY DEF Cod!ToldIsSaved
    <2>1. CASE u = v
      <3>1. u \in handed => row[u].token
        BY <2>1, <1>7 DEF CodInv, Cod!ToldIsSaved
      <3>2. codJob[r].copy.token
        BY <2>1, <3>1, <1>7 DEF CodInv, CodCopies
      <3> QED
        BY <2>1, <3>2, <1>8
    <2>2. CASE u # v
      BY <2>2, <1>5, <1>7 DEF CodInv, Cod!ToldIsSaved
    <2> QED
      BY <2>1, <2>2
  <1>12. CountLane'
    BY CodJobKinds, CountKept
  <1> QED
    BY <1>3, <1>9, <1>10, <1>11, <1>12 DEF CodInv

(* The limiter reads its count ...                                           *)
LEMMA CodAllow ==
  ASSUME CodInv, NEW r \in Reqs, Cod!Allow(r)
  PROVE  CodInv'
  <1>1. /\ codJob[r] = Cod!Free /\ asks < MaxCount
        /\ codJob' = [codJob EXCEPT ![r] = [op |-> "count", seen |-> asks]]
        /\ collided' = (collided \/ \E s \in Reqs : codJob[s].op = "count")
        /\ UNCHANGED <<overdue, asks, initiated, row, wrong, handed, mixed>>
    BY DEF Cod!Allow, Cod!Arrive, Cod!Goes
  <1>2. asks \in 0..MaxCount /\ initiated \in Nat /\ collided \in BOOLEAN /\ CountLane
    BY DEF CodInv, CodTypes
  <1>3. asks \in 0..(MaxCount - 1)
    BY <1>1, <1>2, CodConstants
  <1>4. PICK j \in CodJobs : /\ codJob' = [codJob EXCEPT ![r] = j]
                             /\ j.op = "count" /\ j.seen = asks
    BY <1>1, <1>3, CodJobKinds
  <1>5. codJob'[r] = j /\ \A s \in Reqs : s # r => codJob'[s] = codJob[s]
    BY <1>4, CodSlot
  <1>6. codJob[r].op = "none"
    BY <1>1, CodJobKinds
  <1>7. Judging' = Judging
    BY <1>4, <1>5, <1>6 DEF Judging
  <1>8. collided' \in BOOLEAN
    BY <1>1, <1>2, Zenon
  <1>9. ~collided' => ~collided /\ \A s \in Reqs : codJob[s].op # "count"
    BY <1>1
  <1>10. CountLane'
    BY <1>1, <1>2, <1>4, <1>5, <1>7, <1>9 DEF CountLane
  <1> QED
    BY <1>1, <1>2, <1>4, <1>6, <1>8, <1>10, CodQuiet

(* ... writes it ...                                                         *)
LEMMA CodIncr ==
  ASSUME CodInv, NEW r \in Reqs, Cod!Incr(r)
  PROVE  CodInv'
  <1>1. /\ codJob[r].op = "count" /\ asks' = codJob[r].seen + 1
        /\ codJob' = [codJob EXCEPT ![r] = [op |-> "judge"]]
        /\ UNCHANGED <<overdue, initiated, collided, row, wrong, handed, mixed>>
    BY DEF Cod!Incr, Cod!Goes
  <1>2. asks \in 0..MaxCount /\ initiated \in Nat /\ collided \in BOOLEAN /\ CountLane
    BY DEF CodInv, CodTypes
  <1>3. codJob[r].seen \in 0..(MaxCount - 1)
    BY <1>1 DEF CodInv, CodTypes, CodJobs
  <1>4. asks' \in 0..MaxCount
    BY <1>1, <1>3, CodConstants
  <1>5. PICK j \in CodJobs : codJob' = [codJob EXCEPT ![r] = j] /\ j.op = "judge"
    BY <1>1, CodJobKinds
  <1>6. codJob'[r] = j /\ \A s \in Reqs : s # r => codJob'[s] = codJob[s]
    BY <1>5, CodSlot
  <1>7. Judging' = Judging \cup {r} /\ r \notin Judging
    BY <1>1, <1>5, <1>6 DEF Judging
  <1>8. PICK n \in Nat, m \in Nat : /\ n = Cardinality(Judging) /\ m = Cardinality(Judging')
                                   /\ m = n + 1
    BY <1>7, JudgingSize, SizeMore
  <1>9. asks \in Nat
    BY <1>2, CodConstants
  <1>10. CountLane'
    <2> SUFFICES ASSUME ~collided PROVE CountLane'
      BY <1>1 DEF CountLane
    <2>1. asks' = asks + 1 /\ \A s \in Reqs : codJob[s].op = "count" => s = r
      BY <1>1, <1>2 DEF CountLane
    <2>2. \A s \in Reqs : codJob'[s].op # "count"
      BY <1>5, <1>6, <2>1
    <2>3. initiated + n <= asks /\ initiated <= maxAttempts
      BY <1>2, <1>8 DEF CountLane
    <2>4. initiated + m <= asks'
      BY <1>2, <1>8, <1>9, <2>1, <2>3
    <2> QED
      BY <1>1, <1>8, <2>2, <2>3, <2>4 DEF CountLane
  <1> QED
    BY <1>1, <1>2, <1>4, <1>5, <1>10, CodQuiet

(* ... and judges by it.                                                     *)
LEMMA CodJudge ==
  ASSUME CodInv, NEW r \in Reqs, Cod!Judge(r)
  PROVE  CodInv'
  <1>1. /\ codJob[r].op = "judge" /\ UNCHANGED <<overdue, asks, collided, row, wrong, handed, mixed>>
        /\ \/ /\ asks <= maxAttempts /\ initiated' = initiated + 1
              /\ codJob' = [codJob EXCEPT ![r] = [op |-> "insert"]]
           \/ initiated' = initiated /\ codJob' = [codJob EXCEPT ![r] = Cod!Free]
    BY DEF Cod!Judge, Cod!Allowed, Cod!Goes
  <1>2. asks \in 0..MaxCount /\ initiated \in Nat /\ collided \in BOOLEAN /\ CountLane
    BY DEF CodInv, CodTypes
  <1>3. PICK j \in CodJobs : /\ codJob' = [codJob EXCEPT ![r] = j]
                             /\ j.op \in {"insert", "none"}
    <2>1. CASE codJob' = [codJob EXCEPT ![r] = [op |-> "insert"]]
      BY <2>1, CodJobKinds
    <2>2. CASE codJob' = [codJob EXCEPT ![r] = Cod!Free]
      BY <2>2, CodJobKinds
    <2> QED
      BY <1>1, <2>1, <2>2
  <1>4. codJob'[r] = j /\ \A s \in Reqs : s # r => codJob'[s] = codJob[s]
    BY <1>3, CodSlot
  <1>5. Judging' = Judging \ {r} /\ r \in Judging
    BY <1>1, <1>3, <1>4 DEF Judging
  <1>6. PICK n \in Nat, m \in Nat : /\ n = Cardinality(Judging) /\ m = Cardinality(Judging')
                                   /\ n = m + 1
    BY <1>5, JudgingSize, SizeLess
  <1>7. asks \in Nat /\ maxAttempts \in Nat
    BY <1>2, CodConstants
  <1>8. initiated' \in Nat
    BY <1>1, <1>2
  <1>9. CountLane'
    <2> SUFFICES ASSUME ~collided PROVE CountLane'
      BY <1>1 DEF CountLane
    <2>1. initiated + n <= asks /\ initiated <= maxAttempts
      BY <1>2, <1>6 DEF CountLane
    <2>2. initiated' + m <= asks /\ initiated' <= maxAttempts
      <3>1. CASE asks <= maxAttempts /\ initiated' = initiated + 1
        BY <1>2, <1>6, <1>7, <2>1, <3>1
      <3>2. CASE initiated' = initiated
        BY <1>2, <1>6, <1>7, <2>1, <3>2
      <3> QED
        BY <1>1, <3>1, <3>2
    <2>3. \A s \in Reqs : codJob'[s].op = "count" => codJob[s].op = "count" /\ codJob'[s] = codJob[s]
      BY <1>3, <1>4
    <2> QED
      BY <1>1, <1>2, <1>6, <2>2, <2>3 DEF CountLane
  <1> QED
    BY <1>1, <1>2, <1>3, <1>8, <1>9, CodQuiet

LEMMA CodHandles ==
  ASSUME CodInv, NEW r \in Reqs,
         \/ Cod!Requests(r) \/ Cod!Incr(r) \/ Cod!Judge(r) \/ Cod!CreateCodVerification(r)
         \/ Cod!UpdateCodVerification(r) \/ Cod!Die(r)
  PROVE  CodInv'
  <1>0. /\ asks \in 0..MaxCount /\ initiated \in Nat /\ collided \in BOOLEAN /\ CountLane
    BY DEF CodInv, CodTypes
  <1>1. CASE Cod!Allow(r) \/ Cod!Incr(r) \/ Cod!Judge(r)
    BY <1>1, CodAllow, CodIncr, CodJudge
  <1>3. CASE Cod!CreateCodVerification(r)
    <2>1. PICK v \in CodIds :
            /\ row[v] = Cod!NoRow
            /\ row' = [row EXCEPT ![v] = [status |-> "pending", left |-> Guesses, token |-> FALSE]]
      BY <1>3 DEF Cod!CreateCodVerification
    <2>2. /\ codJob[r].op = "insert" /\ codJob' = [codJob EXCEPT ![r] = Cod!Free]
          /\ UNCHANGED <<overdue, asks, initiated, collided, wrong, handed, mixed>>
      BY <1>3 DEF Cod!CreateCodVerification
    <2>3. PICK w \in CodRows : /\ w.status = "pending" /\ w.left = Guesses /\ ~w.token
                               /\ w = [status |-> "pending", left |-> Guesses, token |-> FALSE]
      <3>1. [status |-> "pending", left |-> Guesses, token |-> FALSE] \in CodRows
        BY CodConstants DEF CodRows, Cod!Statuses
      <3> QED
        BY <3>1
    <2>4. row'[v] = w /\ \A u \in CodIds : u # v => row'[u] = row[u]
      BY <2>1, <2>3 DEF CodInv, CodTypes
    <2>5. codJob'[r] = Cod!Free /\ \A s \in Reqs : s # r => codJob'[s] = codJob[s]
      BY <2>2, CodSlot, CodJobKinds
    <2>6. \A s \in Reqs, u \in CodIds : /\ Writing(s, u)' <=> Writing(s, u)
                                        /\ Writing(s, u) => codJob'[s] = codJob[s]
      BY <2>2, <2>5, CodJobKinds DEF Writing
    <2>7. \A s \in Reqs : ~Writing(s, v)
      BY <2>1, CodJobKinds DEF CodInv, CodCopies
    <2>8. wrong[v] = 0
      BY <2>1, CodJobKinds DEF CodInv, CodCopies
    <2>9. CodTypes'
      BY <2>1, <2>2, <2>3, CodSlot, CodJobKinds DEF CodInv, CodTypes
    <2>10. CodCopies'
      <3>1. \A u \in CodIds : /\ row'[u].status = "none" => row'[u] = Cod!NoRow /\ wrong'[u] = 0
                              /\ Granting(row'[u]) => row'[u].token
        BY <2>2, <2>3, <2>4 DEF CodInv, CodCopies, Granting
      <3>2. ASSUME NEW s \in Reqs, NEW u \in CodIds, Writing(s, u)'
            PROVE  /\ row'[u].status # "none" /\ codJob'[s].copy.status # "none"
                   /\ Granting(codJob'[s].copy) => codJob'[s].copy.token
                   /\ u \notin mixed' =>
                        /\ codJob'[s].copy.left + wrong'[u] = Guesses
                        /\ row'[u].token => codJob'[s].copy.token
                        /\ \A t \in Reqs : Writing(t, u)' => t = s
        BY <3>2, <2>2, <2>4, <2>6, <2>7 DEF CodInv, CodCopies
      <3> QED
        BY <3>1, <3>2 DEF CodCopies, Granting
    <2>11. Cod!GuessesCounted'
      <3>1. Guesses + 0 = Guesses
        BY CodConstants
      <3>2. \A u \in CodIds : Cod!Busy(u)' = {} <=> Cod!Busy(u) = {}
        BY <2>6 DEF Cod!Busy, Writing
      <3> QED
        BY <3>1, <3>2, <2>2, <2>3, <2>4, <2>8 DEF CodInv, Cod!GuessesCounted
    <2>12. Cod!ToldIsSaved'
      <3>1. v \notin (CodIds \ mixed) \cap handed
        BY <2>1, CodJobKinds DEF CodInv, Cod!ToldIsSaved
      <3> QED
        BY <3>1, <2>2, <2>4 DEF CodInv, Cod!ToldIsSaved
    <2>13. CountLane'
      BY <2>2, CodJobKinds, CountKept
    <2> QED
      BY <2>9, <2>10, <2>11, <2>12, <2>13 DEF CodInv
  <1>4. ASSUME NEW v \in CodIds, NEW yes \in BOOLEAN,
               Cod!SubmitCodOTP(r, v, yes) \/ Cod!RespondCodVerification(r, v, yes)
        PROVE  CodInv'
    <2>1. PICK w \in CodRows : w = row[v]
      BY DEF CodInv, CodTypes
    <2>2. w.status # "none" /\ (Granting(w) => w.token) /\ wrong[v] \in Nat
      BY <1>4, <2>1 DEF Cod!SubmitCodOTP, Cod!RespondCodVerification, Cod!Begin, CodInv, CodCopies,
                        CodTypes
    <2>3. ASSUME NEW c \in CodRows, Cod!Begin(r, v, c), c.left = w.left, UNCHANGED wrong,
                 \/ c.status \in {"verified", "accepted"} /\ c.token
                 \/ c.status = "rejected" /\ c.token = w.token
          PROVE  CodInv'
      BY <2>1, <2>3, CodReads DEF CodInv, CodTypes, Granting
    <2>4. CASE Cod!SubmitCodOTP(r, v, yes) /\ yes
      <3>1. PICK c \in CodRows : /\ c = Cod!Verified(w) /\ c.left = w.left
                                 /\ c.status = "verified" /\ c.token
        <4>1. Cod!Verified(w) \in CodRows
          BY DEF Cod!Verified, CodRows, Cod!Statuses
        <4> QED
          BY <4>1 DEF Cod!Verified, CodRows
      <3> QED
        BY <2>1, <2>3, <2>4, <3>1 DEF Cod!SubmitCodOTP
    <2>5. CASE Cod!SubmitCodOTP(r, v, yes) /\ ~yes
      <3>1. w.left > 0 /\ w.left \in 0..Guesses
        BY <2>1, <2>5 DEF Cod!SubmitCodOTP, CodRows
      <3>2. w.left - 1 \in 0..Guesses
        BY <3>1, CodConstants
      <3>3. PICK c \in CodRows : /\ c = Cod!Decremented(w) /\ c.left = w.left - 1
                                 /\ c.status \in {"failed", w.status} /\ c.token = w.token
        <4>1. Cod!Decremented(w) \in CodRows
          BY <3>2 DEF Cod!Decremented, CodRows, Cod!Statuses
        <4> QED
          BY <4>1 DEF Cod!Decremented, CodRows
      <3>4. Cod!Begin(r, v, c) /\ wrong' = [wrong EXCEPT ![v] = wrong[v] + 1]
        BY <2>1, <2>5, <3>3 DEF Cod!SubmitCodOTP
      <3>5. /\ wrong' \in [CodIds -> Nat] /\ wrong'[v] = wrong[v] + 1
            /\ \A u \in CodIds : u # v => wrong'[u] = wrong[u]
        BY <2>2, <3>4 DEF CodInv, CodTypes
      <3>6. row[v].left + wrong[v] = Guesses => c.left + wrong'[v] = Guesses
        BY <2>1, <2>2, <3>1, <3>3, <3>5
      <3>7. c.status # "none" /\ (Granting(c) => c.token) /\ (row[v].token => c.token)
        BY <2>1, <2>2, <3>3 DEF Granting
      <3> QED
        BY <3>4, <3>5, <3>6, <3>7, CodReads
    <2>6. CASE Cod!RespondCodVerification(r, v, yes)
      <3>1. PICK c \in CodRows : /\ c = [w EXCEPT !.status = "rejected"] /\ c.left = w.left
                                 /\ c.status = "rejected" /\ c.token = w.token
        <4>1. [w EXCEPT !.status = "rejected"] \in CodRows
          BY DEF CodRows, Cod!Statuses
        <4> QED
          BY <4>1 DEF CodRows
      <3>2. PICK d \in CodRows : /\ d = [w EXCEPT !.status = "accepted", !.token = TRUE]
                                 /\ d.left = w.left /\ d.status = "accepted" /\ d.token
        <4>1. [w EXCEPT !.status = "accepted", !.token = TRUE] \in CodRows
          BY DEF CodRows, Cod!Statuses
        <4> QED
          BY <4>1 DEF CodRows
      <3>3. UNCHANGED wrong /\ (Cod!Begin(r, v, c) \/ Cod!Begin(r, v, d))
        BY <2>1, <2>6, <3>1, <3>2 DEF Cod!RespondCodVerification
      <3> QED
        BY <2>3, <3>1, <3>2, <3>3
    <2> QED
      BY <1>4, <2>4, <2>5, <2>6
  <1>5. CASE Cod!UpdateCodVerification(r)
    <2>1. PICK v : v = codJob[r].id
      OBVIOUS
    <2>2. codJob[r].op = "update" /\ v \in CodIds /\ Writing(r, v)
      BY <1>5, <2>1, WritesKnown DEF Cod!UpdateCodVerification, Writing
    <2> QED
      BY <1>5, <2>1, <2>2, CodWrites DEF Cod!UpdateCodVerification, Granting
  <1>6. CASE Cod!Die(r)
    <2>1. CASE codJob[r].op = "update"
      <3>1. PICK v : v = codJob[r].id
        OBVIOUS
      <3>2. v \in CodIds /\ Writing(r, v)
        BY <2>1, <3>1, WritesKnown DEF Writing
      <3> QED
        BY <1>6, <2>1, <3>1, <3>2, CodWrites DEF Cod!Die
    <2>2. CASE codJob[r].op # "update"
      <3>1. /\ codJob' = [codJob EXCEPT ![r] = Cod!Free] /\ mixed' = mixed
            /\ UNCHANGED <<overdue, asks, initiated, collided, row, wrong, handed>>
        BY <1>6, <2>2 DEF Cod!Die
      <3>2. CountLane'
        BY <3>1, CodJobKinds, CountKept
      <3> QED
        BY <1>0, <2>2, <3>1, <3>2, CodQuiet, CodJobKinds
    <2> QED
      BY <2>1, <2>2
  <1> QED
    BY <1>1, <1>3, <1>4, <1>5, <1>6 DEF Cod!Requests

LEMMA CodStep ==
  ASSUME CodInv, [Cod!Next]_codVerification
  PROVE  CodInv'
  <1>1. CASE UNCHANGED codVerification
    <2>1. /\ asks' = asks /\ collided' = collided /\ initiated' = initiated /\ row' = row
          /\ overdue' = overdue /\ wrong' = wrong /\ handed' = handed /\ mixed' = mixed
          /\ codJob' = codJob
      BY <1>1 DEF codVerification
    <2> QED
      BY <2>1 DEF CodInv, CodTypes, CountLane, Judging, CodCopies, Writing, Cod!GuessesCounted,
                  Cod!Busy, Cod!ToldIsSaved
  <1>2. CASE Cod!Restart
    <2>1. /\ asks' = 0 /\ initiated' = 0 /\ collided' = FALSE
          /\ mixed' = mixed \cup {v \in CodIds : Cod!Busy(v) # {}}
          /\ codJob' = [r \in Reqs |-> Cod!Free]
          /\ UNCHANGED <<overdue, row, wrong, handed>>
      BY <1>2 DEF Cod!Restart
    <2>2. asks' \in 0..MaxCount /\ initiated' \in Nat /\ asks' = 0
      BY <2>1, CodConstants
    <2>3. collided' \in BOOLEAN
      BY <2>1, Zenon
    <2>4. \A r \in Reqs : codJob'[r] = Cod!Free /\ codJob'[r].op = "none"
      BY <2>1, CodJobKinds
    <2>5. Judging' = {} /\ Cardinality(Judging') = 0
      BY <2>4, FS_EmptySet DEF Judging
    <2>6. CountLane'
      BY <2>1, <2>4, <2>5, CodConstants DEF CountLane
    <2>7. CodTypes'
      BY <2>1, <2>2, <2>3, CodJobKinds DEF CodInv, CodTypes
    <2>8. \A r \in Reqs, v \in CodIds : ~Writing(r, v)'
      BY <2>4 DEF Writing
    <2>9. CodCopies'
      BY <2>1, <2>8 DEF CodInv, CodCopies
    <2>10. Cod!GuessesCounted' /\ Cod!ToldIsSaved'
      BY <2>1 DEF CodInv, Cod!GuessesCounted, Cod!ToldIsSaved
    <2> QED
      BY <2>6, <2>7, <2>9, <2>10 DEF CodInv
  <1>3. ASSUME NEW v \in CodIds, Cod!Lapse(v)
        PROVE  CodInv'
    <2>1. /\ asks' = asks /\ collided' = collided /\ initiated' = initiated /\ row' = row
          /\ wrong' = wrong /\ handed' = handed /\ mixed' = mixed /\ codJob' = codJob
          /\ overdue' = overdue \cup {v}
      BY <1>3 DEF Cod!Lapse
    <2>2. CodTypes' /\ CountLane'
      BY <2>1 DEF CodInv, CodTypes, CountLane, Judging
    <2> QED
      BY <2>1, <2>2 DEF CodInv, CodCopies, Writing, Cod!GuessesCounted, Cod!Busy, Cod!ToldIsSaved
  <1> QED
    BY <1>1, <1>2, <1>3, CodHandles DEF Cod!Next

LEMMA CodInit == Init => CodInv
  <1> SUFFICES ASSUME Init PROVE CodInv
    OBVIOUS
  <1>1. /\ asks = 0 /\ initiated = 0 /\ collided = FALSE /\ handed = {} /\ overdue = {} /\ mixed = {}
        /\ row = [v \in CodIds |-> Cod!NoRow] /\ wrong = [v \in CodIds |-> 0]
        /\ codJob = [r \in Reqs |-> Cod!Free]
    BY DEF Init, Cod!Init
  <1>2. CodTypes /\ CountLane
    <2>0. \A r \in Reqs : codJob[r].op = "none"
      BY <1>1, CodJobKinds
    <2>1. /\ asks \in 0..MaxCount /\ initiated \in Nat /\ asks = 0
          /\ Judging = {} /\ Cardinality(Judging) = 0
      BY <1>1, <2>0, CodConstants, FS_EmptySet DEF Judging
    <2>2. collided \in BOOLEAN
      BY <1>1, Zenon
    <2>4. CountLane
      BY <1>1, <2>0, <2>1, CodConstants DEF CountLane
    <2>3. row \in [CodIds -> CodRows] /\ wrong \in [CodIds -> Nat] /\ codJob \in [Reqs -> CodJobs]
      BY <1>1, CodJobKinds
    <2> QED
      BY <1>1, <2>1, <2>2, <2>3, <2>4 DEF CodTypes
  <1> QED
    BY <1>1, <1>2, CodJobKinds
       DEF CodInv, CodCopies, Writing, Granting, Cod!GuessesCounted, Cod!ToldIsSaved

LEMMA CodImplied == CodInv => Cod!CodSafe
  <1> SUFFICES ASSUME CodInv PROVE Cod!CodSafe
    OBVIOUS
  <1>1. \A r \in Reqs : codJob[r].op \in {"none", "count", "judge", "insert", "update"}
    BY DEF CodInv, CodTypes, CodJobs
  <1>2. Cod!TypeOK
    BY <1>1 DEF CodInv, CodTypes, CodRows, Cod!TypeOK
  <1>3. Cod!LimitHolds
    BY DEF CodInv, CountLane, Cod!LimitHolds
  <1> QED
    BY <1>2, <1>3 DEF CodInv, Cod!CodSafe

-----------------------------------------------------------------------------
(* payment-service *)

PayOps == {"none", "charge", "refund", "hold", "capture", "release", "settle"}
PayRows == [order : PaidOrders, wallet : BOOLEAN, from : Holds \cup {0},
            status : {"completed", "pending", "refunded"}]
PayJobs == {q \in [op : PayOps, at : 1..3, id : PaidOrders \cup Holds \cup {0},
                   of : PaidOrders \cup Nat, wallet : BOOLEAN] :
               /\ q.op \in {"charge", "refund", "settle"} => q.id \in PaidOrders
               /\ q.op \in {"hold", "capture", "release"} => q.id \in Holds
               /\ q.op \in {"hold", "capture"} => q.of \in PaidOrders
               /\ q.op = "refund" => q.of \in Nat
               /\ q.op \in {"charge", "hold", "release", "settle"} => q.at \in 1..2}

PayTypes == /\ method \in [Methods -> {"none", "plain", "default"}]
            /\ heldFor \in [Holds -> PaidOrders \cup {0}] /\ onWallet \subseteq Holds
            /\ charges \in Seq(PayRows) /\ refunds \subseteq Nat \X {"processed", "pending"}
            /\ hold \in [Holds -> {"none", "held", "captured", "released"}]
            /\ settled \in [PaidOrders -> [Reqs -> Nat]]
            /\ captured \in [Holds -> [Reqs -> Nat]]
            /\ payJob \in [Reqs -> PayJobs]

ChargedFrom(h) == \E i \in DOMAIN charges : charges[i].from = h

(* What a handler has seen or done stays true: the charge it refunds, and    *)
(* the refund before the mark; the hold it captures, releases or makes; the  *)
(* charge before a capture is told, the release before it is.                *)
Backed(q) == q.op = "refund" => /\ q.of \in DOMAIN charges /\ q.wallet = charges[q.of].wallet
                                /\ q.at >= 2 /\ q.wallet => <<q.of, "processed">> \in refunds
Standing(q) == /\ q.op \in {"capture", "release"} => hold[q.id] # "none"
               /\ q.op = "hold" /\ q.at = 1 => hold[q.id] = "none"
Told(q) == /\ q.op = "capture" /\ q.at >= 2 => ChargedFrom(q.id)
           /\ q.op = "release" /\ q.at = 2 => <<q.id, "released">> \in was
JobOk(q) == Backed(q) /\ Standing(q) /\ Told(q)

(* A hold that exists has its order, one that does not was never captured,   *)
(* and one handler makes it.                                                 *)
HoldsKept == /\ \A h \in Holds : /\ hold[h] # "none" => heldFor[h] \in PaidOrders
                                 /\ hold[h] = "none" => \A r \in Reqs : captured[h][r] = 0
             /\ \A r, s \in Reqs : payJob[r].op = "hold" /\ payJob[s].op = "hold"
                                   /\ payJob[r].id = payJob[s].id => r = s

(* Once slot r has captured h the hold is closed, or r is about to close it. *)
CapturedBy(h, r) ==
    <<h, "unwritten">> \notin was =>
       \/ captured[h][r] = 0
       \/ /\ captured[h][r] = 1
          /\ payJob[r].op = "capture" /\ payJob[r].id = h => payJob[r].at # 1
          /\ \/ hold[h] \in {"captured", "released"}
             \/ payJob[r].op = "capture" /\ payJob[r].id = h /\ payJob[r].at = 2

SettledBy(o, r) ==
    /\ settled[o][r] <= 1
    /\ payJob[r].op = "settle" /\ payJob[r].id = o /\ payJob[r].at = 1 => settled[o][r] = 0
    /\ payJob[r].op = "settle" /\ payJob[r].id = o /\ payJob[r].at = 2 => settled[o][r] > 0

PayInv == /\ PayTypes /\ HoldsKept
          /\ \A r \in Reqs : JobOk(payJob[r])
          /\ \A h \in Holds, r \in Reqs : CapturedBy(h, r)
          /\ \A o \in PaidOrders, r \in Reqs : SettledBy(o, r)
          /\ Pay!RefundBacked /\ Pay!Announced

(* The statements of each handler.                                           *)
LEMMA PayPlans ==
  ASSUME NEW op \in PayOps \ {"none"}
  PROVE  /\ op \in {"charge", "settle", "hold"} =>
               /\ Pay!Plan(op)[1] = "insert" /\ Pay!Plan(op)[2] = "publish"
               /\ Len(Pay!Plan(op)) = 2
         /\ op = "refund" =>
               /\ Pay!Plan(op)[1] = "refund" /\ Pay!Plan(op)[2] = "mark"
               /\ Pay!Plan(op)[3] = "publish" /\ Len(Pay!Plan(op)) = 3
         /\ op = "capture" =>
               /\ Pay!Plan(op)[1] = "charge" /\ Pay!Plan(op)[2] = "close"
               /\ Pay!Plan(op)[3] = "publish" /\ Len(Pay!Plan(op)) = 3
         /\ op = "release" =>
               /\ Pay!Plan(op)[1] = "close" /\ Pay!Plan(op)[2] = "publish"
               /\ Len(Pay!Plan(op)) = 2
  <1>1. CASE op \in {"charge", "settle", "hold"}
    <2>1. Pay!Plan(op) = <<"insert", "publish">>
      BY <1>1 DEF Pay!Plan
    <2> QED
      BY <1>1, <2>1
  <1>2. CASE op = "refund"
    <2>1. Pay!Plan(op) = <<"refund", "mark", "publish">>
      BY <1>2 DEF Pay!Plan
    <2> QED
      BY <1>2, <2>1
  <1>3. CASE op = "capture"
    <2>1. Pay!Plan(op) = <<"charge", "close", "publish">>
      BY <1>3 DEF Pay!Plan
    <2> QED
      BY <1>3, <2>1
  <1>4. CASE op = "release"
    <2>1. Pay!Plan(op) = <<"close", "publish">>
      BY <1>4 DEF Pay!Plan
    <2> QED
      BY <1>4, <2>1
  <1> QED
    BY <1>1, <1>2, <1>3, <1>4 DEF PayOps

LEMMA PayKinds ==
  ASSUME NEW q \in PayJobs
  PROVE  /\ q.op \in PayOps /\ q.at \in 1..3 /\ q.wallet \in BOOLEAN
         /\ q.op \in {"charge", "refund", "settle"} => q.id \in PaidOrders
         /\ q.op \in {"hold", "capture", "release"} => q.id \in Holds
         /\ q.op \in {"hold", "capture"} => q.of \in PaidOrders
         /\ q.op = "refund" => q.of \in Nat
         /\ q.op \in {"charge", "hold", "release", "settle"} => q.at \in 1..2
  BY DEF PayJobs

LEMMA PayNull == /\ Pay!Null \in PayJobs /\ Pay!Null.op = "none" /\ JobOk(Pay!Null)
  BY DEF Pay!Null, PayJobs, PayOps, JobOk, Backed, Standing, Told

LEMMA PaySlot ==
  ASSUME PayInv, NEW r \in Reqs
  PROVE  /\ payJob[r] \in PayJobs
         /\ \A q \in PayJobs : payJob' = [payJob EXCEPT ![r] = q] =>
               /\ payJob' \in [Reqs -> PayJobs] /\ payJob'[r] = q
               /\ \A s \in Reqs : s # r => payJob'[s] = payJob[s]
  BY DEF PayInv, PayTypes

(* Which handler a statement belongs to.                                     *)
LEMMA PaySteps ==
  ASSUME PayInv, NEW r \in Reqs
  PROVE  /\ Pay!Step(r) = "insert" => payJob[r].op \in {"charge", "settle", "hold"} /\ payJob[r].at = 1
         /\ Pay!Step(r) = "charge" <=> payJob[r].op = "capture" /\ payJob[r].at = 1
         /\ Pay!Step(r) = "refund" <=> payJob[r].op = "refund" /\ payJob[r].at = 1
         /\ Pay!Step(r) = "mark" <=> payJob[r].op = "refund" /\ payJob[r].at = 2
         /\ Pay!Step(r) = "close" <=> \/ payJob[r].op = "capture" /\ payJob[r].at = 2
                                      \/ payJob[r].op = "release" /\ payJob[r].at = 1
         /\ Pay!Step(r) = "publish" =>
               \/ payJob[r].op \in {"charge", "settle", "hold", "release"} /\ payJob[r].at = 2
               \/ payJob[r].op \in {"refund", "capture"} /\ payJob[r].at = 3
  <1>1. PICK q \in PayJobs : q = payJob[r]
    BY PaySlot
  <1>2. q.op \in PayOps /\ q.at \in 1..3
    BY PayKinds
  <1>3. CASE q.op = "none"
    BY <1>1, <1>3 DEF Pay!Step
  <1>4. CASE q.op # "none"
    <2>1. q.op \in PayOps \ {"none"} /\ Pay!Step(r) = Pay!Plan(q.op)[q.at]
      BY <1>1, <1>2, <1>4 DEF Pay!Step
    <2>2. q.op \in {"charge", "hold", "release", "settle"} => q.at \in 1..2
      BY PayKinds
    <2>3. q.at = 1 \/ q.at = 2 \/ q.at = 3
      BY <1>2
    <2> QED
      BY <1>1, <2>1, <2>2, <2>3, PayPlans DEF PayOps
  <1> QED
    BY <1>3, <1>4

(* The handler goes on to its next statement, or is done.                    *)
LEMMA PayAdvances ==
  ASSUME PayInv, NEW r \in Reqs, Pay!Done(r), payJob[r].op # "none"
  PROVE  \E q \in PayJobs :
            /\ payJob' = [payJob EXCEPT ![r] = q]
            /\ Pay!Step(r) = "publish" => q = Pay!Null
            /\ Pay!Step(r) # "publish" => /\ q.op = payJob[r].op /\ q.id = payJob[r].id
                                          /\ q.of = payJob[r].of /\ q.wallet = payJob[r].wallet
                                          /\ q.at = payJob[r].at + 1
  <1>1. PICK p \in PayJobs : p = payJob[r]
    BY PaySlot
  <1>2. p.op \in PayOps \ {"none"} /\ p.at \in 1..3 /\ p.op # "none"
    BY <1>1, PayKinds
  <1>3. p.op \in {"charge", "hold", "release", "settle"} => p.at \in 1..2
    BY PayKinds
  <1>4. payJob' = [payJob EXCEPT ![r] = IF p.at = Len(Pay!Plan(p.op)) THEN Pay!Null
                                         ELSE [p EXCEPT !.at = p.at + 1]]
    BY <1>1 DEF Pay!Done
  <1>5. Pay!Step(r) = Pay!Plan(p.op)[p.at]
    BY <1>1, <1>2 DEF Pay!Step
  <1>6. CASE p.at = Len(Pay!Plan(p.op))
    <2>1. Pay!Step(r) = "publish"
      BY <1>2, <1>5, <1>6, PayPlans DEF PayOps
    <2> QED
      BY <1>4, <1>6, <2>1, PayNull
  <1>7. CASE p.at # Len(Pay!Plan(p.op))
    <2>1. /\ p.op \in {"charge", "settle", "hold", "release"} => p.at = 1
          /\ p.op \in {"refund", "capture"} => p.at \in 1..2
      <3>1. p.at = 1 \/ p.at = 2 \/ p.at = 3
        BY <1>2
      <3>2. /\ p.op \in {"charge", "settle", "hold", "release"} => p.at # 2 /\ p.at # 3
            /\ p.op \in {"refund", "capture"} => p.at # 3
        <4>1. CASE p.op \in {"charge", "settle", "hold"}
          <5>1. p.at # 2
            BY <1>2, <1>7, <4>1, PayPlans
          <5>2. p.at # 3
            BY <1>3, <4>1
          <5> QED
            BY <4>1, <5>1, <5>2
        <4>2. CASE p.op = "release"
          <5>1. p.at # 2
            BY <1>2, <1>7, <4>2, PayPlans
          <5>2. p.at # 3
            BY <1>3, <4>2
          <5> QED
            BY <4>2, <5>1, <5>2
        <4>3. CASE p.op = "refund"
          BY <1>2, <1>7, <4>3, PayPlans
        <4>4. CASE p.op = "capture"
          BY <1>2, <1>7, <4>4, PayPlans
        <4> QED
          BY <4>1, <4>2, <4>3, <4>4
      <3> QED
        BY <3>1, <3>2
    <2>2. Pay!Step(r) # "publish"
      BY <1>2, <1>5, <2>1, PayPlans DEF PayOps
    <2>3. PICK q : q = [p EXCEPT !.at = p.at + 1]
      OBVIOUS
    <2>4. /\ q.op = p.op /\ q.id = p.id /\ q.of = p.of /\ q.wallet = p.wallet
          /\ q.at = p.at + 1
      BY <2>3 DEF PayJobs
    <2>5. q \in [op : PayOps, at : 1..3, id : PaidOrders \cup Holds \cup {0},
                 of : PaidOrders \cup Nat, wallet : BOOLEAN]
      <3>1. p.at + 1 \in 1..3
        BY <1>2, <2>1 DEF PayOps
      <3> QED
        BY <2>3, <3>1 DEF PayJobs
    <2>6. q \in PayJobs
      <3>1. q.op \in {"charge", "hold", "release", "settle"} => q.at \in 1..2
        BY <2>1, <2>4
      <3> QED
        BY <2>4, <2>5, <3>1, PayKinds DEF PayJobs
    <2> QED
      BY <1>1, <1>4, <1>7, <2>2, <2>3, <2>4, <2>6
  <1> QED
    BY <1>6, <1>7

(* The rows grow and keep what handlers rely on.                             *)
Grows == /\ \A i \in DOMAIN charges : /\ i \in DOMAIN charges'
                                      /\ charges'[i].wallet = charges[i].wallet
                                      /\ charges'[i].from = charges[i].from
         /\ refunds \subseteq refunds' /\ was \subseteq was'
         /\ \A h \in Holds : hold[h] # "none" => hold'[h] # "none"

LEMMA PayFrame ==
  ASSUME PayInv, NEW r \in Reqs, NEW q \in PayJobs, payJob' = [payJob EXCEPT ![r] = q],
         Grows, JobOk(q)',
         \A s \in Reqs : s # r /\ payJob[s].op = "hold" /\ payJob[s].at = 1
                            => hold'[payJob[s].id] = hold[payJob[s].id]
  PROVE  /\ payJob' \in [Reqs -> PayJobs]
         /\ \A s \in Reqs : JobOk(payJob[s])'
         /\ \A h : ChargedFrom(h) => ChargedFrom(h)'
  <1>1. \A h : ChargedFrom(h) => ChargedFrom(h)'
    BY DEF ChargedFrom, Grows
  <1>2. payJob' \in [Reqs -> PayJobs] /\ payJob'[r] = q
    BY PaySlot
  <1>3. ASSUME NEW s \in Reqs, s # r
        PROVE  JobOk(payJob[s])'
    <2>1. PICK p \in PayJobs : p = payJob[s] /\ p = payJob'[s]
      BY <1>3, PaySlot
    <2>2. JobOk(p) /\ (p.op = "hold" /\ p.at = 1 => hold'[p.id] = hold[p.id])
      BY <2>1, <1>3 DEF PayInv
    <2>3. p.op \in {"hold", "capture", "release"} => p.id \in Holds
      BY PayKinds
    <2>4. Backed(p)'
      BY <2>2 DEF JobOk, Backed, Grows
    <2>5. Standing(p)'
      BY <2>2, <2>3 DEF JobOk, Standing, Grows
    <2>6. Told(p)'
      BY <2>2, <1>1 DEF JobOk, Told, Grows
    <2> QED
      BY <2>1, <2>4, <2>5, <2>6 DEF JobOk
  <1> QED
    BY <1>1, <1>2, <1>3

(* A handler that begins.                                                    *)
LEMMA PayBegins ==
  ASSUME PayInv, NEW r \in Reqs, NEW q \in PayJobs, payJob' = [payJob EXCEPT ![r] = q],
         payJob[r].op = "none", q.at = 1, JobOk(q),
         UNCHANGED <<method, charges, refunds, hold, heldFor, onWallet, settled, captured, was, events>>,
         q.op = "hold" => \A s \in Reqs : payJob[s].op = "hold" => payJob[s].id # q.id,
         q.op = "capture" => hold[q.id] = "held",
         q.op = "settle" => settled[q.id][r] = 0
  PROVE  PayInv'
  <1>1. payJob'[r] = q /\ \A s \in Reqs : s # r => payJob'[s] = payJob[s]
    BY PaySlot
  <1>2. JobOk(q)' /\ Grows
    BY DEF JobOk, Backed, Standing, Told, ChargedFrom, Grows
  <1>3. PayTypes' /\ \A s \in Reqs : JobOk(payJob[s])'
    BY <1>2, PayFrame DEF PayInv, PayTypes
  <1>4. HoldsKept'
    BY <1>1 DEF PayInv, HoldsKept
  <1>5. ASSUME NEW h \in Holds, NEW s \in Reqs
        PROVE  CapturedBy(h, s)'
    BY <1>1 DEF PayInv, CapturedBy
  <1>6. ASSUME NEW o \in PaidOrders, NEW s \in Reqs
        PROVE  SettledBy(o, s)'
    BY <1>1 DEF PayInv, SettledBy
  <1>7. Pay!RefundBacked' /\ Pay!Announced'
    BY DEF PayInv, Pay!RefundBacked, Pay!Announced, Pay!SettlementExistsByOrderID
  <1> QED
    BY <1>3, <1>4, <1>5, <1>6, <1>7 DEF PayInv

LEMMA MethodStep ==
  ASSUME PayInv, Pay!MethodRequests
  PROVE  PayInv'
  <1>1. UNCHANGED <<charges, refunds, hold, heldFor, onWallet, settled, captured, was, events, payJob>>
    BY DEF Pay!MethodRequests
  <1>2. method' \in [Methods -> {"none", "plain", "default"}]
    BY DEF Pay!MethodRequests, Pay!AddPaymentMethod, Pay!DeletePaymentMethod,
           Pay!SetDefaultPaymentMethod, PayInv, PayTypes
  <1> QED
    BY <1>1, <1>2 DEF PayInv, PayTypes, HoldsKept, JobOk, Backed, Standing, Told, ChargedFrom,
       CapturedBy, SettledBy, Pay!RefundBacked, Pay!Announced, Pay!SettlementExistsByOrderID

LEMMA PayRequests ==
  ASSUME PayInv, NEW r \in Reqs, Pay!Requests(r)
  PROVE  PayInv'
  <1>1. UNCHANGED <<method, charges, refunds, hold, heldFor, onWallet, settled, captured, was, events>>
    BY DEF Pay!Requests
  <1> DEFINE R(op, id, of, wallet) ==
        [op |-> op, at |-> 1, id |-> id, of |-> of, wallet |-> wallet]
  <1>2. ASSUME NEW op, NEW id, NEW of, NEW wallet, Pay!Begin(r, op, id, of, wallet)
        PROVE  payJob' = [payJob EXCEPT ![r] = R(op, id, of, wallet)] /\ payJob[r].op = "none"
    BY <1>2, PayNull DEF Pay!Begin
  <1>3. ASSUME NEW op, NEW id, NEW of, NEW wallet
        PROVE  /\ R(op, id, of, wallet).op = op /\ R(op, id, of, wallet).at = 1
               /\ R(op, id, of, wallet).id = id /\ R(op, id, of, wallet).of = of
               /\ R(op, id, of, wallet).wallet = wallet
    OBVIOUS
  <1>4. \A o \in PaidOrders, w \in BOOLEAN : R("charge", o, 0, w) \in PayJobs
    BY DEF PayJobs, PayOps
  <1>5. \A o \in PaidOrders, i \in Nat, w \in BOOLEAN : R("refund", o, i, w) \in PayJobs
    BY DEF PayJobs, PayOps
  <1>6. \A h \in Holds, o \in PaidOrders, w \in BOOLEAN :
           R("hold", h, o, w) \in PayJobs /\ R("capture", h, o, w) \in PayJobs
    BY DEF PayJobs, PayOps
  <1>7. \A h \in Holds, w \in BOOLEAN : R("release", h, 0, w) \in PayJobs
    BY DEF PayJobs, PayOps
  <1>8. \A o \in PaidOrders, w \in BOOLEAN : R("settle", o, 0, w) \in PayJobs
    BY DEF PayJobs, PayOps
  <1> HIDE DEF R
  <1>9. ASSUME NEW o \in PaidOrders, NEW m \in Methods, Pay!CreateCharge(r, o, m)
        PROVE  PayInv'
    <2>0. (m \in Wallets) \in BOOLEAN
      OBVIOUS
    <2>1. PICK w \in BOOLEAN : Pay!Begin(r, "charge", o, 0, w)
      BY <1>9, <2>0, Zenon DEF Pay!CreateCharge
    <2>2. JobOk(R("charge", o, 0, w))
      BY <1>3 DEF JobOk, Backed, Standing, Told
    <2> QED
      BY <1>1, <1>2, <1>3, <1>4, <2>1, <2>2, PayBegins
  <1>10. ASSUME NEW o \in PaidOrders, Pay!CreateRefund(r, o)
         PROVE  PayInv'
    <2>1. PICK i \in DOMAIN charges : Pay!Begin(r, "refund", o, i, charges[i].wallet)
      BY <1>10 DEF Pay!CreateRefund, Pay!Newest
    <2>2. i \in Nat /\ charges[i].wallet \in BOOLEAN
      <3>1. charges \in Seq(PayRows)
        BY DEF PayInv, PayTypes
      <3>2. i \in Nat /\ charges[i] \in PayRows
        BY <3>1
      <3> QED
        BY <3>2 DEF PayRows
    <2>3. JobOk(R("refund", o, i, charges[i].wallet))
      BY <1>3 DEF JobOk, Backed, Standing, Told
    <2> QED
      BY <1>1, <1>2, <1>3, <1>5, <2>1, <2>2, <2>3, PayBegins
  <1>11. ASSUME NEW h \in Holds, NEW o \in PaidOrders, NEW w \in BOOLEAN,
                Pay!HoldPayment(r, h, o, w)
         PROVE  PayInv'
    <2>1. /\ hold[h] = "none" /\ \A q \in Reqs : payJob[q].op = "hold" => payJob[q].id # h
          /\ Pay!Begin(r, "hold", h, o, w)
      BY <1>11, Zenon DEF Pay!HoldPayment
    <2>2. JobOk(R("hold", h, o, w))
      BY <1>3, <2>1 DEF JobOk, Backed, Standing, Told
    <2> QED
      BY <1>1, <1>2, <1>3, <1>6, <2>1, <2>2, PayBegins
  <1>12. ASSUME NEW h \in Holds, Pay!CapturePayment(r, h)
         PROVE  PayInv'
    <2>0. (h \in onWallet) \in BOOLEAN
      OBVIOUS
    <2>1. PICK w \in BOOLEAN : hold[h] = "held" /\ Pay!Begin(r, "capture", h, heldFor[h], w)
      BY <1>12, <2>0, Zenon DEF Pay!CapturePayment, Pay!Capturable
    <2>2. heldFor[h] \in PaidOrders
      BY <2>1 DEF PayInv, HoldsKept
    <2>3. JobOk(R("capture", h, heldFor[h], w))
      BY <1>3, <2>1 DEF JobOk, Backed, Standing, Told
    <2> QED
      BY <1>1, <1>2, <1>3, <1>6, <2>1, <2>2, <2>3, PayBegins
  <1>13. ASSUME NEW h \in Holds, Pay!ReleasePayment(r, h)
         PROVE  PayInv'
    <2>1. PICK w \in BOOLEAN : hold[h] = "held" /\ Pay!Begin(r, "release", h, 0, w)
      BY <1>13, Zenon DEF Pay!ReleasePayment
    <2>2. JobOk(R("release", h, 0, w))
      BY <1>3, <2>1 DEF JobOk, Backed, Standing, Told
    <2> QED
      BY <1>1, <1>2, <1>3, <1>7, <2>1, <2>2, PayBegins
  <1>14. ASSUME NEW o \in PaidOrders, Pay!CreateSettlement(r, o)
         PROVE  PayInv'
    <2>1. PICK w \in BOOLEAN : ~(settled[o][r] > 0) /\ Pay!Begin(r, "settle", o, 0, w)
      BY <1>14, Zenon DEF Pay!CreateSettlement, Pay!SettlementExistsByOrderID
    <2>2. settled[o][r] = 0
      BY <2>1 DEF PayInv, PayTypes
    <2>3. JobOk(R("settle", o, 0, w))
      BY <1>3 DEF JobOk, Backed, Standing, Told
    <2> QED
      BY <1>1, <1>2, <1>3, <1>8, <2>1, <2>2, <2>3, PayBegins
  <1> QED
    BY <1>9, <1>10, <1>11, <1>12, <1>13, <1>14
       DEF Pay!Requests, Pay!ChargeRequests, Pay!HoldRequests

(* A new charge at the end of the rows.                                      *)
LEMMA PayCharge ==
  ASSUME PayInv, NEW o \in PaidOrders, NEW w \in BOOLEAN, NEW h \in Holds \cup {0},
         Pay!AddCharge(o, w, h)
  PROVE  /\ charges' \in Seq(PayRows)
         /\ \A i \in DOMAIN charges : i \in DOMAIN charges' /\ charges'[i] = charges[i]
         /\ \A i \in DOMAIN charges' : \/ i \in DOMAIN charges /\ charges'[i] = charges[i]
                                       \/ charges'[i].status # "refunded" /\ charges'[i].from = h
         /\ \E i \in DOMAIN charges' : charges'[i].from = h
  <1>1. PICK c : c = [order |-> o, wallet |-> w, from |-> h,
                      status |-> IF w \/ h # 0 THEN "completed" ELSE "pending"]
    OBVIOUS
  <1>2. c \in PayRows /\ c.from = h /\ c.status # "refunded"
    BY <1>1 DEF PayRows
  <1>3. charges' = Append(charges, c) /\ charges \in Seq(PayRows)
    BY <1>1 DEF Pay!AddCharge, PayInv, PayTypes
  <1>4. /\ charges' \in Seq(PayRows) /\ Len(charges) \in Nat
        /\ DOMAIN charges = 1..Len(charges) /\ DOMAIN charges' = 1..(Len(charges) + 1)
        /\ charges'[Len(charges) + 1] = c
        /\ \A i \in 1..Len(charges) : charges'[i] = charges[i]
    BY <1>2, <1>3
  <1>5. \A i \in DOMAIN charges' : i \in DOMAIN charges \/ i = Len(charges) + 1
    BY <1>4
  <1>6. Len(charges) + 1 \in DOMAIN charges'
    BY <1>4
  <1> QED
    BY <1>2, <1>4, <1>5, <1>6

LEMMA PayTransaction ==
  ASSUME PayInv, NEW r \in Reqs, Pay!CreateTransaction(r)
  PROVE  PayInv'
  <1>1. PICK p \in PayJobs : p = payJob[r]
    BY PaySlot
  <1>2. /\ p.op \in {"charge", "capture"} /\ p.at = 1
        /\ Pay!Step(r) # "publish" /\ JobOk(p) /\ p.op # "none" /\ p.wallet \in BOOLEAN
    BY <1>1, PaySteps, PayKinds DEF Pay!CreateTransaction, PayInv
  <1>3. PICK q \in PayJobs :
          /\ payJob' = [payJob EXCEPT ![r] = q] /\ q.op = p.op /\ q.id = p.id /\ q.of = p.of
          /\ q.at = p.at + 1
    BY <1>1, <1>2, PayAdvances DEF Pay!CreateTransaction
  <1>4. /\ payJob'[r] = q /\ \A s \in Reqs : s # r => payJob'[s] = payJob[s]
        /\ UNCHANGED <<method, refunds, hold, heldFor, onWallet, settled, was, events>>
    BY <1>3, PaySlot DEF Pay!CreateTransaction
  <1>5. PICK o \in PaidOrders, h \in Holds \cup {0} :
          /\ Pay!AddCharge(o, p.wallet, h)
          /\ p.op = "capture" => h = p.id /\ h \in Holds
    <2>1. CASE p.op = "charge"
      BY <1>1, <2>1, PayKinds DEF Pay!CreateTransaction
    <2>2. CASE p.op = "capture"
      BY <1>1, <2>2, PayKinds DEF Pay!CreateTransaction
    <2> QED
      BY <1>2, <2>1, <2>2
  <1>6. /\ charges' \in Seq(PayRows)
        /\ \A i \in DOMAIN charges : i \in DOMAIN charges' /\ charges'[i] = charges[i]
        /\ \A i \in DOMAIN charges' : \/ i \in DOMAIN charges /\ charges'[i] = charges[i]
                                      \/ charges'[i].status # "refunded" /\ charges'[i].from = h
        /\ \E i \in DOMAIN charges' : charges'[i].from = h
    BY <1>2, <1>5, PayCharge
  <1>7. Grows
    BY <1>4, <1>6 DEF Grows
  <1>8. JobOk(q)'
    BY <1>2, <1>3, <1>4, <1>5, <1>6 DEF JobOk, Backed, Standing, Told, ChargedFrom
  <1>9. /\ payJob' \in [Reqs -> PayJobs] /\ \A s \in Reqs : JobOk(payJob[s])'
        /\ \A g : ChargedFrom(g) => ChargedFrom(g)'
    BY <1>3, <1>4, <1>7, <1>8, PayFrame
  <1>10. /\ captured' \in [Holds -> [Reqs -> Nat]]
         /\ p.op = "charge" => captured' = captured
         /\ p.op = "capture" => captured'[p.id][r] = captured[p.id][r] + 1
         /\ \A g \in Holds, s \in Reqs :
               g # p.id \/ s # r => captured'[g][s] = captured[g][s]
    <2>1. captured \in [Holds -> [Reqs -> Nat]]
      BY DEF PayInv, PayTypes
    <2>2. CASE p.op = "charge"
      <3>1. captured' = captured
        BY <1>1, <2>2 DEF Pay!CreateTransaction
      <3> QED
        BY <2>1, <2>2, <3>1
    <2>3. CASE p.op = "capture"
      <3>1. captured' = [captured EXCEPT ![p.id][r] = captured[p.id][r] + 1] /\ p.id \in Holds
        BY <1>1, <2>3, PayKinds DEF Pay!CreateTransaction
      <3> QED
        BY <2>1, <2>3, <3>1
    <2> QED
      BY <1>2, <2>2, <2>3
  <1>11. PayTypes'
    BY <1>4, <1>6, <1>9, <1>10 DEF PayInv, PayTypes
  <1>12. HoldsKept'
    <2>1. p.op = "capture" => hold[p.id] # "none"
      BY <1>2 DEF JobOk, Standing
    <2>2. \A g \in Holds, s \in Reqs : hold[g] = "none" => captured'[g][s] = 0
      BY <1>2, <1>10, <2>1 DEF PayInv, HoldsKept
    <2> QED
      BY <1>1, <1>2, <1>3, <1>4, <2>2 DEF PayInv, HoldsKept
  <1>13. ASSUME NEW g \in Holds, NEW s \in Reqs
         PROVE  CapturedBy(g, s)'
    <2>1. CASE p.op = "capture" /\ g = p.id /\ s = r
      <3>1. <<g, "unwritten">> \notin was => captured[g][s] = 0
        BY <1>1, <1>2, <2>1 DEF PayInv, CapturedBy
      <3>2. captured'[g][s] = captured[g][s] + 1
        BY <1>10, <2>1
      <3>3. <<g, "unwritten">> \notin was => captured'[g][s] = 1
        BY <3>1, <3>2
      <3> QED
        BY <1>2, <1>3, <1>4, <2>1, <3>3 DEF CapturedBy
    <2>2. CASE ~(p.op = "capture" /\ g = p.id /\ s = r)
      <3>1. captured'[g][s] = captured[g][s] /\ CapturedBy(g, s)
        BY <1>2, <1>10, <2>2 DEF PayInv
      <3> QED
        BY <1>1, <1>2, <1>3, <1>4, <2>2, <3>1 DEF CapturedBy
    <2> QED
      BY <2>1, <2>2
  <1>14. ASSUME NEW g \in PaidOrders, NEW s \in Reqs
         PROVE  SettledBy(g, s)'
    BY <1>1, <1>2, <1>3, <1>4 DEF PayInv, SettledBy
  <1>15. Pay!RefundBacked'
    BY <1>4, <1>6 DEF PayInv, Pay!RefundBacked
  <1>16. Pay!Announced'
    BY <1>4, <1>9 DEF PayInv, Pay!Announced, ChargedFrom, Pay!SettlementExistsByOrderID
  <1> QED
    BY <1>9, <1>11, <1>12, <1>13, <1>14, <1>15, <1>16 DEF PayInv

LEMMA PayHold ==
  ASSUME PayInv, NEW r \in Reqs, Pay!CreateHold(r)
  PROVE  PayInv'
  <1>1. PICK p \in PayJobs : p = payJob[r]
    BY PaySlot
  <1>2. /\ p.op = "hold" /\ p.at = 1 /\ p.id \in Holds /\ p.of \in PaidOrders
        /\ Pay!Step(r) # "publish" /\ JobOk(p)
    BY <1>1, PaySteps, PayKinds DEF Pay!CreateHold, PayInv
  <1>3. PICK q \in PayJobs :
          /\ payJob' = [payJob EXCEPT ![r] = q] /\ q.op = p.op /\ q.id = p.id /\ q.of = p.of
          /\ q.at = p.at + 1
    BY <1>1, <1>2, PayAdvances DEF Pay!CreateHold
  <1>4. /\ payJob'[r] = q /\ \A s \in Reqs : s # r => payJob'[s] = payJob[s]
        /\ UNCHANGED <<method, charges, refunds, settled, captured, events>>
        /\ hold' = [hold EXCEPT ![p.id] = "held"] /\ heldFor' = [heldFor EXCEPT ![p.id] = p.of]
        /\ was' = was \cup {<<p.id, "held">>}
        /\ onWallet' \subseteq onWallet \cup {p.id}
    BY <1>1, <1>3, PaySlot DEF Pay!CreateHold
  <1>5. /\ hold' \in [Holds -> {"none", "held", "captured", "released"}]
        /\ heldFor' \in [Holds -> PaidOrders \cup {0}]
        /\ hold[p.id] = "none" /\ hold'[p.id] = "held" /\ heldFor'[p.id] = p.of
        /\ \A h \in Holds : h # p.id => hold'[h] = hold[h] /\ heldFor'[h] = heldFor[h]
    BY <1>2, <1>4 DEF PayInv, PayTypes, JobOk, Standing
  <1>6. \A s \in Reqs : captured[p.id][s] = 0
    BY <1>2, <1>5 DEF PayInv, HoldsKept
  <1>7. Grows
    BY <1>4, <1>5 DEF Grows
  <1>8. JobOk(q)'
    BY <1>2, <1>3 DEF JobOk, Backed, Standing, Told
  <1>9. \A s \in Reqs : s # r /\ payJob[s].op = "hold" /\ payJob[s].at = 1
                            => hold'[payJob[s].id] = hold[payJob[s].id]
    <2>1. ASSUME NEW s \in Reqs, s # r, payJob[s].op = "hold"
          PROVE  payJob[s].id # p.id /\ payJob[s].id \in Holds
      BY <1>1, <1>2, <2>1, PaySlot, PayKinds DEF PayInv, HoldsKept
    <2> QED
      BY <1>5, <2>1
  <1>10. /\ payJob' \in [Reqs -> PayJobs] /\ \A s \in Reqs : JobOk(payJob[s])'
         /\ \A g : ChargedFrom(g) => ChargedFrom(g)'
    BY <1>3, <1>7, <1>8, <1>9, PayFrame
  <1>11. PayTypes'
    BY <1>4, <1>5, <1>10 DEF PayInv, PayTypes
  <1>12. HoldsKept'
    <2>1. \A h \in Holds : /\ hold'[h] # "none" => heldFor'[h] \in PaidOrders
                           /\ hold'[h] = "none" => \A s \in Reqs : captured'[h][s] = 0
      BY <1>2, <1>4, <1>5 DEF PayInv, HoldsKept
    <2> QED
      BY <1>1, <1>2, <1>3, <1>4, <2>1 DEF PayInv, HoldsKept
  <1>13. ASSUME NEW g \in Holds, NEW s \in Reqs
         PROVE  CapturedBy(g, s)'
    <2>1. <<g, "unwritten">> \notin was' => <<g, "unwritten">> \notin was
      BY <1>4
    <2>2. CASE g = p.id
      BY <1>4, <1>6, <2>2 DEF CapturedBy
    <2>3. CASE g # p.id
      <3>1. CapturedBy(g, s) /\ hold'[g] = hold[g] /\ captured' = captured
        BY <1>4, <1>5, <2>3 DEF PayInv
      <3> QED
        BY <1>1, <1>2, <1>3, <1>4, <2>1, <3>1 DEF CapturedBy
    <2> QED
      BY <2>2, <2>3
  <1>14. ASSUME NEW g \in PaidOrders, NEW s \in Reqs
         PROVE  SettledBy(g, s)'
    BY <1>1, <1>2, <1>3, <1>4 DEF PayInv, SettledBy
  <1>15. Pay!RefundBacked'
    BY <1>4 DEF PayInv, Pay!RefundBacked
  <1>16. Pay!Announced'
    <2>1. \A h \in Holds : hold'[h] = "captured" => hold[h] = "captured"
      BY <1>5
    <2> QED
      BY <1>4, <1>10, <2>1 DEF PayInv, Pay!Announced, ChargedFrom, Pay!SettlementExistsByOrderID
  <1> QED
    BY <1>10, <1>11, <1>12, <1>13, <1>14, <1>15, <1>16 DEF PayInv

(* The two writes of a refund.                                               *)
LEMMA PayRefund ==
  ASSUME PayInv, NEW r \in Reqs, Pay!InsertRefund(r) \/ Pay!UpdateTransactionStatus(r)
  PROVE  PayInv'
  <1>1. PICK p \in PayJobs : p = payJob[r]
    BY PaySlot
  <1>2. /\ p.op = "refund" /\ p.at \in 1..2 /\ p.of \in DOMAIN charges /\ p.of \in Nat
        /\ p.wallet = charges[p.of].wallet
        /\ p.at = 2 /\ p.wallet => <<p.of, "processed">> \in refunds
        /\ Pay!Step(r) # "publish"
        /\ Pay!InsertRefund(r) => p.at = 1
        /\ Pay!UpdateTransactionStatus(r) => p.at = 2
    BY <1>1, PaySteps, PayKinds
       DEF Pay!InsertRefund, Pay!UpdateTransactionStatus, PayInv, JobOk, Backed
  <1>3. PICK q \in PayJobs :
          /\ payJob' = [payJob EXCEPT ![r] = q] /\ q.op = p.op /\ q.of = p.of
          /\ q.wallet = p.wallet
    BY <1>1, <1>2, PayAdvances DEF Pay!InsertRefund, Pay!UpdateTransactionStatus
  <1>4. /\ payJob'[r] = q /\ \A s \in Reqs : s # r => payJob'[s] = payJob[s]
        /\ UNCHANGED <<method, hold, heldFor, onWallet, settled, captured, was, events>>
    BY <1>3, PaySlot DEF Pay!InsertRefund, Pay!UpdateTransactionStatus
  <1>5. charges \in Seq(PayRows)
    BY DEF PayInv, PayTypes
  <1>6. CASE Pay!InsertRefund(r)
    <2>1. /\ charges' = charges
          /\ refunds' = refunds \cup {<<p.of, IF p.wallet THEN "processed" ELSE "pending">>}
      BY <1>1, <1>6 DEF Pay!InsertRefund
    <2>2. Grows
      BY <1>4, <2>1 DEF Grows
    <2>3. JobOk(q)'
      BY <1>2, <1>3, <2>1 DEF JobOk, Backed, Standing, Told
    <2>4. /\ payJob' \in [Reqs -> PayJobs] /\ \A s \in Reqs : JobOk(payJob[s])'
      BY <1>3, <1>4, <2>2, <2>3, PayFrame
    <2>5. PayTypes'
      BY <1>2, <1>4, <2>1, <2>4 DEF PayInv, PayTypes
    <2>6. Pay!RefundBacked'
      BY <2>1 DEF PayInv, Pay!RefundBacked
    <2>7. Pay!Announced'
      BY <1>4, <2>1 DEF PayInv, Pay!Announced, Pay!SettlementExistsByOrderID
    <2> QED
      BY <1>1, <1>2, <1>3, <1>4, <2>4, <2>5, <2>6, <2>7
         DEF PayInv, HoldsKept, CapturedBy, SettledBy
  <1>7. CASE Pay!UpdateTransactionStatus(r)
    <2>1. /\ refunds' = refunds
          /\ \/ charges' = charges
             \/ p.wallet /\ charges' = [charges EXCEPT ![p.of].status = "refunded"]
      BY <1>1, <1>7 DEF Pay!UpdateTransactionStatus
    <2>2. PICK c \in PayRows : c = charges[p.of]
      BY <1>2, <1>5
    <2>3. PICK d \in PayRows : d = [c EXCEPT !.status = "refunded"]
      <3>1. [c EXCEPT !.status = "refunded"] \in PayRows
        BY DEF PayRows
      <3> QED
        BY <3>1
    <2>4. d.wallet = c.wallet /\ d.from = c.from
      BY <2>3 DEF PayRows
    <2>5. \/ charges' = charges
          \/ p.wallet /\ charges' = [charges EXCEPT ![p.of] = d]
      BY <2>1, <2>2, <2>3
    <2>6. /\ charges' \in Seq(PayRows) /\ DOMAIN charges' = DOMAIN charges
          /\ \A i \in DOMAIN charges : \/ charges'[i] = charges[i]
                                       \/ i = p.of /\ p.wallet /\ charges'[i] = d
      <3>1. CASE charges' = charges
        BY <1>5, <3>1
      <3>2. CASE p.wallet /\ charges' = [charges EXCEPT ![p.of] = d]
        <4>1. p.of \in 1..Len(charges)
          BY <1>2, <1>5
        <4> QED
          BY <1>5, <3>2, <4>1, ExceptSeq
      <3> QED
        BY <2>5, <3>1, <3>2
    <2>7. Grows
      BY <1>4, <2>1, <2>2, <2>4, <2>6 DEF Grows
    <2>8. JobOk(q)'
      <3>1. charges'[p.of].wallet = charges[p.of].wallet
        BY <1>2, <2>7 DEF Grows
      <3>2. p.wallet => <<p.of, "processed">> \in refunds'
        BY <1>2, <1>7, <2>1
      <3> QED
        BY <1>2, <1>3, <2>6, <3>1, <3>2 DEF JobOk, Backed, Standing, Told
    <2>9. /\ payJob' \in [Reqs -> PayJobs] /\ \A s \in Reqs : JobOk(payJob[s])'
          /\ \A g : ChargedFrom(g) => ChargedFrom(g)'
      BY <1>3, <1>4, <2>7, <2>8, PayFrame
    <2>10. PayTypes'
      BY <1>4, <2>1, <2>6, <2>9 DEF PayInv, PayTypes
    <2>11. Pay!RefundBacked'
      <3> SUFFICES ASSUME NEW i \in DOMAIN charges', charges'[i].status = "refunded"
                   PROVE  <<i, "processed">> \in refunds' /\ charges'[i].wallet
        BY DEF Pay!RefundBacked
      <3>1. CASE charges'[i] = charges[i]
        BY <2>1, <2>6, <3>1 DEF PayInv, Pay!RefundBacked
      <3>2. CASE i = p.of /\ p.wallet /\ charges'[i] = d
        BY <1>2, <1>7, <2>1, <2>2, <2>4, <3>2
      <3> QED
        BY <2>6, <3>1, <3>2
    <2>12. Pay!Announced'
      BY <1>4, <2>9 DEF PayInv, Pay!Announced, ChargedFrom, Pay!SettlementExistsByOrderID
    <2> QED
      BY <1>1, <1>2, <1>3, <1>4, <2>9, <2>10, <2>11, <2>12
         DEF PayInv, HoldsKept, CapturedBy, SettledBy
  <1> QED
    BY <1>6, <1>7

(* The status of a hold after a capture, if it is written, or a release.     *)
LEMMA PayClose ==
  ASSUME PayInv, NEW r \in Reqs, Pay!UpdateHoldStatus(r)
  PROVE  PayInv'
  <1>1. PICK p \in PayJobs : p = payJob[r]
    BY PaySlot
  <1>2. /\ \/ p.op = "capture" /\ p.at = 2 /\ ChargedFrom(p.id)
           \/ p.op = "release" /\ p.at = 1
        /\ p.id \in Holds /\ hold[p.id] # "none" /\ Pay!Step(r) # "publish"
    <2>1. (p.op = "capture" /\ p.at = 2) \/ (p.op = "release" /\ p.at = 1)
      BY <1>1, PaySteps DEF Pay!UpdateHoldStatus
    <2>2. JobOk(p) /\ p.id \in Holds
      BY <1>1, <2>1, PayKinds DEF PayInv
    <2>3. Pay!Step(r) # "publish"
      BY DEF Pay!UpdateHoldStatus
    <2> QED
      BY <2>1, <2>2, <2>3 DEF JobOk, Standing, Told
  <1>3. PICK q \in PayJobs :
          /\ payJob' = [payJob EXCEPT ![r] = q] /\ q.op = p.op /\ q.id = p.id /\ q.of = p.of
          /\ q.at = p.at + 1
    <2>1. Pay!Done(r) /\ payJob[r].op # "none"
      BY <1>1, <1>2 DEF Pay!UpdateHoldStatus
    <2> QED
      BY <1>1, <1>2, <2>1, PayAdvances
  <1>4. /\ payJob'[r] = q /\ \A s \in Reqs : s # r => payJob'[s] = payJob[s]
        /\ UNCHANGED <<method, charges, refunds, heldFor, onWallet, settled, captured, events>>
    BY <1>3, PaySlot DEF Pay!UpdateHoldStatus
  <1>5. \/ \E s \in {IF p.op = "capture" THEN "captured" ELSE "released"} :
              hold' = [hold EXCEPT ![p.id] = s] /\ was' = was \cup {<<p.id, s>>}
        \/ /\ p.op = "capture" /\ hold' = hold
           /\ was' = was \cup {<<p.id, "unwritten">>}
    BY <1>1 DEF Pay!UpdateHoldStatus
  <1>6. /\ hold' \in [Holds -> {"none", "held", "captured", "released"}] /\ was \subseteq was'
        /\ \A h \in Holds : h # p.id => hold'[h] = hold[h]
        /\ \/ p.op = "capture" /\ hold'[p.id] = "captured"
           \/ p.op = "release" /\ hold'[p.id] = "released" /\ <<p.id, "released">> \in was'
           \/ p.op = "capture" /\ hold' = hold /\ <<p.id, "unwritten">> \in was'
    BY <1>2, <1>5 DEF PayInv, PayTypes
  <1>7. Grows
    BY <1>4, <1>6 DEF Grows
  <1>8. \A s \in Reqs : s # r /\ payJob[s].op = "hold" /\ payJob[s].at = 1
                            => hold'[payJob[s].id] = hold[payJob[s].id]
    <2>1. ASSUME NEW s \in Reqs, payJob[s].op = "hold", payJob[s].at = 1
          PROVE  payJob[s].id \in Holds /\ payJob[s].id # p.id
      BY <1>2, <2>1, PaySlot, PayKinds DEF PayInv, JobOk, Standing
    <2> QED
      BY <1>6, <2>1
  <1>9. JobOk(q)'
    <2>1. ChargedFrom(p.id)' <=> ChargedFrom(p.id)
      BY <1>4 DEF ChargedFrom
    <2>2. hold'[q.id] # "none"
      BY <1>2, <1>3, <1>7 DEF Grows
    <2>3. Backed(q)' /\ Standing(q)'
      BY <1>2, <1>3, <2>2 DEF Backed, Standing
    <2>4. CASE p.op = "capture"
      BY <1>2, <1>3, <2>1, <2>3, <2>4 DEF JobOk, Told
    <2>5. CASE p.op = "release"
      BY <1>3, <1>6, <2>3, <2>5 DEF JobOk, Told
    <2> QED
      BY <1>2, <2>4, <2>5
  <1>10. payJob' \in [Reqs -> PayJobs] /\ \A s \in Reqs : JobOk(payJob[s])'
    BY <1>3, <1>7, <1>8, <1>9, PayFrame
  <1>11. PayTypes'
    BY <1>4, <1>6, <1>10 DEF PayInv, PayTypes
  <1>12. HoldsKept'
    <2>1. \A h \in Holds : /\ hold'[h] = "none" <=> hold[h] = "none"
      BY <1>2, <1>6
    <2> QED
      BY <1>1, <1>2, <1>3, <1>4, <2>1 DEF PayInv, HoldsKept
  <1>13. ASSUME NEW g \in Holds, NEW s \in Reqs
         PROVE  CapturedBy(g, s)'
    <2>1. <<g, "unwritten">> \notin was' => <<g, "unwritten">> \notin was
      BY <1>6
    <2>2. CapturedBy(g, s) /\ captured' = captured
      BY <1>4 DEF PayInv
    <2>3. payJob'[s].op = payJob[s].op /\ payJob'[s].id = payJob[s].id
      BY <1>1, <1>3, <1>4
    <2>4. payJob'[s].op = "capture" /\ payJob'[s].at = 1 => payJob[s].at = 1
      BY <1>1, <1>2, <1>3, <1>4
    <2>5. CASE g = p.id
      <3>1. <<g, "unwritten">> \notin was' => hold'[g] \in {"captured", "released"}
        BY <1>6, <2>5
      <3> QED
        BY <2>1, <2>2, <2>3, <2>4, <3>1 DEF CapturedBy
    <2>6. CASE g # p.id
      <3>1. hold'[g] = hold[g]
        BY <1>6, <2>6
      <3>2. payJob[s].id = g => payJob'[s] = payJob[s]
        BY <1>1, <1>4, <2>6
      <3> QED
        BY <2>1, <2>2, <2>3, <2>4, <3>1, <3>2 DEF CapturedBy
    <2> QED
      BY <2>5, <2>6
  <1>14. ASSUME NEW o \in PaidOrders, NEW s \in Reqs
         PROVE  SettledBy(o, s)'
    <2>1. payJob'[s].op = "settle" => payJob'[s] = payJob[s]
      BY <1>2, <1>3, <1>4
    <2> QED
      BY <1>4, <2>1 DEF PayInv, SettledBy
  <1>15. Pay!RefundBacked'
    BY <1>4 DEF PayInv, Pay!RefundBacked
  <1>16. Pay!Announced'
    <2>1. ChargedFrom(p.id) \/ p.op # "capture"
      BY <1>2
    <2>2. \A h \in Holds : hold'[h] = "captured" => hold[h] = "captured" \/ ChargedFrom(h)
      BY <1>6, <2>1
    <2> QED
      BY <1>4, <1>6, <2>2
         DEF PayInv, Pay!Announced, ChargedFrom, Pay!SettlementExistsByOrderID
  <1> QED
    BY <1>10, <1>11, <1>12, <1>13, <1>14, <1>15, <1>16 DEF PayInv

LEMMA PaySettlement ==
  ASSUME PayInv, NEW r \in Reqs, Pay!InsertSettlement(r)
  PROVE  PayInv'
  <1>1. PICK p \in PayJobs : p = payJob[r]
    BY PaySlot
  <1>2. p.op = "settle" /\ p.at = 1 /\ p.id \in PaidOrders /\ Pay!Step(r) # "publish"
    BY <1>1, PaySteps, PayKinds DEF Pay!InsertSettlement
  <1>3. PICK q \in PayJobs :
          /\ payJob' = [payJob EXCEPT ![r] = q] /\ q.op = p.op /\ q.id = p.id /\ q.of = p.of
          /\ q.at = p.at + 1
    BY <1>1, <1>2, PayAdvances DEF Pay!InsertSettlement
  <1>4. /\ payJob'[r] = q /\ \A s \in Reqs : s # r => payJob'[s] = payJob[s]
        /\ UNCHANGED <<method, charges, refunds, hold, heldFor, onWallet, captured, was, events>>
        /\ settled' = [settled EXCEPT ![p.id][r] = settled[p.id][r] + 1]
    BY <1>1, <1>3, PaySlot DEF Pay!InsertSettlement
  <1>5. /\ settled' \in [PaidOrders -> [Reqs -> Nat]]
        /\ settled[p.id][r] = 0 /\ settled'[p.id][r] = settled[p.id][r] + 1
        /\ \A o \in PaidOrders, s \in Reqs :
              o # p.id \/ s # r => settled'[o][s] = settled[o][s]
    BY <1>1, <1>2, <1>4 DEF PayInv, PayTypes, SettledBy
  <1>6. settled'[p.id][r] = 1
    BY <1>5
  <1>7. JobOk(q)' /\ Grows
    BY <1>2, <1>3, <1>4 DEF JobOk, Backed, Standing, Told, Grows
  <1>8. payJob' \in [Reqs -> PayJobs] /\ \A s \in Reqs : JobOk(payJob[s])'
    BY <1>3, <1>4, <1>7, PayFrame
  <1>9. PayTypes'
    BY <1>4, <1>5, <1>8 DEF PayInv, PayTypes
  <1>10. HoldsKept' /\ \A h \in Holds, s \in Reqs : CapturedBy(h, s)'
    BY <1>1, <1>2, <1>3, <1>4 DEF PayInv, HoldsKept, CapturedBy
  <1>11. ASSUME NEW o \in PaidOrders, NEW s \in Reqs
         PROVE  SettledBy(o, s)'
    <2>1. CASE o = p.id /\ s = r
      <3>1. q.at = 2
        BY <1>2, <1>3
      <3> QED
        BY <1>4, <1>6, <2>1, <3>1 DEF SettledBy
    <2>2. CASE ~(o = p.id /\ s = r)
      <3>1. settled'[o][s] = settled[o][s] /\ SettledBy(o, s)
        BY <1>5, <2>2 DEF PayInv
      <3> QED
        BY <1>1, <1>3, <1>4, <2>2, <3>1 DEF SettledBy
    <2> QED
      BY <2>1, <2>2
  <1>12. Pay!RefundBacked'
    BY <1>4 DEF PayInv, Pay!RefundBacked
  <1>13. Pay!Announced'
    <2>1. \A o \in PaidOrders :
             Pay!SettlementExistsByOrderID(o) => Pay!SettlementExistsByOrderID(o)'
      <3>1. \A o \in PaidOrders, s \in Reqs : settled[o][s] > 0 => settled'[o][s] > 0
        BY <1>5, <1>6
      <3> QED
        BY <3>1 DEF Pay!SettlementExistsByOrderID
    <2> QED
      BY <1>4, <2>1 DEF PayInv, Pay!Announced
  <1> QED
    BY <1>8, <1>9, <1>10, <1>11, <1>12, <1>13 DEF PayInv

LEMMA PayPublish ==
  ASSUME PayInv, NEW r \in Reqs, Pay!Publish(r)
  PROVE  PayInv'
  <1>1. PICK p \in PayJobs : p = payJob[r]
    BY PaySlot
  <1>2. /\ \/ p.op \in {"charge", "settle", "hold", "release"} /\ p.at = 2
           \/ p.op \in {"refund", "capture"} /\ p.at = 3
        /\ Pay!Step(r) = "publish" /\ JobOk(p)
    BY <1>1, PaySteps DEF Pay!Publish, PayInv
  <1>3. payJob' = [payJob EXCEPT ![r] = Pay!Null]
    BY <1>1, <1>2, PayAdvances DEF Pay!Publish
  <1>4. /\ payJob'[r] = Pay!Null /\ \A s \in Reqs : s # r => payJob'[s] = payJob[s]
        /\ UNCHANGED <<method, charges, refunds, hold, heldFor, onWallet, settled, captured, was>>
        /\ events' \subseteq events \cup {<<p.op, p.id>>}
    BY <1>1, <1>3, PayNull, PaySlot DEF Pay!Publish
  <1>5. JobOk(Pay!Null)' /\ Grows
    BY <1>4, PayNull DEF JobOk, Backed, Standing, Told, Grows
  <1>6. payJob' \in [Reqs -> PayJobs] /\ \A s \in Reqs : JobOk(payJob[s])'
    BY <1>3, <1>4, <1>5, PayNull, PayFrame
  <1>7. PayTypes' /\ HoldsKept' /\ \A o \in PaidOrders, s \in Reqs : SettledBy(o, s)'
    <2>1. PayTypes'
      BY <1>4, <1>6 DEF PayInv, PayTypes
    <2>2. HoldsKept'
      BY <1>4, <1>6, PayNull DEF PayInv, HoldsKept
    <2>3. ASSUME NEW o \in PaidOrders, NEW s \in Reqs
          PROVE  SettledBy(o, s)'
      BY <1>4, <1>6, PayNull DEF PayInv, SettledBy
    <2> QED
      BY <2>1, <2>2, <2>3
  <1>8. ASSUME NEW h \in Holds, NEW s \in Reqs
        PROVE  CapturedBy(h, s)'
    BY <1>1, <1>2, <1>4, PayNull DEF PayInv, CapturedBy
  <1>9. Pay!RefundBacked'
    BY <1>4 DEF PayInv, Pay!RefundBacked
  <1>10. Pay!Announced'
    <2>1. p.op = "capture" => ChargedFrom(p.id)
      BY <1>2 DEF JobOk, Told
    <2>2. p.op = "release" => <<p.id, "released">> \in was
      BY <1>2 DEF JobOk, Told
    <2>3. p.op = "settle" => p.id \in PaidOrders /\ settled[p.id][r] > 0
      BY <1>1, <1>2, PayKinds DEF PayInv, SettledBy
    <2>4. \A e : e \in events' => e \in events \/ e = <<p.op, p.id>>
      BY <1>4
    <2>5. \A h \in Holds : hold'[h] = "captured" \/ <<"capture", h>> \in events'
                              => ChargedFrom(h)'
      BY <1>4, <2>1, <2>4 DEF PayInv, Pay!Announced, ChargedFrom
    <2>6. \A h \in Holds : <<"release", h>> \in events' => <<h, "released">> \in was'
      BY <1>4, <2>2, <2>4 DEF PayInv, Pay!Announced
    <2>7. \A o \in PaidOrders :
             <<"settle", o>> \in events' => Pay!SettlementExistsByOrderID(o)'
      BY <1>4, <2>3, <2>4 DEF PayInv, Pay!Announced, Pay!SettlementExistsByOrderID
    <2> QED
      BY <2>5, <2>6, <2>7 DEF Pay!Announced, ChargedFrom
  <1> QED
    BY <1>6, <1>7, <1>8, <1>9, <1>10 DEF PayInv

LEMMA PayDie ==
  ASSUME PayInv, NEW r \in Reqs, Pay!Die(r)
  PROVE  PayInv'
  <1>1. PICK p \in PayJobs : p = payJob[r]
    BY PaySlot
  <1>2. payJob' = [payJob EXCEPT ![r] = Pay!Null]
    BY DEF Pay!Die
  <1>3. /\ payJob'[r] = Pay!Null /\ \A s \in Reqs : s # r => payJob'[s] = payJob[s]
        /\ UNCHANGED <<method, charges, refunds, hold, heldFor, onWallet, settled, captured, events>>
        /\ was \subseteq was'
        /\ p.op = "capture" /\ p.at = 2 => <<p.id, "unwritten">> \in was'
    BY <1>1, <1>2, PayNull, PaySlot, PaySteps DEF Pay!Die
  <1>4. JobOk(Pay!Null)' /\ Grows
    BY <1>3, PayNull DEF JobOk, Backed, Standing, Told, Grows
  <1>5. payJob' \in [Reqs -> PayJobs] /\ \A s \in Reqs : JobOk(payJob[s])'
    BY <1>2, <1>3, <1>4, PayNull, PayFrame
  <1>6. PayTypes' /\ HoldsKept' /\ \A o \in PaidOrders, s \in Reqs : SettledBy(o, s)'
    <2>1. PayTypes'
      BY <1>3, <1>5 DEF PayInv, PayTypes
    <2>2. HoldsKept'
      BY <1>3, <1>5, PayNull DEF PayInv, HoldsKept
    <2>3. ASSUME NEW o \in PaidOrders, NEW s \in Reqs
          PROVE  SettledBy(o, s)'
      BY <1>3, <1>5, PayNull DEF PayInv, SettledBy
    <2> QED
      BY <2>1, <2>2, <2>3
  <1>7. ASSUME NEW h \in Holds, NEW s \in Reqs
        PROVE  CapturedBy(h, s)'
    BY <1>1, <1>3, PayNull DEF PayInv, CapturedBy
  <1>8. Pay!RefundBacked' /\ Pay!Announced'
    BY <1>3 DEF PayInv, Pay!RefundBacked, Pay!Announced, Pay!SettlementExistsByOrderID
  <1> QED
    BY <1>5, <1>6, <1>7, <1>8 DEF PayInv

LEMMA PayStep ==
  ASSUME PayInv, [Pay!Next]_payment
  PROVE  PayInv'
  <1>1. CASE UNCHANGED payment
    <2>1. UNCHANGED <<method, charges, refunds, hold, heldFor, onWallet, settled, captured, was, events,
                      payJob>>
      BY <1>1 DEF payment
    <2> QED
      BY <2>1 DEF PayInv, PayTypes, HoldsKept, JobOk, Backed, Standing, Told, ChargedFrom,
         CapturedBy, SettledBy, Pay!RefundBacked, Pay!Announced, Pay!SettlementExistsByOrderID
  <1> QED
    BY <1>1, MethodStep, PayRequests, PayTransaction, PayHold, PayRefund, PayClose,
       PaySettlement, PayPublish, PayDie DEF Pay!Next, Pay!Handle

LEMMA PayInit == Init => PayInv
  <1> SUFFICES ASSUME Init PROVE PayInv
    OBVIOUS
  <1>1. /\ method = [m \in Methods |-> "none"]
        /\ charges = <<>> /\ refunds = {} /\ was = {} /\ events = {}
        /\ hold = [h \in Holds |-> "none"] /\ heldFor = [h \in Holds |-> 0] /\ onWallet = {}
        /\ settled = [o \in PaidOrders |-> [r \in Reqs |-> 0]]
        /\ captured = [h \in Holds |-> [r \in Reqs |-> 0]]
        /\ payJob = [r \in Reqs |-> Pay!Null]
    BY DEF Init, Pay!Init
  <1>2. PayTypes /\ \A r \in Reqs : JobOk(payJob[r])
    BY <1>1, PayNull DEF PayTypes
  <1>3. HoldsKept /\ Pay!RefundBacked /\ Pay!Announced
    BY <1>1, PayNull DEF HoldsKept, Pay!RefundBacked, Pay!Announced
  <1>4. \A h \in Holds, r \in Reqs : CapturedBy(h, r)
    BY <1>1 DEF CapturedBy
  <1>5. \A o \in PaidOrders, r \in Reqs : SettledBy(o, r)
    BY <1>1, PayNull DEF SettledBy
  <1> QED
    BY <1>2, <1>3, <1>4, <1>5 DEF PayInv

LEMMA PayImplied == PayInv => Pay!PaymentSafe
  <1> SUFFICES ASSUME PayInv PROVE Pay!PaymentSafe
    OBVIOUS
  <1>1. Pay!TypeOK
    BY DEF PayInv, PayTypes, PayRows, Pay!TypeOK
  <1>2. Pay!CaptureOnce
    BY DEF PayInv, CapturedBy, Pay!CaptureOnce
  <1>3. Pay!SettleOnce
    BY DEF PayInv, SettledBy, Pay!SettleOnce
  <1> QED
    BY <1>1, <1>2, <1>3 DEF PayInv, Pay!PaymentSafe

(* A charge reads refunded only on a processed refund, a hold is captured    *)
(* and an order settled once by each handler, what is announced took place;  *)
(* until increments collide or the process ends the limiter of cash on       *)
(* delivery holds; and while writes arrive every guess is counted, and a     *)
(* token that was handed out is on the row.                                  *)
THEOREM PaymentSafety == Spec => []PaymentSafe
  <1>1. Init => For("payment", PayInv) /\ For("cod", CodInv)
    BY PayInit, CodInit DEF For
  <1>2. For("payment", PayInv) /\ For("cod", CodInv) /\ [Next]_vars
          => (For("payment", PayInv) /\ For("cod", CodInv))'
    BY Moves, PayStep, CodStep DEF For
  <1>3. For("payment", PayInv) /\ For("cod", CodInv) => PaymentSafe
    BY PayImplied, CodImplied DEF For, PaymentSafe
  <1> QED
    BY <1>1, <1>2, <1>3, PTL DEF Spec

-----------------------------------------------------------------------------
(* tracking-service *)

Pushing == [op : {"set", "append"}, id : Track!Ids]
Stopping == [op : {"save", "delete", "clear"}, copy : Seq(Track!Ids)]
TrackJobs == {Track!Idle} \cup Pushing \cup Stopping
Stops(r) == trackJob[r].op \in {"save", "delete", "clear"}

TrackTypes ==
    /\ position \in 0..MaxPoints /\ points \in Seq(Track!Ids) /\ route \in Seq(Track!Ids)
    /\ sent \in 0..MaxPoints /\ stops \in 0..MaxStops
    /\ archived \subseteq Track!Ids /\ tardy \subseteq Track!Ids
    /\ trackJob \in [Reqs -> TrackJobs]

(* A stop holds the points that came in time, they are somewhere else too if *)
(* it dies, and it is past the archive only when they are in it.             *)
Safe(i) == i \in archived \cup tardy \cup Track!ToSet(points)
OnItsWay(i) == \E r \in Reqs : trackJob[r].op \in {"set", "append"} /\ trackJob[r].id = i
PointsLane ==
    /\ \A i \in 1..sent : Safe(i) \/ OnItsWay(i)
    /\ \A r \in Reqs : Stops(r) =>
          /\ Track!ToSet(points) \subseteq Track!ToSet(trackJob[r].copy) \cup tardy
          /\ \A i \in Track!ToSet(trackJob[r].copy) : Safe(i)
          /\ trackJob[r].op # "save" => Track!ToSet(trackJob[r].copy) \subseteq archived

(* Until a point comes late, the list, the archive and every copy of a stop  *)
(* are the list of the first stop or empty.                                  *)
AllOf(P) ==
    /\ points \in {P, <<>>} /\ route \in {P, <<>>}
    /\ \A r \in Reqs : Stops(r) => trackJob[r].copy \in {P, <<>>}
RouteLane ==
    /\ stops = 0 => route = <<>> /\ \A r \in Reqs : ~Stops(r)
    /\ tardy = {} => \E P \in Seq(Track!Ids) : AllOf(P)

TrackInv == TrackTypes /\ gaps \in BOOLEAN /\ (gaps \/ PointsLane) /\ RouteLane

LEMMA TrackConstants == /\ MaxPoints \in Nat /\ MaxStops \in Nat
                        /\ \A i \in Track!Ids : i \in 0..MaxPoints
  BY ServicesAssumption DEF Track!Ids

LEMMA PointsOfEmpty == Track!ToSet(<<>>) = {} /\ <<>> \in Seq(Track!Ids)
  BY DEF Track!ToSet

LEMMA PointsOfAppend ==
  ASSUME NEW s \in Seq(Track!Ids), NEW i \in Track!Ids
  PROVE  /\ Track!ToSet(Append(s, i)) = Track!ToSet(s) \cup {i}
         /\ Append(s, i) \in Seq(Track!Ids)
  <1>1. /\ Len(s) \in Nat /\ Len(Append(s, i)) = Len(s) + 1
        /\ \A k \in 1..Len(s) : Append(s, i)[k] = s[k]
        /\ Append(s, i)[Len(s) + 1] = i
        /\ DOMAIN s = 1..Len(s) /\ DOMAIN Append(s, i) = 1..(Len(s) + 1)
    OBVIOUS
  <1>2. Track!ToSet(Append(s, i)) \subseteq Track!ToSet(s) \cup {i}
    BY <1>1 DEF Track!ToSet
  <1>3. Track!ToSet(s) \subseteq Track!ToSet(Append(s, i))
    BY <1>1 DEF Track!ToSet
  <1>4. i \in Track!ToSet(Append(s, i))
    BY <1>1 DEF Track!ToSet
  <1> QED
    BY <1>2, <1>3, <1>4

LEMMA PointsAreIds ==
  ASSUME NEW s \in Seq(Track!Ids)
  PROVE  Track!ToSet(s) \subseteq Track!Ids
  BY DEF Track!ToSet

LEMMA TrackKinds ==
  ASSUME NEW q \in TrackJobs
  PROVE  /\ q.op \in {"set", "append"} => q \in Pushing
         /\ q.op \in {"save", "delete", "clear"} => q \in Stopping
         /\ q.op \in {"none", "set", "append", "save", "delete", "clear"}
         /\ q.op = "none" <=> q = Track!Idle
  <1>1. Track!Idle.op = "none"
    BY DEF Track!Idle
  <1>2. q \in Pushing => q.op \in {"set", "append"}
    BY DEF Pushing
  <1>3. q \in Stopping => q.op \in {"save", "delete", "clear"}
    BY DEF Stopping
  <1> QED
    BY <1>1, <1>2, <1>3 DEF TrackJobs

LEMMA TrackIdle == Track!Idle \in TrackJobs /\ Track!Idle.op = "none"
  BY DEF TrackJobs, Track!Idle

LEMMA TrackGoes ==
  ASSUME TrackTypes, NEW r \in Reqs, NEW q \in TrackJobs, Track!Goes(r, q)
  PROVE  /\ trackJob' \in [Reqs -> TrackJobs] /\ trackJob'[r] = q
         /\ \A s \in Reqs : s # r => trackJob'[s] = trackJob[s]
  BY DEF TrackTypes, Track!Goes

LEMMA TrackFollows ==
  ASSUME TrackTypes, NEW r \in Reqs, Stops(r), Track!Follows(r)
  PROVE  /\ trackJob' \in [Reqs -> TrackJobs]
         /\ \A s \in Reqs : s # r => trackJob'[s] = trackJob[s]
         /\ trackJob[r].op = "save" =>
               trackJob'[r].op = "delete" /\ trackJob'[r].copy = trackJob[r].copy
         /\ trackJob[r].op = "delete" =>
               trackJob'[r].op = "clear" /\ trackJob'[r].copy = trackJob[r].copy
         /\ trackJob[r].op = "clear" => trackJob'[r] = Track!Idle
  <1>1. trackJob[r] \in Stopping
    BY TrackKinds DEF TrackTypes, Stops
  <1>2. ASSUME NEW op \in {"delete", "clear"}
        PROVE  LET j == [trackJob[r] EXCEPT !.op = op]
               IN  j \in TrackJobs /\ j.op = op /\ j.copy = trackJob[r].copy
    BY <1>1 DEF Stopping, TrackJobs
  <1>3. CASE trackJob[r].op = "save"
    <2>1. Track!Goes(r, [trackJob[r] EXCEPT !.op = "delete"])
      BY <1>3 DEF Track!Follows, Track!Following
    <2> QED
      BY <1>2, <1>3, <2>1, TrackGoes
  <1>4. CASE trackJob[r].op = "delete"
    <2>1. Track!Goes(r, [trackJob[r] EXCEPT !.op = "clear"])
      BY <1>4 DEF Track!Follows, Track!Following
    <2> QED
      BY <1>2, <1>4, <2>1, TrackGoes
  <1>5. CASE trackJob[r].op = "clear"
    <2>1. Track!Goes(r, Track!Idle)
      BY <1>5 DEF Track!Follows, Track!Following
    <2> QED
      BY <1>5, <2>1, TrackGoes, TrackIdle
  <1> QED
    BY <1>3, <1>4, <1>5 DEF Stops

(* What steps that touch no stop, no list and no route keep.                 *)
LEMMA RouteLaneKept ==
  ASSUME RouteLane, UNCHANGED <<points, route, stops>>, tardy \subseteq tardy',
         \A r \in Reqs : Stops(r)' => Stops(r) /\ trackJob'[r].copy = trackJob[r].copy
  PROVE  RouteLane'
  <1>1. stops' = 0 => route' = <<>> /\ \A r \in Reqs : ~Stops(r)'
    BY DEF RouteLane
  <1>2. ASSUME tardy' = {} PROVE \E P \in Seq(Track!Ids) : AllOf(P)'
    <2>1. PICK P \in Seq(Track!Ids) : AllOf(P)
      BY <1>2 DEF RouteLane
    <2>2. AllOf(P)'
      BY <2>1 DEF AllOf
    <2> QED
      BY <2>2
  <1> QED
    BY <1>1, <1>2 DEF RouteLane

LEMMA TrackPushes ==
  ASSUME TrackInv, NEW r \in Reqs,
         Track!PushLocationUpdate(r) \/ Track!SetOrderPosition(r)
  PROVE  TrackInv'
  <1>1. UNCHANGED <<points, route, stops, archived, tardy, gaps>>
    BY DEF Track!PushLocationUpdate, Track!SetOrderPosition, Track!Counts
  <1>2. PICK j \in Pushing :
           /\ Track!Goes(r, j) /\ ~Stops(r)
           /\ \/ sent' = sent + 1 /\ j.id = sent + 1 /\ position' = position
                 /\ trackJob[r].op = "none"
              \/ sent' = sent /\ j.id = trackJob[r].id /\ position' = j.id
    <2>1. CASE Track!PushLocationUpdate(r)
      <3> DEFINE j == [op |-> "set", id |-> sent + 1]
      <3>1. /\ Track!Goes(r, j) /\ sent' = sent + 1 /\ position' = position
            /\ sent < MaxPoints /\ trackJob[r] = Track!Idle
        BY <2>1 DEF Track!PushLocationUpdate
      <3>2. sent + 1 \in Track!Ids
        BY <3>1, TrackConstants DEF TrackInv, TrackTypes, Track!Ids
      <3>3. j \in Pushing /\ j.id = sent + 1
        BY <3>2 DEF Pushing
      <3> QED
        BY <3>1, <3>3, TrackIdle DEF Stops
    <2>2. CASE Track!SetOrderPosition(r)
      <3> DEFINE j == [trackJob[r] EXCEPT !.op = "append"]
      <3>1. /\ Track!Goes(r, j) /\ sent' = sent /\ position' = trackJob[r].id
            /\ trackJob[r].op = "set"
        BY <2>2 DEF Track!SetOrderPosition, Track!Counts
      <3>2. trackJob[r] \in Pushing
        BY <3>1, TrackKinds DEF TrackInv, TrackTypes
      <3>3. j \in Pushing /\ j.id = trackJob[r].id
        BY <3>2 DEF Pushing
      <3> QED
        BY <3>1, <3>3 DEF Stops
    <2> QED
      BY <2>1, <2>2
  <1>3. j \in TrackJobs /\ j.op \in {"set", "append"} /\ j.id \in Track!Ids
    BY DEF TrackJobs, Pushing
  <1>4. /\ trackJob' \in [Reqs -> TrackJobs] /\ trackJob'[r] = j
        /\ \A s \in Reqs : s # r => trackJob'[s] = trackJob[s]
    BY <1>2, <1>3, TrackGoes DEF TrackInv
  <1>5. \A s \in Reqs : Stops(s)' => Stops(s) /\ trackJob'[s] = trackJob[s]
    BY <1>3, <1>4 DEF Stops
  <1>6. TrackTypes'
    <2>1. sent' \in 0..MaxPoints /\ position' \in 0..MaxPoints
      BY <1>2, <1>3, TrackConstants DEF TrackInv, TrackTypes
    <2> QED
      BY <1>1, <1>4, <2>1 DEF TrackInv, TrackTypes
  <1>7. ASSUME ~gaps PROVE PointsLane'
    <2>1. PointsLane
      BY <1>7 DEF TrackInv
    <2>2. ASSUME NEW i \in 1..sent' PROVE Safe(i)' \/ OnItsWay(i)'
      <3>1. CASE i = j.id
        BY <1>3, <1>4, <3>1 DEF OnItsWay
      <3>2. CASE i # j.id
        <4>1. i \in 1..sent
          BY <1>2, <2>2, <3>2 DEF TrackInv, TrackTypes
        <4>2. CASE Safe(i)
          BY <1>1, <4>2 DEF Safe
        <4>3. CASE OnItsWay(i)
          <5>1. PICK s \in Reqs : trackJob[s].op \in {"set", "append"} /\ trackJob[s].id = i
            BY <4>3 DEF OnItsWay
          <5>2. s # r
            BY <1>2, <3>2, <5>1
          <5> QED
            BY <1>4, <5>1, <5>2 DEF OnItsWay
        <4> QED
          BY <2>1, <4>1, <4>2, <4>3 DEF PointsLane
      <3> QED
        BY <3>1, <3>2
    <2>3. ASSUME NEW s \in Reqs, Stops(s)'
          PROVE  /\ Track!ToSet(points') \subseteq Track!ToSet(trackJob'[s].copy) \cup tardy'
                 /\ \A i \in Track!ToSet(trackJob'[s].copy) : Safe(i)'
                 /\ trackJob'[s].op # "save" => Track!ToSet(trackJob'[s].copy) \subseteq archived'
      BY <1>1, <1>5, <2>1, <2>3 DEF PointsLane, Safe
    <2> QED
      BY <2>2, <2>3 DEF PointsLane
  <1>8. RouteLane'
    BY <1>1, <1>5, RouteLaneKept DEF TrackInv
  <1>9. gaps' \in BOOLEAN /\ (gaps' \/ PointsLane')
    BY <1>1, <1>7, Zenon DEF TrackInv
  <1> QED
    BY <1>6, <1>8, <1>9 DEF TrackInv

LEMMA TrackAppends ==
  ASSUME TrackInv, NEW r \in Reqs, Track!AppendRoutePoint(r)
  PROVE  TrackInv'
  <1>1. PICK i \in Track!Ids :
           /\ i = trackJob[r].id /\ trackJob[r].op = "append"
           /\ points' = Append(points, i)
           /\ tardy' = IF stops > 0 THEN tardy \cup {i} ELSE tardy
           /\ Track!Goes(r, Track!Idle)
           /\ UNCHANGED <<position, route, sent, stops, archived, gaps>>
    <2>1. trackJob[r].op = "append"
      BY DEF Track!AppendRoutePoint
    <2>2. trackJob[r] \in Pushing
      BY <2>1, TrackKinds DEF TrackInv, TrackTypes
    <2>3. trackJob[r].id \in Track!Ids
      BY <2>2 DEF Pushing
    <2> QED
      BY <2>3 DEF Track!AppendRoutePoint, Track!Counts
  <1>2. /\ trackJob' \in [Reqs -> TrackJobs] /\ trackJob'[r] = Track!Idle
        /\ \A s \in Reqs : s # r => trackJob'[s] = trackJob[s]
    BY <1>1, TrackGoes, TrackIdle DEF TrackInv
  <1>3. \A s \in Reqs : Stops(s)' => Stops(s) /\ trackJob'[s] = trackJob[s]
    BY <1>2, TrackIdle DEF Stops
  <1>4. /\ points' \in Seq(Track!Ids)
        /\ Track!ToSet(points') = Track!ToSet(points) \cup {i}
    BY <1>1, PointsOfAppend DEF TrackInv, TrackTypes
  <1>5. tardy \subseteq tardy' /\ tardy' \subseteq tardy \cup {i}
    BY <1>1
  <1>6. stops # 0 => i \in tardy'
    BY <1>1, TrackConstants DEF TrackInv, TrackTypes
  <1>7. TrackTypes'
    BY <1>1, <1>2, <1>4, <1>5 DEF TrackInv, TrackTypes
  <1>8. ASSUME ~gaps PROVE PointsLane'
    <2>1. PointsLane
      BY <1>8 DEF TrackInv
    <2>2. \A k : Safe(k) => Safe(k)'
      BY <1>1, <1>4, <1>5 DEF Safe
    <2>3. Safe(i)'
      BY <1>4 DEF Safe
    <2>4. ASSUME NEW k \in 1..sent' PROVE Safe(k)' \/ OnItsWay(k)'
      <3>1. CASE OnItsWay(k) /\ k # i
        <4>1. PICK s \in Reqs : trackJob[s].op \in {"set", "append"} /\ trackJob[s].id = k
          BY <3>1 DEF OnItsWay
        <4>2. s # r
          BY <1>1, <3>1, <4>1
        <4> QED
          BY <1>2, <4>1, <4>2 DEF OnItsWay
      <3> QED
        BY <1>1, <2>1, <2>2, <2>3, <2>4, <3>1 DEF PointsLane
    <2>5. ASSUME NEW s \in Reqs, Stops(s)'
          PROVE  /\ Track!ToSet(points') \subseteq Track!ToSet(trackJob'[s].copy) \cup tardy'
                 /\ \A k \in Track!ToSet(trackJob'[s].copy) : Safe(k)'
                 /\ trackJob'[s].op # "save" => Track!ToSet(trackJob'[s].copy) \subseteq archived'
      <3>1. Stops(s) /\ trackJob'[s] = trackJob[s]
        BY <1>3, <2>5
      <3>2. i \in tardy'
        BY <1>6, <3>1 DEF TrackInv, RouteLane
      <3> QED
        BY <1>1, <1>4, <1>5, <2>1, <2>2, <3>1, <3>2 DEF PointsLane
    <2> QED
      BY <2>4, <2>5 DEF PointsLane
  <1>9. RouteLane'
    <2>1. CASE stops = 0
      <3>1. route = <<>> /\ \A s \in Reqs : ~Stops(s)
        BY <2>1 DEF TrackInv, RouteLane
      <3>2. route' = <<>> /\ \A s \in Reqs : ~Stops(s)'
        BY <1>1, <1>3, <3>1
      <3>3. PICK P \in Seq(Track!Ids) : P = points'
        BY <1>4
      <3>4. AllOf(P)'
        BY <3>2, <3>3 DEF AllOf
      <3> QED
        BY <3>2, <3>4 DEF RouteLane
    <2>2. CASE stops # 0
      BY <1>1, <1>6, <2>2 DEF RouteLane
    <2> QED
      BY <2>1, <2>2
  <1>10. gaps' \in BOOLEAN /\ (gaps' \/ PointsLane')
    BY <1>1, <1>8, Zenon DEF TrackInv
  <1> QED
    BY <1>7, <1>9, <1>10 DEF TrackInv

LEMMA TrackStops ==
  ASSUME TrackInv, NEW r \in Reqs, Track!StopTracking(r) \/ Track!StopBlindly(r)
  PROVE  TrackInv'
  <1>1. /\ trackJob[r] = Track!Idle /\ stops < MaxStops /\ stops' = stops + 1
        /\ UNCHANGED <<position, points, route, sent, archived, tardy>>
    BY DEF Track!StopTracking, Track!StopBlindly
  <1>2. PICK c \in Seq(Track!Ids) :
           /\ Track!Goes(r, [op |-> "save", copy |-> c])
           /\ \/ c = points /\ Track!StopTracking(r)
              \/ c = <<>> /\ Track!StopBlindly(r)
    BY PointsOfEmpty DEF Track!StopTracking, Track!StopBlindly, Track!Following, TrackInv,
                         TrackTypes
  <1>3. /\ gaps => gaps'
        /\ Track!StopBlindly(r) => gaps'
        /\ gaps' \in BOOLEAN
    BY Zenon DEF Track!StopTracking, Track!StopBlindly, TrackInv
  <1> DEFINE j == [op |-> "save", copy |-> c]
  <1>4. j \in TrackJobs /\ j.op = "save" /\ j.copy = c
    BY DEF TrackJobs, Stopping
  <1> HIDE DEF j
  <1>5. /\ trackJob' \in [Reqs -> TrackJobs] /\ trackJob'[r] = j
        /\ \A s \in Reqs : s # r => trackJob'[s] = trackJob[s]
    BY <1>2, <1>4, TrackGoes DEF TrackInv, j
  <1>6. TrackTypes'
    BY <1>1, <1>5, TrackConstants DEF TrackInv, TrackTypes
  <1>7. ASSUME ~gaps' PROVE PointsLane'
    <2>1. PointsLane /\ c = points
      BY <1>2, <1>3, <1>7 DEF TrackInv
    <2>2. \A i : Safe(i)' <=> Safe(i)
      BY <1>1 DEF Safe
    <2>3. \A i \in 1..sent' : Safe(i)' \/ OnItsWay(i)'
      <3>1. \A i : OnItsWay(i) => OnItsWay(i)'
        BY <1>1, <1>5, TrackIdle DEF OnItsWay
      <3> QED
        BY <1>1, <2>1, <2>2, <3>1 DEF PointsLane
    <2>4. ASSUME NEW s \in Reqs, Stops(s)'
          PROVE  /\ Track!ToSet(points') \subseteq Track!ToSet(trackJob'[s].copy) \cup tardy'
                 /\ \A k \in Track!ToSet(trackJob'[s].copy) : Safe(k)'
                 /\ trackJob'[s].op # "save" => Track!ToSet(trackJob'[s].copy) \subseteq archived'
      <3>1. CASE s = r
        BY <1>1, <1>4, <1>5, <2>1, <3>1 DEF Safe
      <3>2. CASE s # r
        BY <1>1, <1>5, <2>1, <2>2, <2>4, <3>2 DEF PointsLane, Stops
      <3> QED
        BY <3>1, <3>2
    <2> QED
      BY <2>3, <2>4 DEF PointsLane
  <1>8. RouteLane'
    <2>1. stops' # 0
      BY <1>1, TrackConstants DEF TrackInv, TrackTypes
    <2>2. ASSUME tardy' = {} PROVE \E P \in Seq(Track!Ids) : AllOf(P)'
      <3>1. PICK P \in Seq(Track!Ids) : AllOf(P)
        BY <1>1, <2>2 DEF TrackInv, RouteLane
      <3>2. c \in {P, <<>>}
        BY <1>2, <3>1 DEF AllOf
      <3>3. AllOf(P)'
        BY <1>1, <1>4, <1>5, <3>1, <3>2 DEF AllOf, Stops
      <3> QED
        BY <3>3
    <2> QED
      BY <2>1, <2>2 DEF RouteLane
  <1> QED
    BY <1>3, <1>6, <1>7, <1>8, Zenon DEF TrackInv

(* The steps of a stop that does not die.                                    *)
LEMMA TrackSaves ==
  ASSUME TrackInv, NEW r \in Reqs, Track!SaveTripRoute(r)
  PROVE  TrackInv'
  <1>1. /\ trackJob[r].op = "save" /\ Stops(r) /\ Track!Follows(r)
        /\ UNCHANGED <<position, points, sent, stops, tardy, gaps>>
    BY DEF Track!SaveTripRoute, Track!Counts, Stops
  <1>2. PICK c \in Seq(Track!Ids) :
           /\ c = trackJob[r].copy /\ route' = (IF c = <<>> THEN route ELSE c)
           /\ archived' = archived \cup Track!ToSet(route')
    <2>1. trackJob[r] \in Stopping
      BY <1>1, TrackKinds DEF TrackInv, TrackTypes
    <2>2. trackJob[r].copy \in Seq(Track!Ids)
      BY <2>1 DEF Stopping
    <2> QED
      BY <2>2 DEF Track!SaveTripRoute, Track!Archive
  <1>3. /\ trackJob' \in [Reqs -> TrackJobs]
        /\ \A s \in Reqs : s # r => trackJob'[s] = trackJob[s]
        /\ trackJob'[r].op = "delete" /\ trackJob'[r].copy = c
    BY <1>1, <1>2, TrackFollows DEF TrackInv
  <1>4. route' \in Seq(Track!Ids) /\ archived \subseteq archived' /\ archived' \subseteq Track!Ids
        /\ Track!ToSet(c) \subseteq archived'
    BY <1>2, PointsAreIds, PointsOfEmpty DEF TrackInv, TrackTypes
  <1>5. TrackTypes'
    BY <1>1, <1>3, <1>4 DEF TrackInv, TrackTypes
  <1>6. \A s \in Reqs : Stops(s)' => Stops(s) /\ trackJob'[s].copy = trackJob[s].copy
    BY <1>1, <1>2, <1>3 DEF Stops
  <1>7. ASSUME ~gaps PROVE PointsLane'
    <2>1. PointsLane
      BY <1>7 DEF TrackInv
    <2>2. \A i : Safe(i) => Safe(i)'
      BY <1>1, <1>4 DEF Safe
    <2>3. \A i \in 1..sent' : Safe(i)' \/ OnItsWay(i)'
      <3>1. \A i : OnItsWay(i) => OnItsWay(i)'
        BY <1>1, <1>3 DEF OnItsWay
      <3> QED
        BY <1>1, <2>1, <2>2, <3>1 DEF PointsLane
    <2>4. ASSUME NEW s \in Reqs, Stops(s)'
          PROVE  /\ Track!ToSet(points') \subseteq Track!ToSet(trackJob'[s].copy) \cup tardy'
                 /\ \A k \in Track!ToSet(trackJob'[s].copy) : Safe(k)'
                 /\ trackJob'[s].op # "save" => Track!ToSet(trackJob'[s].copy) \subseteq archived'
      <3>1. /\ Track!ToSet(points') \subseteq Track!ToSet(trackJob'[s].copy) \cup tardy'
            /\ \A k \in Track!ToSet(trackJob'[s].copy) : Safe(k)'
        BY <1>1, <1>6, <2>1, <2>2, <2>4 DEF PointsLane
      <3>2. trackJob'[s].op # "save" => Track!ToSet(trackJob'[s].copy) \subseteq archived'
        BY <1>3, <1>4, <1>6, <2>1, <2>4 DEF PointsLane
      <3> QED
        BY <3>1, <3>2
    <2> QED
      BY <2>3, <2>4 DEF PointsLane
  <1>8. RouteLane'
    <2>1. stops' # 0
      BY <1>1 DEF TrackInv, RouteLane
    <2>2. ASSUME tardy' = {} PROVE \E P \in Seq(Track!Ids) : AllOf(P)'
      <3>1. PICK P \in Seq(Track!Ids) : AllOf(P)
        BY <1>1, <2>2 DEF TrackInv, RouteLane
      <3>2. route' \in {P, <<>>}
        BY <1>1, <1>2, <3>1 DEF AllOf
      <3>3. AllOf(P)'
        BY <1>1, <1>6, <3>1, <3>2 DEF AllOf
      <3> QED
        BY <3>3
    <2> QED
      BY <2>1, <2>2 DEF RouteLane
  <1>9. gaps' \in BOOLEAN /\ (gaps' \/ PointsLane')
    BY <1>1, <1>7, Zenon DEF TrackInv
  <1> QED
    BY <1>5, <1>8, <1>9 DEF TrackInv

LEMMA TrackClears ==
  ASSUME TrackInv, NEW r \in Reqs,
         Track!DeleteOrderPosition(r) \/ Track!ClearActiveRoutePoints(r)
  PROVE  TrackInv'
  <1>1. /\ trackJob[r].op \in {"delete", "clear"} /\ Stops(r) /\ Track!Follows(r)
        /\ UNCHANGED <<route, sent, stops, archived, tardy, gaps>>
        /\ position' \in {0, position}
        /\ points' = points \/ (points' = <<>> /\ trackJob[r].op = "clear")
    BY DEF Track!DeleteOrderPosition, Track!ClearActiveRoutePoints, Track!Counts, Stops
  <1>2. /\ trackJob' \in [Reqs -> TrackJobs]
        /\ \A s \in Reqs : s # r => trackJob'[s] = trackJob[s]
        /\ Stops(r)' => trackJob'[r].copy = trackJob[r].copy
        /\ trackJob'[r].op \in {"clear", "none"}
    BY <1>1, TrackFollows, TrackIdle DEF TrackInv, Stops
  <1>3. points' \in Seq(Track!Ids) /\ points' \in {points, <<>>}
    BY <1>1, PointsOfEmpty DEF TrackInv, TrackTypes
  <1>4. TrackTypes'
    BY <1>1, <1>2, <1>3, TrackConstants DEF TrackInv, TrackTypes
  <1>5. \A s \in Reqs : Stops(s)' => Stops(s) /\ trackJob'[s].copy = trackJob[s].copy
    BY <1>1, <1>2 DEF Stops
  <1>6. ASSUME ~gaps PROVE PointsLane'
    <2>1. PointsLane
      BY <1>6 DEF TrackInv
    <2>2. points' = <<>> => Track!ToSet(points) \subseteq archived \cup tardy \/ points' = points
      BY <1>1, <2>1 DEF PointsLane
    <2>3. \A i : Safe(i) => Safe(i)'
      BY <1>1, <1>3, <2>2 DEF Safe
    <2>4. \A i \in 1..sent' : Safe(i)' \/ OnItsWay(i)'
      <3>1. \A i : OnItsWay(i) => OnItsWay(i)'
        BY <1>1, <1>2 DEF OnItsWay
      <3> QED
        BY <1>1, <2>1, <2>3, <3>1 DEF PointsLane
    <2>5. ASSUME NEW s \in Reqs, Stops(s)'
          PROVE  /\ Track!ToSet(points') \subseteq Track!ToSet(trackJob'[s].copy) \cup tardy'
                 /\ \A k \in Track!ToSet(trackJob'[s].copy) : Safe(k)'
                 /\ trackJob'[s].op # "save" => Track!ToSet(trackJob'[s].copy) \subseteq archived'
      <3>1. Track!ToSet(points') \subseteq Track!ToSet(trackJob'[s].copy) \cup tardy'
        BY <1>1, <1>3, <1>5, <2>1, <2>5, PointsOfEmpty DEF PointsLane
      <3>2. \A k \in Track!ToSet(trackJob'[s].copy) : Safe(k)'
        BY <1>5, <2>1, <2>3, <2>5 DEF PointsLane
      <3>3. trackJob'[s].op # "save" => Track!ToSet(trackJob'[s].copy) \subseteq archived'
        BY <1>1, <1>2, <1>5, <2>1, <2>5 DEF PointsLane
      <3> QED
        BY <3>1, <3>2, <3>3
    <2> QED
      BY <2>4, <2>5 DEF PointsLane
  <1>7. RouteLane'
    <2>1. stops' # 0
      BY <1>1 DEF TrackInv, RouteLane
    <2>2. ASSUME tardy' = {} PROVE \E P \in Seq(Track!Ids) : AllOf(P)'
      <3>1. PICK P \in Seq(Track!Ids) : AllOf(P)
        BY <1>1, <2>2 DEF TrackInv, RouteLane
      <3>2. AllOf(P)'
        BY <1>1, <1>3, <1>5, <3>1 DEF AllOf
      <3> QED
        BY <3>2
    <2> QED
      BY <2>1, <2>2 DEF RouteLane
  <1>8. gaps' \in BOOLEAN /\ (gaps' \/ PointsLane')
    BY <1>1, <1>6, Zenon DEF TrackInv
  <1> QED
    BY <1>4, <1>7, <1>8 DEF TrackInv

LEMMA TrackFails ==
  ASSUME TrackInv, NEW r \in Reqs, Track!CommandFails(r) \/ Track!Die(r)
  PROVE  TrackInv'
  <1>1. /\ UNCHANGED <<position, points, route, sent, stops, archived, tardy>>
        /\ trackJob[r] # Track!Idle
        /\ \/ Track!Goes(r, Track!Idle)
           \/ Track!Follows(r) /\ Stops(r)
    <2>1. CASE Track!Die(r)
      BY <2>1 DEF Track!Die, Track!Counts
    <2>2. CASE Track!CommandFails(r)
      BY <2>2, TrackKinds DEF Track!CommandFails, Track!Counts, Stops, TrackInv, TrackTypes
    <2> QED
      BY <2>1, <2>2
  <1>2. /\ gaps => gaps'
        /\ trackJob[r].op \in {"set", "append"} => gaps'
        /\ Track!CommandFails(r) /\ trackJob[r].op = "save" => gaps'
        /\ gaps' \in BOOLEAN
    BY Zenon DEF Track!CommandFails, Track!Die
  <1>3. /\ trackJob' \in [Reqs -> TrackJobs]
        /\ \A s \in Reqs : s # r => trackJob'[s] = trackJob[s]
        /\ Stops(r)' => Stops(r) /\ trackJob'[r].copy = trackJob[r].copy
    <2>1. CASE Track!Goes(r, Track!Idle)
      BY <2>1, TrackGoes, TrackIdle DEF TrackInv, Stops
    <2>2. CASE Track!Follows(r) /\ Stops(r)
      BY <2>2, TrackFollows, TrackIdle DEF TrackInv, Stops
    <2> QED
      BY <1>1, <2>1, <2>2
  <1>4. ~gaps' => trackJob[r].op \in {"save", "delete", "clear"}
    BY <1>1, <1>2, TrackKinds DEF TrackInv, TrackTypes
  <1>5. ~gaps' => (Stops(r)' => trackJob[r].op # "save")
    <2>1. CASE Track!Die(r)
      <3>1. Track!Goes(r, Track!Idle)
        BY <2>1 DEF Track!Die
      <3> QED
        BY <3>1, TrackGoes, TrackIdle DEF TrackInv, Stops
    <2>2. CASE Track!CommandFails(r)
      BY <1>2, <2>2
    <2> QED
      BY <2>1, <2>2
  <1>6. TrackTypes'
    BY <1>1, <1>3 DEF TrackInv, TrackTypes
  <1>7. \A s \in Reqs : Stops(s)' => Stops(s) /\ trackJob'[s].copy = trackJob[s].copy
    BY <1>3 DEF Stops
  <1>8. ASSUME ~gaps' PROVE PointsLane'
    <2>1. PointsLane
      BY <1>2, <1>8 DEF TrackInv
    <2>2. \A i : Safe(i) => Safe(i)'
      BY <1>1 DEF Safe
    <2>3. \A i \in 1..sent' : Safe(i)' \/ OnItsWay(i)'
      <3>1. \A i : OnItsWay(i) => OnItsWay(i)'
        BY <1>3, <1>4, <1>8 DEF OnItsWay
      <3> QED
        BY <1>1, <2>1, <2>2, <3>1 DEF PointsLane
    <2>4. ASSUME NEW s \in Reqs, Stops(s)'
          PROVE  /\ Track!ToSet(points') \subseteq Track!ToSet(trackJob'[s].copy) \cup tardy'
                 /\ \A k \in Track!ToSet(trackJob'[s].copy) : Safe(k)'
                 /\ trackJob'[s].op # "save" => Track!ToSet(trackJob'[s].copy) \subseteq archived'
      <3>1. Track!ToSet(points') \subseteq Track!ToSet(trackJob'[s].copy) \cup tardy'
        BY <1>1, <1>7, <2>1, <2>4 DEF PointsLane
      <3>2. \A k \in Track!ToSet(trackJob'[s].copy) : Safe(k)'
        BY <1>7, <2>1, <2>2, <2>4 DEF PointsLane
      <3>3. trackJob'[s].op # "save" => Track!ToSet(trackJob'[s].copy) \subseteq archived'
        BY <1>1, <1>3, <1>5, <1>7, <1>8, <2>1, <2>4 DEF PointsLane
      <3> QED
        BY <3>1, <3>2, <3>3
    <2> QED
      BY <2>3, <2>4 DEF PointsLane
  <1>9. RouteLane'
    BY <1>1, <1>7, RouteLaneKept DEF TrackInv
  <1> QED
    BY <1>2, <1>6, <1>8, <1>9, Zenon DEF TrackInv

LEMMA TrackExpires ==
  ASSUME TrackInv, Track!PositionExpires \/ Track!PointsExpire
  PROVE  TrackInv'
  <1>1. /\ UNCHANGED <<route, sent, stops, archived, tardy, trackJob>>
        /\ position' \in 0..MaxPoints
        /\ points' = points \/ (points' = <<>> /\ Track!PointsExpire)
    BY TrackConstants DEF Track!PositionExpires, Track!PointsExpire, Track!Counts, TrackInv,
                          TrackTypes
  <1>2. /\ gaps => gaps'
        /\ Track!PointsExpire => gaps'
        /\ gaps' \in BOOLEAN
    BY Zenon DEF Track!PositionExpires, Track!PointsExpire, TrackInv
  <1>3. points' \in Seq(Track!Ids)
    BY <1>1, PointsOfEmpty DEF TrackInv, TrackTypes
  <1>4. TrackTypes'
    BY <1>1, <1>3 DEF TrackInv, TrackTypes
  <1>5. ASSUME ~gaps' PROVE PointsLane'
    <2>1. PointsLane /\ points' = points
      BY <1>1, <1>2, <1>5 DEF TrackInv
    <2> QED
      BY <1>1, <2>1 DEF PointsLane, Safe, OnItsWay, Stops
  <1>6. RouteLane'
    <2>1. ASSUME tardy' = {} PROVE \E P \in Seq(Track!Ids) : AllOf(P)'
      <3>1. PICK P \in Seq(Track!Ids) : AllOf(P)
        BY <1>1, <2>1 DEF TrackInv, RouteLane
      <3>2. AllOf(P)'
        BY <1>1, <3>1 DEF AllOf, Stops
      <3> QED
        BY <3>2
    <2>2. stops' = 0 => route' = <<>> /\ \A s \in Reqs : ~Stops(s)'
      BY <1>1 DEF TrackInv, RouteLane, Stops
    <2> QED
      BY <2>1, <2>2 DEF RouteLane
  <1> QED
    BY <1>2, <1>4, <1>5, <1>6, Zenon DEF TrackInv

LEMMA TrackStep == TrackInv /\ [Track!Next]_tracking => TrackInv'
  <1> SUFFICES ASSUME TrackInv, [Track!Next]_tracking PROVE TrackInv'
    OBVIOUS
  <1>1. CASE UNCHANGED tracking
    <2>1. UNCHANGED <<position, points, route, sent, stops, archived, tardy, gaps, trackJob>>
      BY <1>1 DEF tracking
    <2>2. TrackTypes'
      BY <2>1 DEF TrackInv, TrackTypes
    <2>3. PointsLane => PointsLane'
      BY <2>1 DEF PointsLane, Safe, OnItsWay, Stops
    <2>4. RouteLane'
      BY <2>1, RouteLaneKept DEF TrackInv, Stops
    <2>5. gaps' \in BOOLEAN /\ (gaps' \/ PointsLane')
      BY <2>1, <2>3, Zenon DEF TrackInv
    <2> QED
      BY <2>2, <2>4, <2>5 DEF TrackInv
  <1> QED
    BY <1>1, TrackPushes, TrackAppends, TrackStops, TrackSaves, TrackClears, TrackFails,
       TrackExpires DEF Track!Next

LEMMA TrackInit == Init => TrackInv
  <1> SUFFICES ASSUME Track!Init PROVE TrackInv
    BY DEF Init
  <1>1. /\ position = 0 /\ points = <<>> /\ route = <<>> /\ sent = 0 /\ stops = 0
        /\ archived = {} /\ tardy = {} /\ trackJob = [r \in Reqs |-> Track!Idle]
    BY DEF Track!Init
  <1>2. gaps \in BOOLEAN
    BY Zenon DEF Track!Init
  <1>3. TrackTypes
    BY <1>1, TrackIdle, TrackConstants, PointsOfEmpty DEF TrackTypes
  <1>4. \A r \in Reqs : ~Stops(r)
    BY <1>1, TrackIdle DEF Stops
  <1>5. PointsLane
    BY <1>1, <1>4 DEF PointsLane
  <1>6. RouteLane
    <2>1. <<>> \in Seq(Track!Ids) /\ AllOf(<<>>)
      BY <1>1, <1>4, PointsOfEmpty DEF AllOf
    <2> QED
      BY <1>1, <1>4, <2>1 DEF RouteLane
  <1> QED
    BY <1>2, <1>3, <1>5, <1>6, Zenon DEF TrackInv

LEMMA TrackImplied == TrackInv => Track!TypeOK /\ Track!PointsKept
  <1> SUFFICES ASSUME TrackInv PROVE Track!TypeOK /\ Track!PointsKept
    OBVIOUS
  <1>1. Track!TypeOK
    <2>1. \A r \in Reqs : trackJob[r].op \in {"none", "set", "append", "save", "delete", "clear"}
      BY TrackKinds DEF TrackInv, TrackTypes
    <2>2. gaps \in BOOLEAN
      BY Zenon DEF TrackInv
    <2> QED
      BY <2>1, <2>2 DEF TrackInv, TrackTypes, Track!TypeOK
  <1>2. Track!PointsKept
    <2>1. CASE gaps
      BY <2>1, Zenon DEF Track!PointsKept
    <2>2. CASE ~gaps
      <3>1. ASSUME NEW i \in 1..sent
            PROVE  \/ i \in archived \cup tardy \cup Track!ToSet(points)
                   \/ \E r \in Reqs : trackJob[r] # Track!Idle /\
                         IF trackJob[r].op \in {"set", "append"} THEN trackJob[r].id = i
                         ELSE i \in Track!ToSet(trackJob[r].copy)
        <4>1. CASE Safe(i)
          BY <4>1 DEF Safe
        <4>2. CASE OnItsWay(i)
          <5>1. PICK r \in Reqs : trackJob[r].op \in {"set", "append"} /\ trackJob[r].id = i
            BY <4>2 DEF OnItsWay
          <5>2. trackJob[r] # Track!Idle
            BY <5>1, TrackIdle
          <5> QED
            BY <5>1, <5>2
        <4> QED
          BY <2>2, <4>1, <4>2 DEF TrackInv, PointsLane
      <3> QED
        BY <3>1 DEF Track!PointsKept
    <2> QED
      BY <2>1, <2>2
  <1> QED
    BY <1>1, <1>2

(* The archive changes only at a save, and a first one is a save of nothing. *)
LEMMA TrackRoute ==
  ASSUME TrackInv, [Track!Next]_tracking
  PROVE  [route # <<>> /\ route' # route => tardy # {}]_tracking
  <1> SUFFICES ASSUME route # <<>>, route' # route, tardy = {} PROVE FALSE
    OBVIOUS
  <1>1. PICK r \in Reqs : Track!SaveTripRoute(r)
    BY DEF tracking, Track!Next, Track!PushLocationUpdate, Track!SetOrderPosition,
           Track!AppendRoutePoint, Track!StopTracking, Track!StopBlindly,
           Track!DeleteOrderPosition, Track!ClearActiveRoutePoints, Track!CommandFails,
           Track!Die, Track!PositionExpires, Track!PointsExpire
  <1>2. /\ Stops(r) /\ trackJob[r].copy # <<>> /\ route' = trackJob[r].copy
    BY <1>1 DEF Track!SaveTripRoute, Track!Archive, Stops
  <1>3. PICK P \in Seq(Track!Ids) : AllOf(P)
    BY DEF TrackInv, RouteLane
  <1> QED
    BY <1>2, <1>3 DEF AllOf

-----------------------------------------------------------------------------
(* geo-service.  What a map shows of a driver is what the last of the first  *)
(* n reports of him says, among those of service types S.                    *)

ReportsOf(n, R, d, S) == {i \in 1..n : R[i].driver = d /\ R[i].service \in S}
Shows(fix, d, S, n, R, lost) ==
  \/ fix = 0 /\ (lost = TRUE \/ ReportsOf(n, R, d, S) = {})
  \/ \E i \in ReportsOf(n, R, d, S) : (\A j \in ReportsOf(n, R, d, S) : j <= i) /\ fix = Geo!Shown(R[i])

LEMMA ShowsSame ==
  ASSUME NEW fix, NEW d, NEW S, NEW n \in Nat, NEW R, NEW Q, NEW lost,
         \A i \in 1..n : Q[i] = R[i], Shows(fix, d, S, n, R, lost)
  PROVE  Shows(fix, d, S, n, Q, lost)
  <1>1. ReportsOf(n, Q, d, S) = ReportsOf(n, R, d, S) /\ ReportsOf(n, R, d, S) \subseteq 1..n
    BY DEF ReportsOf
  <1> QED
    BY <1>1 DEF Shows

LEMMA ShowsOther ==
  ASSUME NEW fix, NEW d, NEW S, NEW n \in Nat, NEW R, NEW lost,
         ~(R[n + 1].driver = d /\ R[n + 1].service \in S), Shows(fix, d, S, n, R, lost)
  PROVE  Shows(fix, d, S, n + 1, R, lost)
  <1>1. ReportsOf(n + 1, R, d, S) = ReportsOf(n, R, d, S)
    BY DEF ReportsOf
  <1> QED
    BY <1>1 DEF Shows

LEMMA ShowsNext ==
  ASSUME NEW d, NEW S, NEW n \in Nat, NEW R, NEW lost,
         R[n + 1].driver = d, R[n + 1].service \in S
  PROVE  Shows(Geo!Shown(R[n + 1]), d, S, n + 1, R, lost)
  <1>1. n + 1 \in ReportsOf(n + 1, R, d, S) /\ \A j \in ReportsOf(n + 1, R, d, S) : j <= n + 1
    BY DEF ReportsOf
  <1> QED
    BY <1>1 DEF Shows

LEMMA ShowsNothing ==
  ASSUME NEW d, NEW S, NEW R, NEW lost
  PROVE  /\ Shows(0, d, S, 0, R, lost)
         /\ \A n \in Nat : Shows(0, d, S, n, R, TRUE)
  <1>1. ReportsOf(0, R, d, S) = {}
    BY DEF ReportsOf
  <1> QED
    BY <1>1 DEF Shows

LEMMA ShowsLast ==
  ASSUME NEW fix, NEW d, NEW S, handled \in Nat, Shows(fix, d, S, handled, reports, restarted)
  PROVE  fix = Geo!Shown(Geo!LastReport(d, S)) \/ (restarted /\ fix = 0)
  <1> DEFINE is == ReportsOf(handled, reports, d, S)
  <1>1. CASE fix = 0 /\ restarted = TRUE
    BY <1>1
  <1>2. CASE fix = 0 /\ is = {}
    <2>1. Geo!LastReport(d, S) = [id |-> 0, status |-> "offline"]
      BY <1>2 DEF Geo!LastReport, ReportsOf
    <2> QED
      BY <1>2, <2>1 DEF Geo!Shown
  <1>3. ASSUME NEW i \in is, \A j \in is : j <= i, fix = Geo!Shown(reports[i])
        PROVE  fix = Geo!Shown(Geo!LastReport(d, S))
    <2>1. \A k \in is : (\A j \in is : j <= k) => k = i
      BY <1>3 DEF ReportsOf
    <2>2. i = CHOOSE k \in is : \A j \in is : j <= k
      BY <1>3, <2>1
    <2>3. Geo!LastReport(d, S) = IF is = {} THEN [id |-> 0, status |-> "offline"]
                                 ELSE reports[CHOOSE k \in is : \A j \in is : j <= k]
      BY DEF Geo!LastReport, ReportsOf
    <2>4. Geo!LastReport(d, S) = reports[i]
      BY <1>3, <2>2, <2>3
    <2> QED
      BY <1>3, <2>4
  <1> QED
    BY <1>1, <1>2, <1>3 DEF Shows

GeoReports == [id : 1..Bound["geo"], driver : GeoDrivers, service : ServiceTypes,
               status : {"online", "offline"}]
GeoTypes ==
  /\ drivers \in [GeoDrivers -> Geo!Fixes] /\ geoSets \in [ServiceTypes -> [GeoDrivers -> Geo!Fixes]]
  /\ reports \in Seq(GeoReports)
  /\ geoArrived \in 0..Bound["geo"] /\ Len(reports) <= geoArrived
  /\ committed \in Nat /\ handled \in Nat /\ committed <= handled /\ handled <= Len(reports)
  /\ etas \subseteq GeoDrivers /\ assigned \subseteq GeoDrivers /\ ended \subseteq GeoDrivers
  /\ posted \subseteq GeoDrivers /\ over \subseteq GeoDrivers /\ revived \subseteq GeoDrivers
Reported(d) ==
  d \notin posted =>
    /\ Shows(drivers[d], d, ServiceTypes, handled, reports, restarted)
    /\ \A s \in ServiceTypes : Shows(geoSets[s][d], d, {s}, handled, reports, restarted)
Abroad(d, s) == \E i \in 1..handled : reports[i].driver = d /\ reports[i].service # s
Found(d) ==
  /\ drivers[d] # 0 => \E s \in ServiceTypes : geoSets[s][d] = drivers[d]
  /\ drivers[d] = 0 => \A s \in ServiceTypes : geoSets[s][d] # 0 => Abroad(d, s)
GeoInv ==
  /\ GeoTypes /\ restarted \in BOOLEAN
  /\ \A d \in GeoDrivers : Reported(d) /\ Found(d)
  /\ Geo!EtaEnds

LEMMA GeoConstants == Bound["geo"] \in Nat /\ 0 \in Geo!Fixes /\ 1..Bound["geo"] \subseteq Geo!Fixes
  BY ServicesAssumption DEF Geo!Fixes, ServiceNames

LEMMA GeoInit == Geo!Init => GeoInv
  <1> SUFFICES ASSUME Geo!Init PROVE GeoInv
    OBVIOUS
  <1>1. GeoTypes
    BY GeoConstants DEF Geo!Init, GeoTypes, Geo!Nowhere, Geo!NoSets
  <1>2. ASSUME NEW d \in GeoDrivers PROVE Reported(d) /\ Found(d)
    <2>1. drivers[d] = 0 /\ handled = 0 /\ \A s \in ServiceTypes : geoSets[s][d] = 0
      BY DEF Geo!Init, Geo!Nowhere, Geo!NoSets
    <2> QED
      BY <2>1, ShowsNothing DEF Reported, Found
  <1>3. Geo!EtaEnds /\ restarted \in BOOLEAN
    BY DEF Geo!Init, Geo!EtaEnds
  <1> QED
    BY <1>1, <1>2, <1>3 DEF GeoInv

(* A driver of whom nothing is written and no report handled.                *)
LEMMA DriverKept ==
  ASSUME GeoTypes, NEW d \in GeoDrivers, Reported(d), Found(d),
         drivers'[d] = drivers[d], \A s \in ServiceTypes : geoSets'[s][d] = geoSets[s][d],
         d \notin posted' => d \notin posted, restarted' = restarted,
         \A i \in 1..handled : reports'[i] = reports[i],
         \/ handled' = handled
         \/ handled' = handled + 1 /\ reports' = reports /\ reports[handled + 1].driver # d
  PROVE  Reported(d)' /\ Found(d)'
  <1> USE DEF GeoTypes
  <1>1. \A fix, S : Shows(fix, d, S, handled, reports, restarted)
                       => Shows(fix, d, S, handled', reports', restarted')
    <2>1. CASE handled' = handled
      BY <2>1, ShowsSame
    <2>2. CASE handled' = handled + 1 /\ reports' = reports /\ reports[handled + 1].driver # d
      BY <2>2, ShowsOther
    <2> QED
      BY <2>1, <2>2
  <1>2. \A s \in ServiceTypes : Abroad(d, s) => Abroad(d, s)'
    BY DEF Abroad
  <1>3. Reported(d)'
    BY <1>1 DEF Reported
  <1>4. Found(d)'
    BY <1>2 DEF Found
  <1> QED
    BY <1>3, <1>4

LEMMA GeoPlace ==
  ASSUME GeoTypes, NEW d \in GeoDrivers, NEW s \in ServiceTypes, NEW i \in 0..Bound["geo"],
         Geo!Place(d, s, i)
  PROVE  /\ drivers' \in [GeoDrivers -> Geo!Fixes]
         /\ geoSets' \in [ServiceTypes -> [GeoDrivers -> Geo!Fixes]]
         /\ drivers'[d] = i /\ geoSets'[s][d] = i
         /\ \A t \in ServiceTypes \ {s} : geoSets'[t] = geoSets[t]
         /\ \A e \in GeoDrivers \ {d} : drivers'[e] = drivers[e] /\ \A t \in ServiceTypes : geoSets'[t][e] = geoSets[t][e]
  <1>1. i \in Geo!Fixes
    BY DEF Geo!Fixes
  <1> QED
    BY <1>1 DEF GeoTypes, Geo!Place

LEMMA GeoReport ==
  ASSUME GeoInv, NEW e \in GeoDrivers, NEW s \in ServiceTypes, NEW how \in {"online", "offline"},
         Geo!Report(e, s, how)
  PROVE  GeoInv'
  <1> USE DEF GeoInv
  <1>1. /\ UNCHANGED <<drivers, geoSets, etas, handled, committed, assigned, ended, posted, over,
                       revived, restarted>>
        /\ geoArrived' = geoArrived + 1 /\ geoArrived < Bound["geo"]
    BY DEF Geo!Report, Geo!Arrives, Geo!Cache, Geo!Orders
  <1> DEFINE r == [id |-> geoArrived + 1, driver |-> e, service |-> s, status |-> how]
  <1>2. r \in GeoReports
    BY <1>1, GeoConstants DEF GeoTypes, GeoReports
  <1>3. reports' = Append(reports, r)
    BY <1>1 DEF Geo!Report
  <1> HIDE DEF r
  <1>4. GeoTypes'
    BY <1>1, <1>2, <1>3, GeoConstants DEF GeoTypes
  <1>5. \A i \in 1..handled : reports'[i] = reports[i]
    BY <1>3, <1>2 DEF GeoTypes
  <1>6. ASSUME NEW d \in GeoDrivers PROVE Reported(d)' /\ Found(d)'
    BY <1>1, <1>5, DriverKept
  <1>7. Geo!EtaEnds' /\ restarted' \in BOOLEAN
    BY <1>1 DEF Geo!EtaEnds
  <1> QED
    BY <1>4, <1>6, <1>7

LEMMA GeoUpdate ==
  ASSUME GeoInv, NEW e \in GeoDrivers, NEW s \in ServiceTypes, Geo!UpdateDriverLocation(e, s)
  PROVE  GeoInv'
  <1> USE DEF GeoInv
  <1>1. /\ UNCHANGED <<etas, reports, handled, committed, assigned, ended, over, revived, restarted>>
        /\ geoArrived' = geoArrived + 1 /\ geoArrived < Bound["geo"]
        /\ posted' = posted \cup {e} /\ Geo!Place(e, s, geoArrived + 1)
    BY DEF Geo!UpdateDriverLocation, Geo!Arrives, Geo!Topic, Geo!Orders
  <1>2. geoArrived + 1 \in 0..Bound["geo"] /\ geoArrived + 1 # 0
    BY <1>1, GeoConstants DEF GeoTypes
  <1> DEFINE i == geoArrived + 1
  <1>3. /\ drivers' \in [GeoDrivers -> Geo!Fixes]
        /\ geoSets' \in [ServiceTypes -> [GeoDrivers -> Geo!Fixes]]
        /\ drivers'[e] = i /\ geoSets'[s][e] = i
        /\ \A d \in GeoDrivers \ {e} :
              drivers'[d] = drivers[d] /\ \A t \in ServiceTypes : geoSets'[t][d] = geoSets[t][d]
    BY <1>1, <1>2, GeoPlace
  <1>4. GeoTypes'
    BY <1>1, <1>2, <1>3 DEF GeoTypes
  <1>5. Reported(e)' /\ Found(e)'
    BY <1>1, <1>2, <1>3 DEF Reported, Found
  <1>6. ASSUME NEW d \in GeoDrivers, d # e PROVE Reported(d)' /\ Found(d)'
    BY <1>1, <1>3, <1>6, DriverKept
  <1>7. Geo!EtaEnds' /\ restarted' \in BOOLEAN
    BY <1>1 DEF Geo!EtaEnds
  <1> QED
    BY <1>4, <1>5, <1>6, <1>7

LEMMA GeoHandle ==
  ASSUME GeoInv, Geo!HandleDriverLocationUpdated
  PROVE  GeoInv'
  <1> USE DEF GeoInv
  <1>1. /\ UNCHANGED <<etas, reports, committed, assigned, ended, posted, over, revived, restarted,
                       geoArrived>>
        /\ handled < Len(reports) /\ handled' = handled + 1
    BY DEF Geo!HandleDriverLocationUpdated, Geo!Orders
  <1>2. PICK r \in GeoReports : r = reports[handled + 1]
    BY <1>1 DEF GeoTypes
  <1>3. PICK e \in GeoDrivers, s \in ServiceTypes : e = r.driver /\ s = r.service
    BY <1>2 DEF GeoReports
  <1>4. PICK i \in 0..Bound["geo"] : i = Geo!Shown(r) /\ Geo!Place(e, s, i)
    <2>1. CASE r.status = "offline"
      <3>1. Geo!Place(e, s, 0) /\ Geo!Shown(r) = 0
        BY <1>1, <1>2, <1>3, <2>1 DEF Geo!HandleDriverLocationUpdated, Geo!RemoveDriver, Geo!Place,
           Geo!Shown
      <3> QED
        BY <3>1, GeoConstants
    <2>2. CASE r.status # "offline"
      <3>1. Geo!Place(e, s, r.id) /\ Geo!Shown(r) = r.id
        BY <1>1, <1>2, <1>3, <2>2 DEF Geo!HandleDriverLocationUpdated, Geo!Shown
      <3> QED
        BY <1>2, <3>1, GeoConstants DEF GeoReports
    <2> QED
      BY <2>1, <2>2
  <1>5. /\ drivers' \in [GeoDrivers -> Geo!Fixes]
        /\ geoSets' \in [ServiceTypes -> [GeoDrivers -> Geo!Fixes]]
        /\ drivers'[e] = i /\ geoSets'[s][e] = i
        /\ \A t \in ServiceTypes \ {s} : geoSets'[t] = geoSets[t]
        /\ \A d \in GeoDrivers \ {e} :
              drivers'[d] = drivers[d] /\ \A t \in ServiceTypes : geoSets'[t][d] = geoSets[t][d]
    BY <1>4, GeoPlace
  <1>6. GeoTypes'
    BY <1>1, <1>5 DEF GeoTypes
  <1>7. ASSUME NEW d \in GeoDrivers, d # e PROVE Reported(d)' /\ Found(d)'
    BY <1>1, <1>2, <1>3, <1>5, <1>7, DriverKept
  <1>8. Reported(e)'
    <2> SUFFICES ASSUME e \notin posted'
                 PROVE  /\ Shows(i, e, ServiceTypes, handled + 1, reports, restarted)
                        /\ \A t \in ServiceTypes :
                              Shows(geoSets'[t][e], e, {t}, handled + 1, reports, restarted)
      BY <1>1, <1>5 DEF Reported
    <2>1. /\ Shows(i, e, ServiceTypes, handled + 1, reports, restarted)
          /\ Shows(i, e, {s}, handled + 1, reports, restarted)
      BY <1>2, <1>3, <1>4, ShowsNext DEF GeoTypes
    <2>2. ASSUME NEW t \in ServiceTypes, t # s
          PROVE  Shows(geoSets[t][e], e, {t}, handled + 1, reports, restarted)
      <3>1. Shows(geoSets[t][e], e, {t}, handled, reports, restarted)
        BY <1>1 DEF Reported
      <3> QED
        BY <1>2, <1>3, <2>2, <3>1, ShowsOther DEF GeoTypes
    <2> QED
      BY <1>5, <2>1, <2>2
  <1>9. Found(e)'
    <2>1. CASE i # 0
      BY <1>5, <2>1 DEF Found
    <2>2. CASE i = 0
      <3>1. ASSUME NEW t \in ServiceTypes, t # s PROVE Abroad(e, t)'
        BY <1>1, <1>2, <1>3, <3>1 DEF Abroad, GeoTypes
      <3> QED
        BY <1>5, <2>2, <3>1 DEF Found
    <2> QED
      BY <2>1, <2>2
  <1>10. Geo!EtaEnds' /\ restarted' \in BOOLEAN
    BY <1>1 DEF Geo!EtaEnds
  <1> QED
    BY <1>6, <1>7, <1>8, <1>9, <1>10

(* Commits and the events and ETAs of orders leave the maps alone.           *)
LEMMA GeoOrders ==
  ASSUME GeoInv,
         \/ Geo!Commit
         \/ \E e \in GeoDrivers :
               \/ Geo!Assign(e) \/ Geo!EndOrder(e) \/ Geo!HandleOrderDriverAssigned(e)
               \/ Geo!UpdateDriverETA(e) \/ Geo!HandleOrderCompleted(e)
  PROVE  GeoInv'
  <1> USE DEF GeoInv
  <1> USE DEF Geo!Commit, Geo!Assign, Geo!EndOrder, Geo!HandleOrderDriverAssigned,
              Geo!UpdateDriverETA, Geo!HandleOrderCompleted, Geo!SetETA, Geo!Arrives, Geo!Cache,
              Geo!Topic, Geo!Orders
  <1>1. UNCHANGED <<drivers, geoSets, reports, handled, posted, restarted>>
    OBVIOUS
  <1>2. GeoTypes'
    <2>1. committed' \in Nat /\ committed' <= handled
      BY DEF GeoTypes
    <2>2. geoArrived' \in 0..Bound["geo"] /\ geoArrived <= geoArrived'
      BY GeoConstants DEF GeoTypes
    <2>3. /\ etas' \subseteq GeoDrivers /\ assigned' \subseteq GeoDrivers /\ ended' \subseteq GeoDrivers
          /\ over' \subseteq GeoDrivers /\ revived' \subseteq GeoDrivers
      BY DEF GeoTypes
    <2>4. Len(reports) <= geoArrived'
      BY <2>2 DEF GeoTypes
    <2> HIDE DEF Geo!Commit, Geo!Assign, Geo!EndOrder, Geo!HandleOrderDriverAssigned,
              Geo!UpdateDriverETA, Geo!HandleOrderCompleted
    <2> QED
      BY <1>1, <2>1, <2>2, <2>3, <2>4 DEF GeoTypes
  <1>3. Geo!EtaEnds'
    BY DEF Geo!EtaEnds
  <1> HIDE DEF Geo!Commit, Geo!Assign, Geo!EndOrder, Geo!HandleOrderDriverAssigned,
              Geo!UpdateDriverETA, Geo!HandleOrderCompleted
  <1>4. ASSUME NEW d \in GeoDrivers PROVE Reported(d)' /\ Found(d)'
    BY <1>1, DriverKept
  <1>5. restarted' \in BOOLEAN
    BY <1>1
  <1> QED
    BY <1>2, <1>3, <1>4, <1>5

LEMMA GeoRestart ==
  ASSUME GeoInv, Geo!Restart
  PROVE  GeoInv'
  <1> USE DEF GeoInv
  <1>1. /\ drivers' = [d \in GeoDrivers |-> 0]
        /\ geoSets' = [s \in ServiceTypes |-> [d \in GeoDrivers |-> 0]]
        /\ etas' = {} /\ handled' = committed /\ restarted' = TRUE
        /\ UNCHANGED <<reports, committed, assigned, ended, posted, over, revived, geoArrived>>
    BY DEF Geo!Restart, Geo!Nowhere, Geo!NoSets
  <1>2. GeoTypes'
    BY <1>1, GeoConstants DEF GeoTypes
  <1>3. ASSUME NEW d \in GeoDrivers PROVE Reported(d)' /\ Found(d)'
    <2>1. drivers'[d] = 0 /\ \A s \in ServiceTypes : geoSets'[s][d] = 0
      BY <1>1
    <2>2. \A S : Shows(0, d, S, committed, reports, TRUE)
      BY ShowsNothing DEF GeoTypes
    <2>3. Reported(d)'
      BY <1>1, <2>1, <2>2 DEF Reported
    <2>4. Found(d)'
      BY <2>1 DEF Found
    <2> QED
      BY <2>3, <2>4
  <1>4. Geo!EtaEnds' /\ restarted' \in BOOLEAN
    BY <1>1 DEF Geo!EtaEnds
  <1> QED
    BY <1>2, <1>3, <1>4

LEMMA GeoStep ==
  ASSUME GeoInv, [Geo!Next]_geo
  PROVE  GeoInv'
  <1>1. CASE UNCHANGED geo
    <2>1. UNCHANGED <<drivers, geoSets, etas, reports, handled, committed, assigned, ended, posted,
                      over, revived, restarted, geoArrived>>
      BY <1>1 DEF geo
    <2>2. GeoTypes' /\ restarted' \in BOOLEAN /\ Geo!EtaEnds'
      BY <2>1 DEF GeoInv, GeoTypes, Geo!EtaEnds
    <2>3. ASSUME NEW d \in GeoDrivers PROVE Reported(d)' /\ Found(d)'
      BY <2>1, DriverKept DEF GeoInv
    <2> QED
      BY <2>2, <2>3 DEF GeoInv
  <1>2. CASE Geo!Next
    BY <1>2, GeoHandle, GeoRestart, GeoReport, GeoUpdate, GeoOrders DEF Geo!Next
  <1> QED
    BY <1>1, <1>2

LEMMA GeoImplied == GeoInv => Geo!GeoSafe
  <1> SUFFICES ASSUME GeoInv PROVE Geo!GeoSafe
    OBVIOUS
  <1> USE DEF GeoInv
  <1>1. Geo!TypeOK
    <2>1. Len(reports) <= Bound["geo"]
      BY GeoConstants DEF GeoTypes
    <2> QED
      BY <2>1 DEF GeoTypes, Geo!TypeOK
  <1>2. Geo!LastReportShown
    <2>1. ASSUME NEW d \in GeoDrivers \ posted, NEW fix, NEW S,
                 Shows(fix, d, S, handled, reports, restarted)
          PROVE  fix = Geo!Shown(Geo!LastReport(d, S)) \/ (restarted /\ fix = 0)
      BY <2>1, ShowsLast DEF GeoTypes
    <2> QED
      BY <2>1 DEF Geo!LastReportShown, Reported
  <1>3. Geo!FoundWhereKnown
    BY DEF Geo!FoundWhereKnown, Found, Abroad
  <1> QED
    BY <1>1, <1>2, <1>3 DEF Geo!GeoSafe

-----------------------------------------------------------------------------
LEMMA TrackMoves ==
  ASSUME [Next]_vars
  PROVE  [Track!Next]_tracking /\ (focus = "geo" => [Geo!Next]_geo)
  <1>1. [Track!Next]_tracking
    BY DEF Next, vars, Others
  <1>2. focus = "geo" => [Geo!Next]_geo
    BY DEF Next, vars
  <1> QED
    BY <1>1, <1>2

(* A recorded point is archived, in the list or with a request, unless the   *)
(* list expired, the archive is changed once, geo shows the last report of   *)
(* a driver and an ETA that outlives its order is one that came late.        *)
THEOREM TrackingSafety == Spec => TrackingSafe
  <1>1. Init => TrackInv /\ For("geo", GeoInv)
    BY TrackInit, GeoInit DEF Init, For
  <1>2. TrackInv /\ [Next]_vars => TrackInv'
    BY TrackMoves, TrackStep
  <1>3. For("geo", GeoInv) /\ [Next]_vars => For("geo", GeoInv)'
    BY Moves, TrackMoves, GeoStep DEF For
  <1>4. TrackInv => Track!TypeOK /\ Track!PointsKept
    BY TrackImplied
  <1>5. For("geo", GeoInv) => For("geo", Geo!GeoSafe)
    BY GeoImplied DEF For
  <1>6. TrackInv /\ [Next]_vars => [route # <<>> /\ route' # route => tardy # {}]_tracking
    BY TrackMoves, TrackRoute
  <1> QED
    BY <1>1, <1>2, <1>3, <1>4, <1>5, <1>6, PTL
       DEF Spec, TrackingSafe, Track!TrackingSafe, Track!RouteKept, Track!trackVars, tracking

-----------------------------------------------------------------------------
(* Quotients, rounded down, and products.                                    *)

LEMMA Quotient ==
  ASSUME NEW a \in Nat, NEW n \in Nat \ {0}
  PROVE  /\ a \div n \in Nat /\ n * (a \div n) \in Nat
         /\ n * (a \div n) <= a /\ a < n * (a \div n) + n
  OBVIOUS

LEMMA TimesMonotone ==
  ASSUME NEW a \in Nat, NEW b \in Nat, NEW n \in Nat, a <= b
  PROVE  /\ a * n \in Nat /\ b * n \in Nat /\ a * n <= b * n
         /\ n * a \in Nat /\ n * b \in Nat /\ n * a <= n * b
  OBVIOUS

LEMMA QuotientMonotone ==
  ASSUME NEW a \in Nat, NEW b \in Nat, NEW n \in Nat \ {0}, a <= b
  PROVE  a \div n <= b \div n
  <1>1. PICK p \in Nat : p = a \div n
    BY Quotient
  <1>2. PICK q \in Nat : q = b \div n
    BY Quotient
  <1>3. n * p \in Nat /\ n * p <= a /\ b < n * q + n
    BY <1>1, <1>2, Quotient
  <1>4. ASSUME q + 1 <= p PROVE FALSE
    <2>1. n * (q + 1) <= n * p
      BY <1>4, TimesMonotone
    <2>2. n * (q + 1) = n * q + n
      OBVIOUS
    <2>3. n * q \in Nat
      OBVIOUS
    <2> QED
      BY <1>3, <2>1, <2>2, <2>3
  <1> QED
    BY <1>1, <1>2, <1>4

LEMMA QuotientOfMore ==
  ASSUME NEW a \in Nat, NEW n \in Nat \ {0}, NEW m \in Nat \ {0}, n <= m
  PROVE  a \div m <= a \div n
  <1>1. PICK p \in Nat : p = a \div m
    BY Quotient
  <1>2. PICK q \in Nat : q = a \div n
    BY Quotient
  <1>3. m * p \in Nat /\ m * p <= a /\ a < n * q + n
    BY <1>1, <1>2, Quotient
  <1>4. ASSUME q + 1 <= p PROVE FALSE
    <2>1. n * (q + 1) <= n * p
      BY <1>4, TimesMonotone
    <2>2. n * p <= m * p /\ n * p \in Nat
      BY TimesMonotone
    <2>3. n * (q + 1) = n * q + n /\ n * q \in Nat
      OBVIOUS
    <2> QED
      BY <1>3, <2>1, <2>2, <2>3
  <1> QED
    BY <1>1, <1>2, <1>4

-----------------------------------------------------------------------------
(* The ranks and surges of matching-service.                                 *)

Ranked(a, b, r) ==
  a \in Score!Candidates /\ b \in Score!Candidates /\ r \in Radii /\ best = Score!scoreCandidates(a, b, r)
ScoreInv ==
  /\ first # Score!Nobody => Ranked(first, second, radius)
  /\ first = Score!Nobody => second = Score!Nobody /\ best = Score!Nobody
  /\ zone # Score!NoZone =>
        zone \in [drivers : ZoneCounts, orders : ZoneCounts] /\ surge = Score!GetZoneStats(zone)
  /\ zone = Score!NoZone => surge = 0

LEMMA ScoreConstants ==
  /\ Ways \subseteq Nat /\ StarRatings \subseteq Nat /\ Replies \subseteq Nat /\ TripCounts \subseteq Nat
  /\ ZoneCounts \subseteq Nat /\ Radii \subseteq Int
  BY ServicesAssumption

LEMMA ClampedIs ==
  ASSUME NEW x \in Int
  PROVE  Score!Clamped(x) = IF x < 0 THEN 0 ELSE IF 1000 < x THEN 1000 ELSE x
  <1>1. Score!Min({1000, x}) = IF 1000 < x THEN 1000 ELSE x
    BY DEF Score!Min
  <1>2. PICK y \in Int : y = Score!Min({1000, x})
    BY <1>1
  <1>3. Score!Max({0, y}) = IF y < 0 THEN 0 ELSE y
    BY DEF Score!Max
  <1> QED
    BY <1>1, <1>2, <1>3 DEF Score!Clamped

CandidateNumbers(c) ==
  /\ c.distance \in Nat /\ c.rating \in Nat /\ c.accepted \in Nat /\ c.rejected \in Nat /\ c.trips \in Nat
  /\ c.priority \in BOOLEAN

LEMMA Candidate == ASSUME NEW c \in Score!Candidates PROVE CandidateNumbers(c) /\ c # Score!Nobody
  <1>1. /\ c.distance \in Nat /\ c.rating \in Nat /\ c.accepted \in Nat /\ c.rejected \in Nat
        /\ c.trips \in Nat
    BY ScoreConstants DEF Score!Candidates
  <1>2. c.priority \in BOOLEAN
    BY DEF Score!Candidates
  <1> QED
    <2>1. Score!Nobody.distance = -1
      BY DEF Score!Nobody
    <2>2. c # Score!Nobody
      BY <1>1, <2>1
    <2> QED
      BY <1>1, <1>2, <2>2, Zenon DEF CandidateNumbers

(* The parts of a score: each is in thousandths, and follows its fact.       *)
Thousandths(x) == x \in Nat /\ x <= 1000
Near(c, r) == Score!Clamped(1000 - (c.distance * 1000) \div Score!Radius(r))
Rated(c) == Score!Clamped(((Score!Rating(c) - 10) * 1000) \div 40)
Replying(c) == Score!Clamped(Score!computeAcceptanceRate(c))
Preferred(c) == IF c.priority THEN 1000 ELSE 0
Fresh(c) == Score!Clamped(1000 - c.trips * 100)

LEMMA ScoreIs ==
  ASSUME NEW c, NEW r
  PROVE  Score!computeScore(c, r) = 35 * Near(c, r) + 20 * Rated(c) + 15 * Replying(c)
                                    + 20 * Preferred(c) + 10 * Fresh(c)
  BY DEF Score!computeScore, Score!DefaultWeights, Near, Rated, Replying, Preferred, Fresh

LEMMA RadiusPositive == ASSUME NEW r \in Radii PROVE Score!Radius(r) \in Nat \ {0}
  BY ScoreConstants DEF Score!Radius

LEMMA AcceptanceRate ==
  ASSUME NEW c, CandidateNumbers(c)
  PROVE  Score!computeAcceptanceRate(c) \in Nat
  <1>1. c.accepted + c.rejected \in Nat /\ c.accepted * 1000 \in Nat
    BY DEF CandidateNumbers
  <1> QED
    BY <1>1, Quotient DEF Score!computeAcceptanceRate

LEMMA ScoreParts ==
  ASSUME NEW c, CandidateNumbers(c), NEW r \in Radii
  PROVE  /\ Thousandths(Near(c, r)) /\ Thousandths(Rated(c)) /\ Thousandths(Replying(c))
         /\ Thousandths(Preferred(c)) /\ Thousandths(Fresh(c))
  <1> USE DEF CandidateNumbers
  <1>1. Thousandths(Near(c, r))
    <2>1. PICK n \in Nat \ {0} : n = Score!Radius(r)
      BY RadiusPositive
    <2>2. c.distance * 1000 \in Nat
      OBVIOUS
    <2>3. PICK q \in Nat : q = (c.distance * 1000) \div n
      BY <2>1, <2>2, Quotient
    <2>4. PICK x \in Int : x = 1000 - q
      OBVIOUS
    <2>5. Near(c, r) = Score!Clamped(x)
      BY <2>1, <2>3, <2>4 DEF Near
    <2> QED
      BY <2>5, ClampedIs DEF Thousandths
  <1>2. Thousandths(Rated(c))
    <2>1. PICK x \in Int : x = ((Score!Rating(c) - 10) * 1000) \div 40
      BY DEF Score!Rating
    <2> QED
      BY <2>1, ClampedIs DEF Rated, Thousandths
  <1>3. Thousandths(Replying(c))
    BY AcceptanceRate, ClampedIs DEF Replying, Thousandths
  <1>4. Thousandths(Preferred(c))
    BY DEF Preferred, Thousandths
  <1>5. Thousandths(Fresh(c))
    BY ClampedIs DEF Fresh, Thousandths
  <1> QED
    BY <1>1, <1>2, <1>3, <1>4, <1>5

LEMMA NearFollows ==
  ASSUME NEW a, NEW b, CandidateNumbers(a), CandidateNumbers(b), NEW r \in Radii,
         a.distance <= b.distance
  PROVE  Near(b, r) <= Near(a, r)
  <1> USE DEF CandidateNumbers
  <1>1. PICK n \in Nat \ {0} : n = Score!Radius(r)
    BY RadiusPositive
  <1>2. a.distance * 1000 \in Nat /\ b.distance * 1000 \in Nat /\ a.distance * 1000 <= b.distance * 1000
    OBVIOUS
  <1>3. PICK p \in Nat : p = (a.distance * 1000) \div n
    BY <1>1, <1>2, Quotient
  <1>4. PICK q \in Nat : q = (b.distance * 1000) \div n
    BY <1>1, <1>2, Quotient
  <1>5. p <= q
    BY <1>2, <1>3, <1>4, QuotientMonotone
  <1> QED
    BY <1>1, <1>3, <1>4, <1>5, ClampedIs DEF Near

LEMMA RatedFollows ==
  ASSUME NEW a, NEW b, CandidateNumbers(a), CandidateNumbers(b), Score!Rating(b) <= Score!Rating(a)
  PROVE  Rated(b) <= Rated(a)
  <1>1. Score!Rating(a) \in Nat /\ Score!Rating(b) \in Nat
    BY DEF CandidateNumbers, Score!Rating
  <1>2. PICK x \in Int : x = ((Score!Rating(a) - 10) * 1000) \div 40
    BY <1>1
  <1>3. PICK y \in Int : y = ((Score!Rating(b) - 10) * 1000) \div 40
    BY <1>1
  <1>4. y <= x
    BY <1>1, <1>2, <1>3
  <1> QED
    BY <1>2, <1>3, <1>4, ClampedIs DEF Rated

LEMMA ReplyingFollows ==
  ASSUME NEW a, NEW b, CandidateNumbers(a), CandidateNumbers(b),
         Score!computeAcceptanceRate(b) <= Score!computeAcceptanceRate(a)
  PROVE  Replying(b) <= Replying(a)
  BY AcceptanceRate, ClampedIs DEF Replying

LEMMA FreshFollows ==
  ASSUME NEW a, NEW b, CandidateNumbers(a), CandidateNumbers(b), a.trips <= b.trips
  PROVE  Fresh(b) <= Fresh(a)
  BY ClampedIs DEF Fresh, CandidateNumbers

(* The same over numbers: n near, q rated, k replying, m preferred, f fresh. *)
LEMMA Weights100 ==
  ASSUME NEW n, Thousandths(n), NEW q, Thousandths(q), NEW k, Thousandths(k), NEW m, Thousandths(m), NEW f, Thousandths(f)
  PROVE  /\ 35 * n + 20 * q + 15 * k + 20 * m + 10 * f \in Nat
         /\ 35 * n + 20 * q + 15 * k + 20 * m + 10 * f <= 100000
  BY DEF Thousandths

LEMMA WeightsFollow ==
  ASSUME NEW n, Thousandths(n), NEW q, Thousandths(q), NEW k, Thousandths(k), NEW m, Thousandths(m), NEW f, Thousandths(f),
         NEW nn \in Nat, NEW qq \in Nat, NEW kk \in Nat, NEW mm \in Nat, NEW ff \in Nat,
         nn <= n, qq <= q, kk <= k, mm <= m, ff <= f
  PROVE  35 * nn + 20 * qq + 15 * kk + 20 * mm + 10 * ff <= 35 * n + 20 * q + 15 * k + 20 * m + 10 * f
  BY DEF Thousandths

LEMMA ScoreRange ==
  ASSUME NEW c, CandidateNumbers(c), NEW r \in Radii
  PROVE  Score!computeScore(c, r) \in Nat /\ Score!computeScore(c, r) <= 100000
  <1>1. /\ Thousandths(Near(c, r)) /\ Thousandths(Rated(c)) /\ Thousandths(Replying(c))
        /\ Thousandths(Preferred(c)) /\ Thousandths(Fresh(c))
    BY ScoreParts
  <1> DEFINE sum == 35 * Near(c, r) + 20 * Rated(c) + 15 * Replying(c) + 20 * Preferred(c) + 10 * Fresh(c)
  <1>2. sum \in Nat /\ sum <= 100000
    BY <1>1, Weights100
  <1> QED
    BY <1>2, ScoreIs

(* The nearer one wins, unless the other has the better score.               *)
LEMMA BestIs ==
  ASSUME NEW a, NEW b, CandidateNumbers(a), CandidateNumbers(b), NEW r \in Radii
  PROVE  LET w == Score!scoreCandidates(a, b, r) IN
         /\ w \in {a, b}
         /\ w = b => w = a \/ b.distance < a.distance \/ Score!computeScore(a, r) < Score!computeScore(b, r)
  <1>1. Score!computeScore(a, r) \in Nat /\ Score!computeScore(b, r) \in Nat
    BY ScoreRange
  <1>2. a.distance \in Nat /\ b.distance \in Nat
    BY DEF CandidateNumbers
  <1> QED
    BY <1>1, <1>2 DEF Score!scoreCandidates, Score!Before

LEMMA BestIsTheOne ==
  ASSUME NEW a, NEW b, NEW r \in Radii, Ranked(a, b, r), Score!Dominates(a, b)
  PROVE  best = a
  <1>1. CandidateNumbers(a) /\ CandidateNumbers(b)
    BY Candidate DEF Ranked
  <1>2. a.distance <= b.distance /\ ~(b.distance < a.distance)
    BY <1>1 DEF Score!Dominates, CandidateNumbers
  <1>3. Near(b, r) <= Near(a, r)
    BY <1>1, <1>2, NearFollows
  <1>4. Rated(b) <= Rated(a)
    BY <1>1, RatedFollows DEF Score!Dominates
  <1>5. Replying(b) <= Replying(a)
    BY <1>1, ReplyingFollows DEF Score!Dominates
  <1>6. Fresh(b) <= Fresh(a)
    BY <1>1, FreshFollows DEF Score!Dominates
  <1>7. Preferred(b) <= Preferred(a)
    BY DEF Preferred, Score!Dominates
  <1>8. ~(Score!computeScore(a, r) < Score!computeScore(b, r))
    <2>1. /\ Thousandths(Near(a, r)) /\ Thousandths(Rated(a)) /\ Thousandths(Replying(a))
          /\ Thousandths(Preferred(a)) /\ Thousandths(Fresh(a))
      BY <1>1, ScoreParts
    <2>2. /\ Thousandths(Near(b, r)) /\ Thousandths(Rated(b)) /\ Thousandths(Replying(b))
          /\ Thousandths(Preferred(b)) /\ Thousandths(Fresh(b))
      BY <1>1, ScoreParts
    <2>3. /\ Near(b, r) \in Nat /\ Rated(b) \in Nat /\ Replying(b) \in Nat
          /\ Preferred(b) \in Nat /\ Fresh(b) \in Nat
      BY <2>2 DEF Thousandths
    <2>4. 35 * Near(b, r) + 20 * Rated(b) + 15 * Replying(b) + 20 * Preferred(b) + 10 * Fresh(b)
            <= 35 * Near(a, r) + 20 * Rated(a) + 15 * Replying(a) + 20 * Preferred(a) + 10 * Fresh(a)
      BY <1>3, <1>4, <1>5, <1>6, <1>7, <2>1, <2>3, WeightsFollow
    <2>5. Score!computeScore(b, r) <= Score!computeScore(a, r)
      BY <2>4, ScoreIs
    <2> QED
      BY <1>1, <2>5, ScoreRange
  <1> QED
    BY <1>1, <1>2, <1>8, BestIs DEF Ranked

LEMMA SurgeIs ==
  ASSUME NEW x \in Nat
  PROVE  Score!suggestedSurge(x) = IF x < 500 THEN 200 ELSE IF x < 750 THEN 150
                                   ELSE IF x < 1000 THEN 125 ELSE 100
  <1>1. CASE x < 500
    <2>1. ~(x \in 500..749) /\ ~(x \in 750..999) /\ ~(x >= 1000)
      BY <1>1
    <2> QED
      BY <1>1, <2>1 DEF Score!suggestedSurge
  <1>2. CASE 500 <= x /\ x < 750
    <2>1. ~(x < 500) /\ x \in 500..749 /\ ~(x \in 750..999) /\ ~(x >= 1000)
      BY <1>2
    <2> QED
      BY <1>2, <2>1 DEF Score!suggestedSurge
  <1>3. CASE 750 <= x /\ x < 1000
    <2>1. ~(x < 500) /\ ~(x \in 500..749) /\ x \in 750..999 /\ ~(x >= 1000)
      BY <1>3
    <2> QED
      BY <1>3, <2>1 DEF Score!suggestedSurge
  <1>4. CASE 1000 <= x
    <2>1. ~(x < 500) /\ ~(x \in 500..749) /\ ~(x \in 750..999) /\ x >= 1000
      BY <1>4
    <2> QED
      BY <1>4, <2>1 DEF Score!suggestedSurge
  <1> QED
    BY <1>1, <1>2, <1>3, <1>4

(* Drivers per thousand orders.                                              *)
Supply(d, o) == IF o > 0 THEN (d * 1000) \div o ELSE 1000

LEMMA SupplyFollows ==
  ASSUME NEW d \in Nat, NEW o \in Nat
  PROVE  /\ Supply(d, o) \in Nat /\ Supply(d + 1, o) \in Nat /\ Supply(d, o + 1) \in Nat
         /\ Supply(d, o) <= Supply(d + 1, o)
         /\ o > 0 => Supply(d, o + 1) <= Supply(d, o)
         /\ o <= d => 1000 <= Supply(d, o)
  <1>1. PICK x \in Nat : x = d * 1000
    OBVIOUS
  <1>2. (d + 1) * 1000 = x + 1000
    BY <1>1
  <1>3. CASE o = 0
    <2>1. Supply(d, o) = 1000 /\ Supply(d + 1, o) = 1000
      BY <1>3 DEF Supply
    <2>2. Supply(d, o + 1) = x \div (o + 1)
      BY <1>1, <1>3 DEF Supply
    <2> QED
      BY <1>3, <2>1, <2>2, Quotient
  <1>4. CASE o > 0
    <2>1. o \in Nat \ {0} /\ o + 1 \in Nat \ {0}
      BY <1>4
    <2>2. Supply(d, o) = x \div o /\ Supply(d + 1, o) = (x + 1000) \div o
      BY <1>1, <1>2, <1>4 DEF Supply
    <2>3. Supply(d, o + 1) = x \div (o + 1)
      BY <1>1, <1>4 DEF Supply
    <2>4. x \div o \in Nat /\ (x + 1000) \div o \in Nat /\ x \div (o + 1) \in Nat
      BY <2>1, Quotient
    <2>5. x \div o <= (x + 1000) \div o
      BY <2>1, QuotientMonotone
    <2>6. x \div (o + 1) <= x \div o
      <3>1. o <= o + 1
        OBVIOUS
      <3> QED
        BY <2>1, <3>1, QuotientOfMore
    <2>7. ASSUME o <= d PROVE 1000 <= x \div o
      <3>1. PICK y \in Nat : y = o * 1000
        OBVIOUS
      <3>2. y <= x
        BY <1>1, <2>7, <3>1
      <3>3. y \div o <= x \div o
        BY <2>1, <3>2, QuotientMonotone
      <3>4. y \div o = 1000
        <4>1. PICK q \in Nat : q = y \div o
          BY <2>1, Quotient
        <4>2. o * q \in Nat /\ o * q <= y /\ y < o * q + o
          BY <2>1, <4>1, Quotient
        <4>3. ASSUME q + 1 <= 1000 PROVE FALSE
          <5>1. o * (q + 1) <= o * 1000
            BY <2>1, <4>3, TimesMonotone
          <5>2. o * (q + 1) = o * q + o
            OBVIOUS
          <5> QED
            BY <3>1, <4>2, <5>1, <5>2
        <4>4. ASSUME 1001 <= q PROVE FALSE
          <5>1. o * 1001 <= o * q
            BY <2>1, <4>4, TimesMonotone
          <5> QED
            BY <2>1, <3>1, <4>2, <5>1
        <4> QED
          BY <4>1, <4>3, <4>4
      <3> QED
        BY <2>4, <3>3, <3>4
    <2> QED
      BY <1>4, <2>2, <2>3, <2>4, <2>5, <2>6, <2>7
  <1> QED
    BY <1>3, <1>4

LEMMA SurgeFollows ==
  ASSUME ScoreInv
  PROVE  Score!SurgeFollows /\ surge \in {0, 100, 125, 150, 200}
  <1>1. CASE zone = Score!NoZone
    BY <1>1 DEF ScoreInv, Score!SurgeFollows
  <1>2. CASE zone # Score!NoZone
    <2>1. PICK d \in Nat, o \in Nat : zone = [drivers |-> d, orders |-> o]
      BY <1>2, ScoreConstants DEF ScoreInv
    <2>2. surge = Score!suggestedSurge(Supply(d, o))
      BY <1>2, <2>1 DEF ScoreInv, Score!GetZoneStats, Supply
    <2>3. Score!GetZoneStats([zone EXCEPT !.drivers = @ + 1]) = Score!suggestedSurge(Supply(d + 1, o))
      BY <2>1 DEF Score!GetZoneStats, Supply
    <2>4. Score!GetZoneStats([zone EXCEPT !.orders = @ + 1]) = Score!suggestedSurge(Supply(d, o + 1))
      BY <2>1 DEF Score!GetZoneStats, Supply
    <2>5. PICK x \in Nat : x = Supply(d, o)
      BY SupplyFollows
    <2>6. PICK y \in Nat : y = Supply(d + 1, o)
      BY SupplyFollows
    <2>7. PICK z \in Nat : z = Supply(d, o + 1)
      BY SupplyFollows
    <2>8. x <= y /\ (o > 0 => z <= x) /\ (o <= d => 1000 <= x)
      <3>1. /\ Supply(d, o) <= Supply(d + 1, o)
            /\ o > 0 => Supply(d, o + 1) <= Supply(d, o)
            /\ o <= d => 1000 <= Supply(d, o)
        BY SupplyFollows
      <3> QED
        BY <2>5, <2>6, <2>7, <3>1
    <2>9. o = 0 => x = 1000
      BY <2>5 DEF Supply
    <2>10. /\ Score!suggestedSurge(y) <= Score!suggestedSurge(x)
           /\ Score!suggestedSurge(z) >= Score!suggestedSurge(x)
           /\ o <= d => Score!suggestedSurge(x) = 100
           /\ Score!suggestedSurge(x) \in {0, 100, 125, 150, 200}
      BY <2>8, <2>9, SurgeIs
    <2> QED
      BY <2>1, <2>2, <2>3, <2>4, <2>5, <2>6, <2>7, <2>10 DEF Score!SurgeFollows
  <1> QED
    BY <1>1, <1>2

LEMMA ScoreInit == Score!Init => ScoreInv
  BY DEF Score!Init, ScoreInv

LEMMA ScoreStep ==
  ASSUME ScoreInv, [Score!Next]_scoring
  PROVE  ScoreInv'
  <1>1. CASE UNCHANGED scoring
    BY <1>1 DEF scoring, ScoreInv, Ranked
  <1>2. ASSUME NEW a \in Score!Candidates, NEW b \in Score!Candidates, NEW r \in Radii,
               Score!pickNextCandidate(a, b, r)
        PROVE  ScoreInv'
    <2>1. /\ radius' = r /\ first' = a /\ second' = b /\ best' = Score!scoreCandidates(a, b, r)
          /\ UNCHANGED <<zone, surge>>
      BY <1>2 DEF Score!pickNextCandidate
    <2>2. a # Score!Nobody
      BY Candidate
    <2> QED
      BY <2>1, <2>2 DEF ScoreInv, Ranked
  <1>3. ASSUME NEW z \in [drivers : ZoneCounts, orders : ZoneCounts], Score!ZoneStats(z)
        PROVE  ScoreInv'
    <2>1. zone' = z /\ surge' = Score!GetZoneStats(z) /\ UNCHANGED <<radius, first, second, best>>
      BY <1>3 DEF Score!ZoneStats
    <2>2. z # Score!NoZone
      <3>1. z.drivers \in Nat /\ Score!NoZone.drivers = -1
        BY ScoreConstants DEF Score!NoZone
      <3> QED
        BY <3>1
    <2> QED
      BY <2>1, <2>2 DEF ScoreInv, Ranked
  <1> QED
    BY <1>1, <1>2, <1>3 DEF Score!Next

LEMMA ScoreImplied == ScoreInv => Score!ScoringSafe
  <1> SUFFICES ASSUME ScoreInv PROVE Score!ScoringSafe
    OBVIOUS
  <1>1. CASE first = Score!Nobody
    <2>1. second = Score!Nobody /\ best = Score!Nobody
      BY <1>1 DEF ScoreInv
    <2>2. Score!TypeOK
      BY <1>1, <2>1, SurgeFollows DEF Score!TypeOK
    <2>3. Score!BestIsOffered
      BY <1>1 DEF Score!BestIsOffered
    <2> QED
      BY <2>2, <2>3, SurgeFollows DEF Score!ScoringSafe
  <1>2. CASE first # Score!Nobody
    <2>1. Ranked(first, second, radius)
      BY <1>2 DEF ScoreInv
    <2>2. CandidateNumbers(first) /\ CandidateNumbers(second) /\ radius \in Radii
      BY <2>1, Candidate DEF Ranked
    <2>3. best \in {first, second}
      BY <2>1, <2>2, BestIs DEF Ranked
    <2>4. Score!TypeOK
      BY <2>1, <2>3, SurgeFollows DEF Score!TypeOK, Ranked
    <2>5. Score!BestIsOffered
      <3>1. Score!Dominates(first, second) => best = first
        BY <2>1, <2>2, BestIsTheOne
      <3>2. Score!computeScore(first, radius) \in Nat /\ Score!computeScore(first, radius) <= 100000
        BY <2>2, ScoreRange
      <3>3. Score!Dominates(first, second)
              => Score!computeScore(best, radius) = Score!computeScore(first, radius)
        BY <3>1
      <3> QED
        BY <3>2, <3>3 DEF Score!BestIsOffered
    <2> QED
      BY <2>4, <2>5, SurgeFollows DEF Score!ScoringSafe
  <1> QED
    BY <1>1, <1>2

-----------------------------------------------------------------------------
(* The fares of pricing-service and of the order services.                   *)

RuleNumbers(r) ==
  /\ r.base \in Nat /\ r.perKm \in Nat /\ r.perMin \in Nat /\ r.booking \in Nat /\ r.feePct \in Nat
  /\ r.min \in Nat /\ r.perKg \in Nat /\ r.threshold \in Nat /\ r.small \in Nat
TripNumbers(t) ==
  t.distance \in Nat /\ t.minutes \in Nat /\ t.weight \in Nat /\ t.value \in Nat /\ t.basket \in Nat
Fields(t) == [service |-> t.service, vehicle |-> t.vehicle, distance |-> t.distance,
              minutes |-> t.minutes, promo |-> t.promo, weight |-> t.weight, value |-> t.value,
              fragile |-> t.fragile, basket |-> t.basket]
Services5 == {"ride", "order ride", "delivery", "order delivery", "food"}

LEMMA TripIs ==
  ASSUME NEW t \in Price!Trips
  PROVE  TripNumbers(t) /\ t = Fields(t) /\ t.service \in Services5
  <1>1. TripNumbers(t)
    BY ServicesAssumption DEF Price!Trips, TripNumbers
  <1>2. t = Fields(t)
    BY DEF Price!Trips, Fields
  <1>3. t.service \in Services5
    BY DEF Price!Trips, Price!Rides, Price!Deliveries, Services5
  <1> QED
    BY <1>1, <1>2, <1>3

LEMMA AtLeastIs ==
  ASSUME NEW x \in Int, NEW y \in Int
  PROVE  Price!AtLeast(x, y) = IF y <= x THEN x ELSE y
  BY DEF Price!AtLeast, Price!Max

LEMMA OfIs ==
  ASSUME NEW p \in Nat, NEW x \in Nat, NEW y \in Nat, x <= y
  PROVE  Price!Of(p, x) \in Nat /\ Price!Of(p, y) \in Nat /\ Price!Of(p, x) <= Price!Of(p, y)
  <1>1. PICK u \in Nat : u = x * p
    BY TimesMonotone
  <1>2. PICK v \in Nat : v = y * p
    BY TimesMonotone
  <1>3. u <= v
    BY <1>1, <1>2, TimesMonotone
  <1>4. u \div 100 \in Nat /\ v \div 100 \in Nat /\ u \div 100 <= v \div 100
    BY <1>3
  <1> QED
    BY <1>1, <1>2, <1>4 DEF Price!Of

LEMMA OfNat == ASSUME NEW p \in Nat, NEW x \in Nat PROVE Price!Of(p, x) \in Nat
  <1>1. x <= x
    OBVIOUS
  <1> QED
    BY <1>1, OfIs

LEMMA TenthIs ==
  ASSUME NEW x \in Nat
  PROVE  /\ Price!Of(10, x) \in Nat /\ 10 * Price!Of(10, x) <= x /\ x < 10 * Price!Of(10, x) + 10
  BY DEF Price!Of

LEMMA DistanceIs ==
  ASSUME NEW t, NEW u, NEW r, TripNumbers(t), TripNumbers(u), RuleNumbers(r), t.distance <= u.distance
  PROVE  /\ Price!Distance(t, r) \in Nat /\ Price!Distance(u, r) \in Nat
         /\ Price!Distance(t, r) <= Price!Distance(u, r)
  <1>1. PICK x \in Nat : x = t.distance * r.perKm
    BY DEF TripNumbers, RuleNumbers
  <1>2. PICK y \in Nat : y = u.distance * r.perKm
    BY DEF TripNumbers, RuleNumbers
  <1>3. x <= y
    BY <1>1, <1>2, TimesMonotone DEF TripNumbers, RuleNumbers
  <1>4. x \div 10 \in Nat /\ y \div 10 \in Nat /\ x \div 10 <= y \div 10
    BY <1>3
  <1> QED
    BY <1>1, <1>2, <1>4 DEF Price!Distance

LEMMA DrivenIs ==
  ASSUME NEW t, NEW u, NEW r, TripNumbers(t), TripNumbers(u), RuleNumbers(r),
         t.distance <= u.distance, t.minutes <= u.minutes
  PROVE  /\ Price!Driven(t, r) \in Nat /\ Price!Driven(u, r) \in Nat
         /\ Price!Driven(t, r) <= Price!Driven(u, r)
  <1>1. PICK x \in Nat : x = t.minutes * r.perMin
    BY DEF TripNumbers, RuleNumbers
  <1>2. PICK y \in Nat : y = u.minutes * r.perMin
    BY DEF TripNumbers, RuleNumbers
  <1>3. x <= y
    BY <1>1, <1>2, TimesMonotone DEF TripNumbers, RuleNumbers
  <1>4. PICK d \in Nat, e \in Nat : d = Price!Distance(t, r) /\ e = Price!Distance(u, r) /\ d <= e
    BY DistanceIs
  <1>5. Price!Driven(t, r) = r.base + d + x /\ Price!Driven(u, r) = r.base + e + y
    BY <1>1, <1>2, <1>4 DEF Price!Driven
  <1>6. r.base \in Nat
    BY DEF RuleNumbers
  <1> QED
    BY <1>3, <1>4, <1>5, <1>6

LEMMA ChargesAre ==
  ASSUME NEW t, NEW r, TripNumbers(t), RuleNumbers(r)
  PROVE  /\ Price!Surcharge(t, r) \in Nat /\ Price!Insurance(t) \in Nat /\ Price!SmallOrder(t, r) \in Nat
         /\ t.service \in Price!ByRule => Price!Extras(t, r) \in Nat
  <1>1. Price!Surcharge(t, r) \in Nat
    <2>1. CASE t.weight > 50
      <3>1. PICK w \in Nat : w = t.weight - 50
        BY <2>1 DEF TripNumbers
      <3>2. PICK x \in Nat : x = w * r.perKg
        BY DEF RuleNumbers
      <3>3. Price!Surcharge(t, r) = x \div 10
        BY <2>1, <3>1, <3>2 DEF Price!Surcharge
      <3> QED
        BY <3>3, Quotient
    <2>2. CASE ~(t.weight > 50)
      BY <2>2 DEF Price!Surcharge
    <2> QED
      BY <2>1, <2>2
  <1>2. Price!Insurance(t) \in Nat
    <2>1. PICK x \in Nat : x = (t.value * 5) \div 1000
      BY DEF TripNumbers
    <2> QED
      BY <2>1, AtLeastIs DEF Price!Insurance
  <1>3. Price!SmallOrder(t, r) \in Nat
    BY DEF Price!SmallOrder, RuleNumbers
  <1>4. ASSUME t.service \in Price!ByRule PROVE Price!Extras(t, r) \in Nat
    <2>1. CASE t.service = "ride"
      BY <2>1 DEF Price!Extras
    <2>2. CASE t.service = "delivery"
      BY <1>1, <1>2, <2>2 DEF Price!Extras
    <2>3. CASE t.service = "food"
      BY <1>3, <2>3 DEF Price!Extras
    <2> QED
      BY <1>4, <2>1, <2>2, <2>3 DEF Price!ByRule
  <1> QED
    BY <1>1, <1>2, <1>3, <1>4

LEMMA RulesAre ==
  ASSUME NEW s \in Price!ByRule, NEW v, NEW r \in Price!Used(s, v)
  PROVE  RuleNumbers(r)
  <1>1. CASE r \in FareRules
    BY <1>1, ServicesAssumption DEF RuleNumbers
  <1>2. CASE r = Price!Default(s, v)
    <2>1. CASE s = "ride"
      BY <1>2, <2>1 DEF Price!Default, Price!defaultRideRule, Price!Rule, RuleNumbers
    <2>2. CASE s = "delivery"
      BY <1>2, <2>2 DEF Price!Default, Price!defaultDeliveryRule, Price!Rule, RuleNumbers
    <2>3. CASE s = "food"
      <3>1. r = Price!defaultFoodRule
        BY <1>2, <2>3 DEF Price!Default
      <3>2. /\ r.base = 5000 /\ r.perKm = 2000 /\ r.perMin = 0 /\ r.booking = 0 /\ r.feePct = 5
            /\ r.min = 5000 /\ r.perKg = 0
        BY <3>1 DEF Price!defaultFoodRule, Price!Rule
      <3>3. r.threshold = 20000
        BY <3>1 DEF Price!defaultFoodRule, Price!Rule
      <3>4. r.small = 5000
        BY <3>1 DEF Price!defaultFoodRule, Price!Rule
      <3> QED
        BY <3>2, <3>3, <3>4 DEF RuleNumbers
    <2> QED
      BY <2>1, <2>2, <2>3 DEF Price!ByRule
  <1> QED
    BY <1>1, <1>2 DEF Price!Used, Price!GetFareRule

(* The parts of a fare, and what the fare is made of them.                   *)
LEMMA FinalFareIs ==
  ASSUME NEW t, NEW r, TripNumbers(t), RuleNumbers(r), t.service \in Price!ByRule
  PROVE  \E d \in Nat, e \in Nat, f \in Nat, c \in Nat :
            /\ d = Price!Driven(t, r) /\ e = Price!Extras(t, r) /\ f = Price!Of(r.feePct, d)
            /\ c = (IF t.promo THEN Price!Of(10, d + e) ELSE 0)
            /\ Price!CalculateFinalFare(t, r)
                 = IF r.min <= d + e + r.booking + f - c THEN d + e + r.booking + f - c ELSE r.min
  <1>1. PICK d \in Nat : d = Price!Driven(t, r)
    BY DrivenIs DEF TripNumbers
  <1>2. PICK e \in Nat : e = Price!Extras(t, r)
    BY ChargesAre
  <1>3. PICK f \in Nat : f = Price!Of(r.feePct, d)
    BY OfNat DEF RuleNumbers
  <1>4. PICK c \in Nat : c = IF t.promo THEN Price!Of(10, d + e) ELSE 0
    BY TenthIs
  <1>5. r.booking \in Nat /\ r.min \in Nat
    BY DEF RuleNumbers
  <1>6. PICK x \in Int : x = d + e + r.booking + f - c
    BY <1>5
  <1>7. Price!CalculateFinalFare(t, r) = Price!AtLeast(x, r.min)
    <2>1. Price!Full(t, r) = d + e + r.booking + f
      BY <1>1, <1>2, <1>3 DEF Price!Full
    <2>2. Price!Discount(t, Price!Driven(t, r) + Price!Extras(t, r)) = c
      BY <1>1, <1>2, <1>4 DEF Price!Discount
    <2>3. Price!Full(t, r) - Price!Discount(t, Price!Driven(t, r) + Price!Extras(t, r)) = x
      BY <1>5, <1>6, <2>1, <2>2
    <2> QED
      BY <2>3 DEF Price!CalculateFinalFare
  <1>8. Price!AtLeast(x, r.min) = IF r.min <= x THEN x ELSE r.min
    BY <1>5, AtLeastIs
  <1>9. Price!CalculateFinalFare(t, r)
          = IF r.min <= d + e + r.booking + f - c THEN d + e + r.booking + f - c ELSE r.min
    BY <1>6, <1>7, <1>8
  <1> QED
    BY <1>1, <1>2, <1>3, <1>4, <1>9

LEMMA RideEstimateIs ==
  ASSUME NEW t, NEW r, TripNumbers(t), RuleNumbers(r)
  PROVE  /\ Price!EstimateRideFare(t, r) \in Nat
         /\ t.minutes = t.distance \div 5 =>
              \E d \in Nat, f \in Nat, x \in Nat :
                 /\ d = Price!Driven(t, r) /\ f = Price!Of(r.feePct, d)
                 /\ x = (IF r.min <= d + r.booking + f THEN d + r.booking + f ELSE r.min)
                 /\ Price!EstimateRideFare(t, r) = x - (IF t.promo THEN Price!Of(10, x) ELSE 0)
  <1>0. r.base \in Nat /\ r.booking \in Nat /\ r.min \in Nat /\ r.feePct \in Nat /\ r.perMin \in Nat
    BY DEF RuleNumbers
  <1>1. PICK k \in Nat : k = Price!Distance(t, r)
    BY DistanceIs DEF TripNumbers
  <1>2. PICK m \in Nat : m = (t.distance \div 5) * r.perMin
    <2>1. PICK q \in Nat : q = t.distance \div 5
      BY DEF TripNumbers
    <2>2. q * r.perMin \in Nat
      BY <1>0
    <2> QED
      BY <2>1, <2>2
  <1>3. PICK d \in Nat : d = r.base + k + m
    BY <1>0
  <1>4. PICK f \in Nat : f = Price!Of(r.feePct, d)
    BY <1>0, OfNat
  <1>5. PICK y \in Nat : y = d + r.booking + f
    BY <1>0
  <1>6. PICK x \in Nat : x = IF r.min <= y THEN y ELSE r.min
    BY <1>0
  <1>7. Price!AtLeast(y, r.min) = x
    BY <1>0, <1>6, AtLeastIs
  <1>8. Price!EstimateRideFare(t, r) = x - (IF t.promo THEN Price!Of(10, x) ELSE 0)
    BY <1>1, <1>2, <1>3, <1>4, <1>5, <1>7 DEF Price!EstimateRideFare, Price!Discount
  <1>9. Price!EstimateRideFare(t, r) \in Nat
    <2>1. PICK q \in Nat : q = Price!Of(10, x) /\ q <= x
      BY TenthIs
    <2> QED
      BY <1>8, <2>1
  <1>10. ASSUME t.minutes = t.distance \div 5 PROVE d = Price!Driven(t, r)
    BY <1>1, <1>2, <1>3, <1>10 DEF Price!Driven
  <1> QED
    BY <1>0, <1>4, <1>5, <1>6, <1>8, <1>9, <1>10

LEMMA DeliveryEstimateIs ==
  ASSUME NEW t, NEW r, TripNumbers(t), RuleNumbers(r)
  PROVE  \E k \in Nat, s \in Nat, i \in Nat, x \in Nat :
            /\ k = Price!Distance(t, r) /\ s = Price!Surcharge(t, r)
            /\ i = (IF t.fragile \/ t.value > 0 THEN Price!Insurance(t) ELSE 0)
            /\ x = (IF r.min <= r.base + k + s + i + r.booking THEN r.base + k + s + i + r.booking
                    ELSE r.min)
            /\ Price!EstimateDeliveryFare(t, r) = x - (IF t.promo THEN Price!Of(10, x) ELSE 0)
  <1>0. r.base \in Nat /\ r.booking \in Nat /\ r.min \in Nat
    BY DEF RuleNumbers
  <1>1. PICK k \in Nat : k = Price!Distance(t, r)
    BY DistanceIs DEF TripNumbers
  <1>2. PICK s \in Nat : s = Price!Surcharge(t, r)
    BY ChargesAre
  <1>3. PICK i \in Nat : i = IF t.fragile \/ t.value > 0 THEN Price!Insurance(t) ELSE 0
    BY ChargesAre
  <1>4. PICK y \in Nat : y = r.base + k + s + i + r.booking
    BY <1>0
  <1>5. PICK x \in Nat : x = IF r.min <= y THEN y ELSE r.min
    BY <1>0
  <1>6. Price!AtLeast(y, r.min) = x
    BY <1>0, <1>5, AtLeastIs
  <1>7. Price!EstimateDeliveryFare(t, r) = x - (IF t.promo THEN Price!Of(10, x) ELSE 0)
    BY <1>1, <1>2, <1>3, <1>4, <1>6 DEF Price!EstimateDeliveryFare, Price!Discount
  <1> QED
    BY <1>1, <1>2, <1>3, <1>4, <1>5, <1>7

LEMMA FoodEstimateIs ==
  ASSUME NEW t, NEW r, TripNumbers(t), RuleNumbers(r)
  PROVE  Price!EstimateFoodFare(t, r) \in Nat
  <1>1. r.base \in Nat /\ r.feePct \in Nat /\ t.basket \in Nat
    BY DEF RuleNumbers, TripNumbers
  <1>2. Price!Distance(t, r) \in Nat
    BY DistanceIs DEF TripNumbers
  <1>3. Price!Of(r.feePct, t.basket) \in Nat
    BY <1>1, OfNat
  <1>4. Price!SmallOrder(t, r) \in Nat
    BY ChargesAre
  <1> QED
    BY <1>1, <1>2, <1>3, <1>4 DEF Price!EstimateFoodFare

(* The order services: what a promo takes off is at most the cap.            *)
LEMMA CappedIs ==
  ASSUME NEW t, NEW x \in Nat
  PROVE  /\ Price!Capped(t, x) \in Nat /\ Price!Capped(t, x) <= 5000 /\ Price!Capped(t, x) <= x
         /\ ~t.promo => Price!Capped(t, x) = 0
  <1>1. PICK q \in Nat : q = Price!Of(10, x) /\ q <= x
    BY TenthIs
  <1>2. Price!Min({q, 5000}) = IF q <= 5000 THEN q ELSE 5000
    BY DEF Price!Min
  <1>3. Price!Capped(t, x) = IF t.promo THEN Price!Min({q, 5000}) ELSE 0
    BY <1>1 DEF Price!Capped, Price!PromoCap
  <1> QED
    BY <1>1, <1>2, <1>3

LEMMA RideFareIs ==
  ASSUME NEW t, TripNumbers(t)
  PROVE  Price!rideFinalFare(t) \in Nat /\ 1000 <= Price!rideFinalFare(t)
  BY DEF Price!rideFinalFare, TripNumbers

LEMMA DeliveryFareIs ==
  ASSUME NEW t, TripNumbers(t)
  PROVE  Price!deliveryFinalFare(t) \in Nat
  <1>1. PICK i \in Nat : i = (t.value * 5) \div 1000
    BY DEF TripNumbers
  <1>2. PICK w \in Nat : w = IF t.weight > 10 THEN (t.weight - 10) * 50 ELSE 0
    BY DEF TripNumbers
  <1>3. Price!deliveryFinalFare(t) = 5000 + t.distance * 300 + w + i + 1000
    BY <1>1, <1>2 DEF Price!deliveryFinalFare
  <1> QED
    BY <1>3 DEF TripNumbers

LEMMA OrderRideIs ==
  ASSUME NEW t, TripNumbers(t), t = Fields(t)
  PROVE  /\ Price!OrderRideFare(t) \in Nat
         /\ t.minutes = (t.distance * 4) \div 10 =>
              \E c \in Nat : /\ c <= 5000 /\ (~t.promo => c = 0)
                            /\ Price!rideFinalFare(t) = Price!OrderRideFare(t) + c
  <1>1. PICK m \in Nat : m = (t.distance * 4) \div 10
    BY DEF TripNumbers
  <1>2. PICK u : u = [t EXCEPT !.minutes = m]
    OBVIOUS
  <1>3. /\ u.distance = t.distance /\ u.minutes = m /\ u.weight = t.weight /\ u.value = t.value
        /\ u.basket = t.basket
    BY <1>2 DEF Fields
  <1>4. TripNumbers(u)
    BY <1>3 DEF TripNumbers
  <1>5. PICK x \in Nat : Price!rideFinalFare(u) = x + 1000
    <2>1. PICK y \in Nat : y = Price!rideFinalFare(u) /\ 1000 <= y
      BY <1>4, RideFareIs
    <2>2. y - 1000 \in Nat /\ y = (y - 1000) + 1000
      BY <2>1
    <2> QED
      BY <2>1, <2>2
  <1>6. PICK c \in Nat : /\ c = Price!Capped(t, x) /\ c <= 5000 /\ c <= x /\ (~t.promo => c = 0)
    BY CappedIs
  <1>7. Price!OrderRideFare(t) = Price!AtLeast(x + 1000 - c, 0)
    <2>1. Price!rideFinalFare([t EXCEPT !.minutes = (t.distance * 4) \div 10]) - 1000 = x
      BY <1>1, <1>2, <1>5
    <2> QED
      BY <1>6, <2>1 DEF Price!OrderRideFare
  <1>8. Price!OrderRideFare(t) = x + 1000 - c /\ x + 1000 - c \in Nat
    <2>1. PICK z \in Nat : z = x + 1000 - c
      BY <1>6
    <2> QED
      BY <1>7, <2>1, AtLeastIs
  <1>9. ASSUME t.minutes = (t.distance * 4) \div 10 PROVE Price!rideFinalFare(t) = x + 1000
    <2>1. u = t
      BY <1>1, <1>2, <1>9 DEF Fields
    <2> QED
      BY <1>5, <2>1
  <1> QED
    BY <1>6, <1>8, <1>9

LEMMA OrderDeliveryIs ==
  ASSUME NEW t, TripNumbers(t)
  PROVE  /\ Price!OrderDeliveryFare(t) \in Nat
         /\ \E c \in Nat : /\ c <= 5000 /\ (~t.promo => c = 0)
                          /\ Price!deliveryFinalFare(t) = Price!OrderDeliveryFare(t) + c
  <1>1. PICK x \in Nat : x = Price!deliveryFinalFare(t)
    BY DeliveryFareIs
  <1>2. PICK c \in Nat : /\ c = Price!Capped(t, x) /\ c <= 5000 /\ c <= x /\ (~t.promo => c = 0)
    BY CappedIs
  <1>3. PICK z \in Nat : z = x - c
    BY <1>2
  <1>4. Price!OrderDeliveryFare(t) = Price!AtLeast(z, 0)
    BY <1>1, <1>2, <1>3 DEF Price!OrderDeliveryFare
  <1>5. Price!OrderDeliveryFare(t) = z
    BY <1>4, AtLeastIs
  <1> QED
    BY <1>1, <1>2, <1>3, <1>5

(* The arithmetic of a ride's two discounts: d driven, b booked, f a fee, m  *)
(* the minimum; td, tx and tw are tenths.                                    *)
LEMMA TwoDiscounts ==
  ASSUME NEW d \in Nat, NEW b \in Nat, NEW f \in Nat, NEW m \in Nat, NEW x \in Nat, NEW w \in Nat,
         NEW td \in Nat, NEW tx \in Nat, NEW tw \in Nat, NEW y \in Int,
         x = IF m <= d + b + f THEN d + b + f ELSE m, w = IF b + f <= m THEN m ELSE b + f,
         10 * td <= d, d < 10 * td + 10, 10 * tx <= x, x < 10 * tx + 10, 10 * tw <= w, w < 10 * tw + 10,
         y = IF m <= d + b + f - td THEN d + b + f - td ELSE m
  PROVE  x - tx <= y /\ y - (x - tx) <= tw + 1
  OBVIOUS

LEMMA RideCost ==
  ASSUME NEW t, NEW r, TripNumbers(t), RuleNumbers(r), t.service = "ride",
         t.minutes = t.distance \div 5
  PROVE  /\ ~t.promo => Price!CalculateFinalFare(t, r) = Price!EstimateRideFare(t, r)
         /\ Price!EstimateRideFare(t, r) <= Price!CalculateFinalFare(t, r)
         /\ Price!CalculateFinalFare(t, r) - Price!EstimateRideFare(t, r)
              <= Price!Of(10, Price!AtLeast(r.min, r.booking + Price!Of(r.feePct, Price!Driven(t, r)))) + 1
  <1>1. PICK d \in Nat, e \in Nat, f \in Nat, c \in Nat :
            /\ d = Price!Driven(t, r) /\ e = Price!Extras(t, r) /\ f = Price!Of(r.feePct, d)
            /\ c = (IF t.promo THEN Price!Of(10, d + e) ELSE 0)
            /\ Price!CalculateFinalFare(t, r)
                 = IF r.min <= d + e + r.booking + f - c THEN d + e + r.booking + f - c ELSE r.min
    BY FinalFareIs DEF Price!ByRule
  <1>2. e = 0
    BY <1>1 DEF Price!Extras
  <1>3. PICK x \in Nat :
            /\ x = (IF r.min <= d + r.booking + f THEN d + r.booking + f ELSE r.min)
            /\ Price!EstimateRideFare(t, r) = x - (IF t.promo THEN Price!Of(10, x) ELSE 0)
    BY <1>1, RideEstimateIs
  <1>4. PICK b \in Nat, m \in Nat : b = r.booking /\ m = r.min
    BY DEF RuleNumbers
  <1>5. PICK w \in Nat : w = IF b + f <= m THEN m ELSE b + f
    OBVIOUS
  <1>6. Price!AtLeast(r.min, r.booking + Price!Of(r.feePct, Price!Driven(t, r))) = w
    BY <1>1, <1>4, <1>5, AtLeastIs
  <1>7. PICK tw \in Nat : tw = Price!Of(10, w) /\ 10 * tw <= w /\ w < 10 * tw + 10
    BY TenthIs
  <1>8. CASE ~t.promo
    <2>1. c = 0 /\ Price!EstimateRideFare(t, r) = x
      BY <1>1, <1>3, <1>8
    <2>2. Price!CalculateFinalFare(t, r) = x
      BY <1>1, <1>2, <1>3, <1>4, <2>1
    <2> QED
      BY <1>6, <1>7, <2>1, <2>2
  <1>9. CASE t.promo
    <2>1. PICK td \in Nat : td = Price!Of(10, d) /\ 10 * td <= d /\ d < 10 * td + 10
      BY TenthIs
    <2>2. PICK tx \in Nat : tx = Price!Of(10, x) /\ 10 * tx <= x /\ x < 10 * tx + 10
      BY TenthIs
    <2>3. PICK y \in Int : y = IF m <= d + b + f - td THEN d + b + f - td ELSE m
      <3>1. (IF m <= d + b + f - td THEN d + b + f - td ELSE m) \in Int
        OBVIOUS
      <3> QED
        BY <3>1
    <2>4. c = td /\ Price!EstimateRideFare(t, r) = x - tx
      BY <1>1, <1>2, <1>3, <1>9, <2>1, <2>2
    <2>5. Price!CalculateFinalFare(t, r) = y
      BY <1>1, <1>2, <1>4, <2>3, <2>4
    <2>6. x - tx <= y /\ y - (x - tx) <= tw + 1
      BY <1>3, <1>4, <1>5, <1>7, <2>1, <2>2, <2>3, TwoDiscounts
    <2> QED
      BY <1>6, <1>7, <1>9, <2>4, <2>5, <2>6
  <1> QED
    BY <1>8, <1>9

LEMMA DeliveryCost ==
  ASSUME NEW t, NEW r, TripNumbers(t), RuleNumbers(r), t.service = "delivery", ~t.promo,
         t.fragile => t.value > 0, r.perMin = 0, r.feePct = 0
  PROVE  Price!CalculateFinalFare(t, r) = Price!EstimateDeliveryFare(t, r)
  <1>1. PICK d \in Nat, e \in Nat, f \in Nat, c \in Nat :
            /\ d = Price!Driven(t, r) /\ e = Price!Extras(t, r) /\ f = Price!Of(r.feePct, d)
            /\ c = (IF t.promo THEN Price!Of(10, d + e) ELSE 0)
            /\ Price!CalculateFinalFare(t, r)
                 = IF r.min <= d + e + r.booking + f - c THEN d + e + r.booking + f - c ELSE r.min
    BY FinalFareIs DEF Price!ByRule
  <1>2. PICK k \in Nat, s \in Nat, i \in Nat, x \in Nat :
            /\ k = Price!Distance(t, r) /\ s = Price!Surcharge(t, r)
            /\ i = (IF t.fragile \/ t.value > 0 THEN Price!Insurance(t) ELSE 0)
            /\ x = (IF r.min <= r.base + k + s + i + r.booking THEN r.base + k + s + i + r.booking
                    ELSE r.min)
            /\ Price!EstimateDeliveryFare(t, r) = x - (IF t.promo THEN Price!Of(10, x) ELSE 0)
    BY DeliveryEstimateIs
  <1>3. PICK a \in Nat, b \in Nat, m \in Nat : a = r.base /\ b = r.booking /\ m = r.min
    BY DEF RuleNumbers
  <1>4. i = IF t.value > 0 THEN Price!Insurance(t) ELSE 0
    BY <1>2
  <1>5. e = s + i
    BY <1>1, <1>2, <1>4 DEF Price!Extras
  <1>6. d = a + k
    <2>1. t.minutes * r.perMin = 0
      BY DEF TripNumbers
    <2> QED
      BY <1>1, <1>2, <1>3, <2>1 DEF Price!Driven
  <1>7. c = 0 /\ Price!EstimateDeliveryFare(t, r) = x
    BY <1>1, <1>2
  <1>8. f = 0
    BY <1>1 DEF Price!Of
  <1>9. Price!CalculateFinalFare(t, r) = IF m <= a + k + s + i + b THEN a + k + s + i + b ELSE m
    BY <1>1, <1>3, <1>5, <1>6, <1>7, <1>8
  <1>10. x = IF m <= a + k + s + i + b THEN a + k + s + i + b ELSE m
    BY <1>2, <1>3
  <1> QED
    BY <1>7, <1>9, <1>10

LEMMA FinalFareGrows ==
  ASSUME NEW t, NEW u, NEW r, TripNumbers(t), TripNumbers(u), RuleNumbers(r),
         t.service \in Price!ByRule, u.service = t.service, u.promo = t.promo,
         Price!Extras(u, r) = Price!Extras(t, r), t.distance <= u.distance, t.minutes <= u.minutes
  PROVE  /\ r.min <= Price!CalculateFinalFare(t, r)
         /\ Price!CalculateFinalFare(t, r) <= Price!CalculateFinalFare(u, r)
  <1>1. PICK d \in Nat, e \in Nat, f \in Nat, c \in Nat :
            /\ d = Price!Driven(t, r) /\ e = Price!Extras(t, r) /\ f = Price!Of(r.feePct, d)
            /\ c = (IF t.promo THEN Price!Of(10, d + e) ELSE 0)
            /\ Price!CalculateFinalFare(t, r)
                 = IF r.min <= d + e + r.booking + f - c THEN d + e + r.booking + f - c ELSE r.min
    BY FinalFareIs
  <1>2. PICK dd \in Nat, ee \in Nat, ff \in Nat, cc \in Nat :
            /\ dd = Price!Driven(u, r) /\ ee = Price!Extras(u, r) /\ ff = Price!Of(r.feePct, dd)
            /\ cc = (IF u.promo THEN Price!Of(10, dd + ee) ELSE 0)
            /\ Price!CalculateFinalFare(u, r)
                 = IF r.min <= dd + ee + r.booking + ff - cc THEN dd + ee + r.booking + ff - cc ELSE r.min
    BY FinalFareIs
  <1>3. PICK b \in Nat, m \in Nat : b = r.booking /\ m = r.min
    BY DEF RuleNumbers
  <1>4. d <= dd /\ ee = e
    BY <1>1, <1>2, DrivenIs
  <1>5. f <= ff
    BY <1>1, <1>2, <1>4, OfIs DEF RuleNumbers
  <1>6. d + e - c <= dd + e - cc
    <2>1. CASE t.promo
      <3>0. d + e \in Nat /\ dd + e \in Nat
        OBVIOUS
      <3>1. PICK x \in Nat : x = Price!Of(10, d + e) /\ 10 * x <= d + e /\ d + e < 10 * x + 10
        BY <3>0, TenthIs
      <3>2. PICK y \in Nat : y = Price!Of(10, dd + e) /\ 10 * y <= dd + e /\ dd + e < 10 * y + 10
        BY <3>0, TenthIs
      <3>3. c = x /\ cc = y
        BY <1>1, <1>2, <1>4, <2>1, <3>1, <3>2
      <3> QED
        BY <1>4, <3>1, <3>2, <3>3
    <2>2. CASE ~t.promo
      BY <1>1, <1>2, <1>4, <2>2
    <2> QED
      BY <2>1, <2>2
  <1>7. Price!CalculateFinalFare(t, r) = IF m <= d + e + b + f - c THEN d + e + b + f - c ELSE m
    BY <1>1, <1>3
  <1>8. Price!CalculateFinalFare(u, r) = IF m <= dd + e + b + ff - cc THEN dd + e + b + ff - cc ELSE m
    BY <1>2, <1>3, <1>4
  <1> QED
    BY <1>3, <1>5, <1>6, <1>7, <1>8

LEMMA FurtherIs ==
  ASSUME NEW t \in Price!Trips, NEW u \in Price!Further(t), NEW r
  PROVE  /\ TripNumbers(u) /\ u.service = t.service /\ u.promo = t.promo
         /\ t.distance <= u.distance /\ t.minutes <= u.minutes
         /\ Price!Extras(u, r) = Price!Extras(t, r)
  <1>1. TripNumbers(t) /\ t = Fields(t)
    BY TripIs
  <1>2. /\ u.service = t.service /\ u.promo = t.promo /\ u.weight = t.weight /\ u.value = t.value
        /\ u.basket = t.basket
    BY <1>1 DEF Price!Further, Fields
  <1>3. \/ u.distance = t.distance + 1 /\ u.minutes = t.minutes
        \/ u.distance = t.distance /\ u.minutes = t.minutes + 1
    BY <1>1 DEF Price!Further, Fields
  <1>4. /\ TripNumbers(u) /\ t.distance <= u.distance /\ t.minutes <= u.minutes
    BY <1>1, <1>2, <1>3 DEF TripNumbers
  <1>5. Price!Extras(u, r) = Price!Extras(t, r)
    BY <1>2 DEF Price!Extras, Price!Surcharge, Price!Insurance, Price!SmallOrder
  <1> QED
    BY <1>2, <1>4, <1>5

Estimated(t, r) == CASE t.service = "ride" -> Price!EstimateRideFare(t, r)
                     [] t.service = "delivery" -> Price!EstimateDeliveryFare(t, r)
                     [] t.service = "food" -> Price!EstimateFoodFare(t, r)
Quoted(t, q) ==
  \/ /\ t.service \in Price!ByRule
     /\ \E r \in Price!Used(t.service, t.vehicle) : q = [rule |-> r, fare |-> Estimated(t, r)]
  \/ t.service = "order ride" /\ q = [rule |-> "none", fare |-> Price!OrderRideFare(t)]
  \/ t.service = "order delivery" /\ q = [rule |-> "none", fare |-> Price!OrderDeliveryFare(t)]
Billed(t, b) ==
  \/ /\ t.service \in Price!ByRule
     /\ \E v \in {t.vehicle, "none"} : \E r \in Price!Used(t.service, v) :
           b = [rule |-> r, fare |-> Price!CalculateFinalFare(t, r)]
  \/ t.service = "order ride" /\ b = [rule |-> "none", fare |-> Price!rideFinalFare(t)]
  \/ t.service = "order delivery" /\ b = [rule |-> "none", fare |-> Price!deliveryFinalFare(t)]
PriceInv ==
  /\ trip = Price!NoTrip => quote = Price!NoFare /\ bill = Price!NoFare
  /\ trip # Price!NoTrip => /\ trip \in Price!Trips /\ Quoted(trip, quote)
                            /\ bill = Price!NoFare \/ Billed(trip, bill)

LEMMA ATrip == \A t \in Price!Trips : t # Price!NoTrip
  <1> SUFFICES ASSUME NEW t \in Price!Trips PROVE t # Price!NoTrip
    OBVIOUS
  <1>1. t.service # "none"
    BY TripIs DEF Services5
  <1>2. Price!NoTrip.service = "none"
    BY DEF Price!NoTrip
  <1> QED
    BY <1>1, <1>2

LEMMA PriceInit == Price!Init => PriceInv
  BY DEF Price!Init, PriceInv

LEMMA PriceStep ==
  ASSUME PriceInv, [Price!Next]_fares
  PROVE  PriceInv'
  <1>1. CASE UNCHANGED fares
    BY <1>1 DEF fares, PriceInv
  <1>2. ASSUME NEW t \in Price!Trips, Price!Estimate(t) PROVE PriceInv'
    <2>1. trip = Price!NoTrip /\ trip' = t /\ bill' = bill
      BY <1>2 DEF Price!Estimate
    <2>2. bill' = Price!NoFare
      BY <2>1 DEF PriceInv
    <2>3. Quoted(t, quote')
      BY <1>2 DEF Price!Estimate, Quoted, Estimated, Price!NoRow
    <2> QED
      BY <2>1, <2>2, <2>3, ATrip DEF PriceInv
  <1>3. CASE Price!Finish
    <2>1. trip # Price!NoTrip /\ UNCHANGED <<trip, quote>>
      BY <1>3 DEF Price!Finish
    <2>2. Billed(trip, bill')
      BY <1>3 DEF Price!Finish, Billed, Price!NoRow
    <2> QED
      BY <2>1, <2>2 DEF PriceInv
  <1> QED
    BY <1>1, <1>2, <1>3 DEF Price!Next

LEMMA OrderServices == "order ride" \notin Price!ByRule /\ "order delivery" \notin Price!ByRule
  BY DEF Price!ByRule

LEMMA QuotedOrder ==
  ASSUME NEW t, NEW q, Quoted(t, q), t.service \notin Price!ByRule
  PROVE  /\ t.service = "order ride" => q.fare = Price!OrderRideFare(t)
         /\ t.service = "order delivery" => q.fare = Price!OrderDeliveryFare(t)
  <1>1. CASE t.service = "order ride"
    <2>1. q = [rule |-> "none", fare |-> Price!OrderRideFare(t)] /\ t.service # "order delivery"
      BY <1>1 DEF Quoted
    <2> QED
      BY <2>1
  <1>2. CASE t.service = "order delivery"
    <2>1. q = [rule |-> "none", fare |-> Price!OrderDeliveryFare(t)] /\ t.service # "order ride"
      BY <1>2 DEF Quoted
    <2> QED
      BY <2>1
  <1> QED
    BY <1>1, <1>2

LEMMA BilledOrder ==
  ASSUME NEW t, NEW b, Billed(t, b), t.service \notin Price!ByRule
  PROVE  /\ t.service = "order ride" => b.fare = Price!rideFinalFare(t)
         /\ t.service = "order delivery" => b.fare = Price!deliveryFinalFare(t)
  <1>1. CASE t.service = "order ride"
    <2>1. b = [rule |-> "none", fare |-> Price!rideFinalFare(t)] /\ t.service # "order delivery"
      BY <1>1 DEF Billed
    <2> QED
      BY <2>1
  <1>2. CASE t.service = "order delivery"
    <2>1. b = [rule |-> "none", fare |-> Price!deliveryFinalFare(t)] /\ t.service # "order ride"
      BY <1>2 DEF Billed
    <2> QED
      BY <2>1
  <1> QED
    BY <1>1, <1>2

LEMMA WithinCap ==
  ASSUME NEW p, NEW q \in Nat, NEW b, NEW c \in Nat,
         c <= 5000, ~p => c = 0, b = q + c
  PROVE  (~p => b = q) /\ q <= b /\ b <= q + 5000
  <1>1. q <= b /\ b <= q + 5000
    OBVIOUS
  <1>2. c = 0 => b = q
    OBVIOUS
  <1> QED
    BY <1>1, <1>2

LEMMA QuotedFare ==
  ASSUME NEW t \in Price!Trips, NEW q, Quoted(t, q)
  PROVE  q.fare \in Nat
  <1>1. TripNumbers(t) /\ t = Fields(t)
    BY TripIs
  <1>2. CASE t.service = "order ride"
    <2>1. q.fare = Price!OrderRideFare(t)
      BY <1>2, OrderServices, QuotedOrder
    <2>2. Price!OrderRideFare(t) \in Nat
      BY <1>1, OrderRideIs
    <2> QED
      BY <2>1, <2>2
  <1>3. CASE t.service = "order delivery"
    <2>1. q.fare = Price!OrderDeliveryFare(t)
      BY <1>3, OrderServices, QuotedOrder
    <2>2. Price!OrderDeliveryFare(t) \in Nat
      BY <1>1, OrderDeliveryIs
    <2> QED
      BY <2>1, <2>2
  <1>4. CASE t.service \in Price!ByRule
    <2>1. PICK r \in Price!Used(t.service, t.vehicle) : q = [rule |-> r, fare |-> Estimated(t, r)]
      BY <1>4 DEF Quoted, Price!ByRule
    <2>2. RuleNumbers(r)
      BY <1>4, RulesAre
    <2>3. CASE t.service = "ride"
      BY <1>1, <2>1, <2>2, <2>3, RideEstimateIs DEF Estimated
    <2>4. CASE t.service = "delivery"
      <3>1. PICK x \in Nat : Price!EstimateDeliveryFare(t, r) = x - (IF t.promo THEN Price!Of(10, x) ELSE 0)
        BY <1>1, <2>2, DeliveryEstimateIs
      <3>2. PICK y \in Nat : y = Price!Of(10, x) /\ y <= x
        BY TenthIs
      <3>3. Price!EstimateDeliveryFare(t, r) \in Nat
        BY <3>1, <3>2
      <3> QED
        BY <2>1, <2>4, <3>3 DEF Estimated
    <2>5. CASE t.service = "food"
      BY <1>1, <2>1, <2>2, <2>5, FoodEstimateIs DEF Estimated
    <2> QED
      BY <1>4, <2>3, <2>4, <2>5 DEF Price!ByRule
  <1> QED
    BY <1>2, <1>3, <1>4 DEF Quoted

LEMMA BilledFare ==
  ASSUME NEW t \in Price!Trips, NEW b, Billed(t, b)
  PROVE  b.fare \in Nat
  <1>1. TripNumbers(t)
    BY TripIs
  <1>2. CASE t.service = "order ride"
    BY <1>1, <1>2, RideFareIs, OrderServices, BilledOrder
  <1>3. CASE t.service = "order delivery"
    BY <1>1, <1>3, DeliveryFareIs, OrderServices, BilledOrder
  <1>4. CASE t.service \in Price!ByRule
    <2>1. PICK v \in {t.vehicle, "none"} : \E r \in Price!Used(t.service, v) :
             b = [rule |-> r, fare |-> Price!CalculateFinalFare(t, r)]
      BY <1>4 DEF Billed, Price!ByRule
    <2>2. PICK r \in Price!Used(t.service, v) : b = [rule |-> r, fare |-> Price!CalculateFinalFare(t, r)]
      BY <2>1
    <2>3. RuleNumbers(r)
      BY <1>4, RulesAre
    <2>4. r.min \in Nat /\ r.booking \in Nat
      BY <2>3 DEF RuleNumbers
    <2>5. Price!CalculateFinalFare(t, r) \in Nat
      <3>1. PICK d \in Nat, e \in Nat, f \in Nat, c \in Nat :
            Price!CalculateFinalFare(t, r)
              = IF r.min <= d + e + r.booking + f - c THEN d + e + r.booking + f - c ELSE r.min
        BY <1>1, <1>4, <2>3, FinalFareIs
      <3> QED
        BY <2>4, <3>1
    <2> QED
      BY <2>2, <2>5
  <1> QED
    BY <1>2, <1>3, <1>4 DEF Billed

LEMMA PriceImplied == PriceInv => Price!FaresSafe
  <1> SUFFICES ASSUME PriceInv PROVE Price!FaresSafe
    OBVIOUS
  <1>0. /\ Price!NoFare.fare = -1
        /\ Price!NoTrip = [service |-> "none"]
    BY DEF Price!NoFare, Price!NoTrip
  <1>1. Price!TypeOK
    <2>1. CASE trip = Price!NoTrip
      BY <1>0, <2>1 DEF PriceInv, Price!TypeOK
    <2>2. CASE trip # Price!NoTrip
      <3>1. trip \in Price!Trips /\ quote.fare \in Nat /\ (bill = Price!NoFare \/ bill.fare \in Nat)
        BY <2>2, QuotedFare, BilledFare DEF PriceInv
      <3> QED
        BY <1>0, <3>1 DEF Price!TypeOK
    <2> QED
      BY <2>1, <2>2
  <1>2. CASE ~Price!Priced
    BY <1>1, <1>2 DEF Price!FaresSafe, Price!RideAsQuoted, Price!DeliveryAsQuoted,
       Price!OrdersAsQuoted, Price!NoReward
  <1>3. CASE Price!Priced
    <2>1. /\ trip \in Price!Trips /\ Quoted(trip, quote) /\ Billed(trip, bill)
          /\ bill.rule = quote.rule
      BY <1>3 DEF Price!Priced, PriceInv
    <2>2. TripNumbers(trip) /\ trip = Fields(trip) /\ trip.service \in Services5
      BY <2>1, TripIs
    <2>3. CASE trip.service \in Price!ByRule
      <3>1. PICK v \in {trip.vehicle, "none"} : \E r \in Price!Used(trip.service, v) :
               bill = [rule |-> r, fare |-> Price!CalculateFinalFare(trip, r)]
        BY <2>1, <2>3 DEF Billed, Price!ByRule
      <3>2. PICK r \in Price!Used(trip.service, v) :
               bill = [rule |-> r, fare |-> Price!CalculateFinalFare(trip, r)]
        BY <3>1
      <3>3. RuleNumbers(r)
        BY <2>3, RulesAre
      <3>4. bill.rule = r /\ bill.fare = Price!CalculateFinalFare(trip, r)
        BY <3>2
      <3>5. quote.fare = Estimated(trip, r)
        <4>1. PICK rr \in Price!Used(trip.service, trip.vehicle) :
                 quote = [rule |-> rr, fare |-> Estimated(trip, rr)]
          BY <2>1, <2>3 DEF Quoted, Price!ByRule
        <4>2. rr = r
          BY <2>1, <3>4, <4>1
        <4> QED
          BY <4>1, <4>2
      <3>6. Price!RideAsQuoted
        <4> SUFFICES ASSUME trip.service = "ride", Price!AsDriven PROVE Price!RideAsQuoted
          BY DEF Price!RideAsQuoted
        <4>1. trip.minutes = trip.distance \div 5
          BY DEF Price!AsDriven
        <4>2. quote.fare = Price!EstimateRideFare(trip, r)
          BY <3>5 DEF Estimated
        <4> QED
          BY <2>2, <3>3, <3>4, <4>1, <4>2, RideCost DEF Price!RideAsQuoted
      <3>7. Price!DeliveryAsQuoted
        <4> SUFFICES ASSUME trip.service = "delivery", ~trip.promo, trip.fragile => trip.value > 0,
                            bill.rule.perMin = 0, bill.rule.feePct = 0
                     PROVE  Price!DeliveryAsQuoted
          BY DEF Price!DeliveryAsQuoted
        <4>1. quote.fare = Price!EstimateDeliveryFare(trip, r)
          BY <3>5 DEF Estimated
        <4> QED
          BY <2>2, <3>3, <3>4, <4>1, DeliveryCost DEF Price!DeliveryAsQuoted
      <3>8. Price!OrdersAsQuoted
        <4>1. trip.service \notin {"order ride", "order delivery"}
          BY <2>3, OrderServices
        <4> QED
          BY <4>1 DEF Price!OrdersAsQuoted
      <3>9. Price!NoReward
        <4>1. ASSUME NEW u \in Price!Further(trip)
              PROVE  bill.fare <= Price!CalculateFinalFare(u, bill.rule)
          BY <2>1, <2>2, <2>3, <3>3, <3>4, FurtherIs, FinalFareGrows
        <4>2. bill.rule.min <= bill.fare
          <5>1. trip.distance <= trip.distance /\ trip.minutes <= trip.minutes
            BY <2>2 DEF TripNumbers
          <5> QED
            BY <2>2, <2>3, <3>3, <3>4, <5>1, FinalFareGrows
        <4> QED
          BY <4>1, <4>2 DEF Price!NoReward
      <3> QED
        BY <1>1, <3>6, <3>7, <3>8, <3>9 DEF Price!FaresSafe
    <2>4. CASE trip.service \in {"order ride", "order delivery"}
      <3>1. Price!RideAsQuoted /\ Price!DeliveryAsQuoted /\ Price!NoReward
        BY <2>4 DEF Price!RideAsQuoted, Price!DeliveryAsQuoted, Price!NoReward, Price!ByRule
      <3>2. ASSUME trip.service = "order ride" => Price!AsDriven
            PROVE  \E c \in Nat : /\ c <= 5000 /\ (~trip.promo => c = 0) /\ quote.fare \in Nat
                                  /\ bill.fare = quote.fare + c
        <4>1. CASE trip.service = "order ride"
          <5>1. trip.minutes = (trip.distance * 4) \div 10
            BY <3>2, <4>1 DEF Price!AsDriven
          <5>2. quote.fare = Price!OrderRideFare(trip) /\ bill.fare = Price!rideFinalFare(trip)
            BY <2>1, <4>1, OrderServices, QuotedOrder, BilledOrder
          <5> QED
            BY <2>2, <5>1, <5>2, OrderRideIs
        <4>2. CASE trip.service = "order delivery"
          <5>1. quote.fare = Price!OrderDeliveryFare(trip) /\ bill.fare = Price!deliveryFinalFare(trip)
            BY <2>1, <4>2, OrderServices, QuotedOrder, BilledOrder
          <5> QED
            BY <2>2, <5>1, OrderDeliveryIs
        <4> QED
          BY <2>4, <4>1, <4>2
      <3>3. Price!OrdersAsQuoted
        <4>1. CASE trip.service = "order ride" => Price!AsDriven
          <5>1. PICK c \in Nat : /\ c <= 5000 /\ (~trip.promo => c = 0) /\ quote.fare \in Nat
                                 /\ bill.fare = quote.fare + c
            BY <3>2, <4>1
          <5>2. ~trip.promo => bill.fare = quote.fare
            BY <5>1, WithinCap
          <5>3. quote.fare <= bill.fare /\ bill.fare <= quote.fare + Price!PromoCap
            BY <5>1 DEF Price!PromoCap
          <5> QED
            BY <5>2, <5>3, Zenon DEF Price!OrdersAsQuoted
        <4>2. CASE ~(trip.service = "order ride" => Price!AsDriven)
          BY <4>2, Zenon DEF Price!OrdersAsQuoted
        <4> QED
          BY <4>1, <4>2
      <3> QED
        BY <1>1, <3>1, <3>3 DEF Price!FaresSafe
    <2> QED
      BY <2>2, <2>3, <2>4 DEF Services5, Price!ByRule
  <1> QED
    BY <1>2, <1>3

(* A final fare is the quoted one where the documented formulas apply, a     *)
(* longer trip is never cheaper, and ranks and surges follow the facts.      *)
THEOREM FaresSafety == Spec => []FaresSafe
  <1>1. Init => For("pricing", PriceInv) /\ For("scoring", ScoreInv)
    BY PriceInit, ScoreInit DEF Init, For
  <1>2. For("pricing", PriceInv) /\ [Next]_vars => For("pricing", PriceInv)'
    BY Moves, PriceStep DEF For
  <1>3. For("scoring", ScoreInv) /\ [Next]_vars => For("scoring", ScoreInv)'
    BY Moves, ScoreStep DEF For
  <1>4. For("pricing", PriceInv) /\ For("scoring", ScoreInv) => FaresSafe
    BY PriceImplied, ScoreImplied DEF For, FaresSafe
  <1> QED
    BY <1>1, <1>2, <1>3, <1>4, PTL DEF Spec

-----------------------------------------------------------------------------
(* gateway.  As long as no key expired between an INCR and its EXPIRE, the   *)
(* requests in flight hold counts of the key that is there, and a request    *)
(* that passed is a window ago or keeps the key until it is.  As long as no  *)
(* EXPIRE failed on a key without one, what the key counts and what is still *)
(* to be counted came since the client last paused, and the key does not     *)
(* outlive a pause.                                                          *)

Expiring == [op : {"expire"}, count : 1..Bound["gateway"], at : Gate!Times,
             burst : 0..Bound["gateway"], stuck : BOOLEAN]
GateJobs == {Gate!Idle} \cup {[op |-> "limit"]} \cup Expiring
Limiting == {r \in Reqs : gateJob[r].op = "limit"}
Past(p, t) == p.at + Window <= t
OfKey(p) == p.count <= count /\ p.at <= clock /\ p.at + Window <= clock + ttl

GateTypes ==
  /\ clock \in Gate!Times /\ count \in Nat /\ ttl \in -1..Window
  /\ passes \subseteq [count : 1..RateLimit, at : Gate!Times]
  /\ burst \in 0..gateArrived /\ pause \in 0..Window
  /\ gateJob \in [Reqs -> GateJobs] /\ gateArrived \in 0..Bound["gateway"]
  /\ count + Cardinality(Limiting) <= gateArrived
OfTheKey(r) ==
  gateJob[r].op = "expire" =>
    /\ gateJob[r].count <= count /\ gateJob[r].at <= clock
    /\ \A s \in Reqs \ {r} : gateJob[s].op = "expire" => gateJob[s].count # gateJob[r].count
    /\ \A p \in passes : p.count = gateJob[r].count => Past(p, gateJob[r].at)
Apart ==
  /\ \A p \in passes : Past(p, clock) \/ OfKey(p)
  /\ \A p, q \in passes : p.count = q.count /\ p # q => Past(p, q.at) \/ Past(q, p.at)
Slips == slipped \/ (Apart /\ \A r \in Reqs : OfTheKey(r))
Owed ==
  /\ \A r \in Reqs : gateJob[r].op # "none" => pause = 0
  /\ Cardinality(Limiting) <= burst
  /\ stuck = TRUE \/ count + Cardinality(Limiting) <= burst
KeyEnds ==
  /\ ttl = -1 \/ (ttl > 0 /\ ttl + pause <= Window)
  /\ count = 0 \/ stuck = TRUE \/ ttl # -1 \/ \E r \in Reqs : gateJob[r].op = "expire"
Earned(r) == gateJob[r].op = "expire" => gateJob[r].count <= gateJob[r].burst \/ gateJob[r].stuck = TRUE
GateInv ==
  /\ GateTypes /\ slipped \in BOOLEAN /\ stuck \in BOOLEAN /\ Slips
  /\ Owed /\ KeyEnds /\ \A r \in Reqs : Earned(r)

LEMMA GateConstants ==
  /\ IsFiniteSet(Reqs) /\ Bound["gateway"] \in Nat /\ RateLimit \in Nat /\ Window \in Nat \ {0}
  /\ MaxTime \in Nat /\ Gate!Times = 0..MaxTime
  BY ServicesAssumption DEF ServiceNames, Gate!Times

LEMMA GateKinds ==
  ASSUME NEW j \in GateJobs
  PROVE  /\ j.op \in {"none", "limit", "expire"}
         /\ j.op = "none" <=> j = Gate!Idle
         /\ j.op = "limit" => j = [op |-> "limit"]
         /\ j.op = "expire" => j \in Expiring
  <1>1. CASE j = Gate!Idle
    BY <1>1 DEF Gate!Idle
  <1>2. CASE j = [op |-> "limit"]
    BY <1>2 DEF Gate!Idle
  <1>3. CASE j \in Expiring
    BY <1>3 DEF Expiring, Gate!Idle
  <1> QED
    BY <1>1, <1>2, <1>3 DEF GateJobs

(* What the number of requests before their INCR becomes when r goes on.     *)
LEMMA LimitingSize ==
  ASSUME GateTypes, NEW r \in Reqs, NEW j \in GateJobs, Gate!Goes(r, j)
  PROVE  /\ gateJob' \in [Reqs -> GateJobs] /\ gateJob'[r] = j
         /\ \A s \in Reqs \ {r} : gateJob'[s] = gateJob[s]
         /\ Cardinality(Limiting) \in Nat /\ Cardinality(Limiting)' \in Nat
         /\ Cardinality(Limiting)' = Cardinality(Limiting)
              + (IF j.op = "limit" THEN 1 ELSE 0) - (IF gateJob[r].op = "limit" THEN 1 ELSE 0)
  <1>1. /\ gateJob' \in [Reqs -> GateJobs] /\ gateJob'[r] = j
        /\ \A s \in Reqs \ {r} : gateJob'[s] = gateJob[s]
    BY DEF Gate!Goes, GateTypes
  <1> DEFINE rest == {s \in Reqs \ {r} : gateJob[s].op = "limit"}
  <1>2. IsFiniteSet(rest) /\ Cardinality(rest) \in Nat /\ r \notin rest
    BY GateConstants, SizeOfPart
  <1>3. /\ IsFiniteSet(rest \cup {r}) /\ Cardinality(rest \cup {r}) = Cardinality(rest) + 1
    BY <1>2, SizeMore
  <1>4. Limiting = IF gateJob[r].op = "limit" THEN rest \cup {r} ELSE rest
    BY DEF Limiting
  <1>5. Limiting' = IF j.op = "limit" THEN rest \cup {r} ELSE rest
    BY <1>1 DEF Limiting
  <1> HIDE DEF rest
  <1>6. Cardinality(Limiting) = IF gateJob[r].op = "limit" THEN Cardinality(rest) + 1 ELSE Cardinality(rest)
    BY <1>3, <1>4
  <1>7. Cardinality(Limiting)' = IF j.op = "limit" THEN Cardinality(rest) + 1 ELSE Cardinality(rest)
    BY <1>3, <1>5
  <1> QED
    BY <1>1, <1>2, <1>6, <1>7

LEMMA GateInit == Gate!Init => GateInv
  <1> SUFFICES ASSUME Gate!Init PROVE GateInv
    OBVIOUS
  <1>1. \A r \in Reqs : gateJob[r] = Gate!Idle /\ gateJob[r].op = "none"
    BY DEF Gate!Init, Gate!Idle
  <1>2. Limiting = {}
    BY <1>1 DEF Limiting
  <1>3. Cardinality(Limiting) = 0
    BY <1>2, FS_EmptySet
  <1>4. gateJob \in [Reqs -> GateJobs]
    BY DEF Gate!Init, GateJobs
  <1>5. GateTypes
    BY <1>3, <1>4, GateConstants DEF GateTypes, Gate!Init
  <1>6. Apart /\ \A r \in Reqs : OfTheKey(r)
    BY <1>1 DEF Apart, OfTheKey, Gate!Init
  <1>7. stuck \in BOOLEAN /\ slipped \in BOOLEAN
    BY Zenon DEF Gate!Init
  <1>8. Owed /\ KeyEnds /\ \A r \in Reqs : Earned(r)
    BY <1>1, <1>3 DEF Owed, KeyEnds, Earned, Gate!Init
  <1> QED
    BY <1>5, <1>6, <1>7, <1>8, Zenon DEF GateInv, Slips

(* A request that ends or begins, but neither counts nor passes.             *)
LEMMA GateQuiet ==
  ASSUME GateInv, NEW r \in Reqs, NEW j \in GateJobs, Gate!Goes(r, j), j.op # "expire",
         UNCHANGED <<clock, count, ttl, passes>>, slipped' \in BOOLEAN, slipped => slipped',
         stuck' \in BOOLEAN, stuck => stuck', gateArrived' \in 0..Bound["gateway"],
         gateArrived <= gateArrived',
         \/ UNCHANGED <<burst, pause>> /\ j.op # "limit"
         \/ burst' = burst + 1 /\ pause' = 0 /\ gateArrived' = gateArrived + 1,
         gateJob[r].op = "expire" => stuck' = TRUE \/ count = 0 \/ ttl # -1
  PROVE  GateInv'
  <1> USE DEF GateInv
  <1>1. /\ gateJob' \in [Reqs -> GateJobs] /\ gateJob'[r] = j
        /\ \A s \in Reqs \ {r} : gateJob'[s] = gateJob[s]
        /\ Cardinality(Limiting) \in Nat /\ Cardinality(Limiting)' \in Nat
        /\ Cardinality(Limiting)' <= Cardinality(Limiting) + (IF j.op = "limit" THEN 1 ELSE 0)
    BY LimitingSize
  <1>2. GateTypes'
    <2>1. burst' \in 0..gateArrived' /\ pause' \in 0..Window
      BY GateConstants DEF GateTypes
    <2>2. count + Cardinality(Limiting)' <= gateArrived'
      BY <1>1, GateConstants DEF GateTypes
    <2> QED
      BY <1>1, <2>1, <2>2 DEF GateTypes
  <1>3. ASSUME NEW s \in Reqs, gateJob'[s].op = "expire"
        PROVE  s # r /\ gateJob'[s] = gateJob[s]
    BY <1>1, <1>3
  <1>4. \A s \in Reqs : OfTheKey(s) => OfTheKey(s)'
    BY <1>3 DEF OfTheKey, Past
  <1>5. Apart => Apart'
    BY DEF Apart, OfKey, Past
  <1>6. Slips'
    BY <1>4, <1>5, Zenon DEF Slips
  <1>7. \A s \in Reqs : Earned(s)'
    BY <1>3 DEF Earned
  <1>8. stuck = TRUE => stuck' = TRUE
    BY Zenon
  <1>9. Owed'
    <2>1. \A s \in Reqs : gateJob'[s].op # "none" => pause' = 0
      <3> SUFFICES ASSUME NEW s \in Reqs, gateJob'[s].op # "none" PROVE pause' = 0
        OBVIOUS
      <3>1. CASE s = r
        <4>1. j.op \in {"none", "limit", "expire"}
          BY GateKinds
        <4>2. j.op = "limit"
          BY <1>1, <3>1, <4>1
        <4> QED
          BY <4>2
      <3>2. CASE s # r
        <4>1. pause = 0
          BY <1>1, <3>2 DEF Owed
        <4> QED
          BY <4>1
      <3> QED
        BY <3>1, <3>2
    <2>2. Cardinality(Limiting)' <= burst'
      BY <1>1 DEF Owed, GateTypes
    <2>3. stuck' = TRUE \/ count + Cardinality(Limiting)' <= burst'
      <3>1. CASE stuck = TRUE
        BY <1>8, <3>1
      <3>2. CASE count + Cardinality(Limiting) <= burst
        BY <1>1, <3>2 DEF GateTypes
      <3> QED
        BY <3>1, <3>2 DEF Owed
    <2> QED
      BY <2>1, <2>2, <2>3 DEF Owed
  <1>10. KeyEnds'
    <2>1. ttl = -1 \/ (ttl > 0 /\ ttl + pause' <= Window)
      BY GateConstants DEF KeyEnds, GateTypes
    <2>2. CASE gateJob[r].op = "expire"
      BY <2>1, <2>2 DEF KeyEnds
    <2>3. CASE gateJob[r].op # "expire"
      <3>1. \A s \in Reqs : gateJob[s].op = "expire" => gateJob'[s].op = "expire"
        BY <1>1, <2>3
      <3> QED
        BY <1>8, <2>1, <3>1 DEF KeyEnds
    <2> QED
      BY <2>2, <2>3
  <1> QED
    BY <1>2, <1>6, <1>7, <1>9, <1>10, Zenon

LEMMA GateIncr ==
  ASSUME GateInv, NEW r \in Reqs, Gate!Incr(r)
  PROVE  GateInv'
  <1> USE DEF GateInv
  <1>1. gateJob[r].op = "limit" /\ UNCHANGED <<clock, ttl, burst, pause, stuck, passes, slipped, gateArrived>>
    BY DEF Gate!Incr, Gate!Client
  <1>2. gateJob[r] = [op |-> "limit"]
    BY <1>1, GateKinds DEF GateTypes
  <1>3. count' = count + 1
    BY DEF Gate!Incr
  <1> DEFINE j == [op |-> "expire", count |-> count + 1, at |-> clock, burst |-> burst, stuck |-> stuck]
  <1>4. Gate!Goes(r, j)
    BY <1>3 DEF Gate!Incr
  <1>5. Cardinality(Limiting) \in Nat /\ 1 <= Cardinality(Limiting)
    <2>1. Limiting \subseteq Reqs /\ r \in Limiting
      BY <1>1 DEF Limiting
    <2>2. IsFiniteSet(Limiting) /\ Cardinality(Limiting) \in Nat
      BY <2>1, GateConstants, SizeOfPart
    <2>3. Cardinality(Limiting) # 0
      BY <2>1, <2>2, FS_EmptySet
    <2> QED
      BY <2>2, <2>3
  <1>6. count + 1 \in 1..Bound["gateway"]
    BY <1>5, GateConstants DEF GateTypes
  <1>7. j \in Expiring
    <2>1. burst \in 0..Bound["gateway"] /\ clock \in Gate!Times
      BY GateConstants DEF GateTypes
    <2> QED
      BY <1>6, <2>1, Zenon DEF Expiring
  <1>8. j.op = "expire" /\ j.count = count + 1 /\ j.at = clock /\ j.burst = burst /\ j.stuck = stuck
    OBVIOUS
  <1> HIDE DEF j
  <1>9. j \in GateJobs
    BY <1>7 DEF GateJobs
  <1>10. /\ gateJob' \in [Reqs -> GateJobs] /\ gateJob'[r] = j
         /\ \A s \in Reqs \ {r} : gateJob'[s] = gateJob[s]
         /\ Cardinality(Limiting)' = Cardinality(Limiting) - 1
    BY <1>1, <1>4, <1>5, <1>8, <1>9, LimitingSize
  <1>11. GateTypes'
    BY <1>1, <1>3, <1>5, <1>10, GateConstants DEF GateTypes
  <1>12. ASSUME Apart, \A s \in Reqs : OfTheKey(s)
         PROVE  Apart' /\ \A s \in Reqs : OfTheKey(s)'
    <2>1. Apart'
      BY <1>1, <1>3, <1>12 DEF Apart, OfKey, Past, GateTypes
    <2>2. OfTheKey(r)'
      <3>1. ASSUME NEW s \in Reqs \ {r}, gateJob'[s].op = "expire" PROVE gateJob'[s].count # count + 1
        <4>1. gateJob[s].op = "expire" /\ gateJob[s].count <= count /\ gateJob'[s] = gateJob[s]
          BY <1>10, <1>12, <3>1 DEF OfTheKey
        <4>2. gateJob[s] \in Expiring
          BY <4>1, GateKinds DEF GateTypes
        <4> QED
          BY <4>1, <4>2 DEF Expiring, GateTypes
      <3>2. ASSUME NEW p \in passes, p.count = count + 1 PROVE Past(p, clock)
        <4>1. ~OfKey(p)
          BY <3>2 DEF OfKey, GateTypes
        <4> QED
          BY <1>12, <4>1 DEF Apart
      <3>3. count + 1 <= count' /\ clock <= clock'
        BY <1>1, <1>3 DEF GateTypes, Gate!Times
      <3> QED
        BY <1>1, <1>3, <1>8, <1>10, <3>1, <3>2, <3>3 DEF OfTheKey
    <2>3. ASSUME NEW s \in Reqs \ {r} PROVE OfTheKey(s)'
      <3> SUFFICES ASSUME gateJob[s].op = "expire" PROVE OfTheKey(s)'
        BY <1>10 DEF OfTheKey
      <3>1. gateJob'[s] = gateJob[s] /\ gateJob[s] \in Expiring
        BY <1>10, GateKinds DEF GateTypes
      <3>2. gateJob[s].count <= count /\ gateJob[s].at <= clock
        BY <1>12 DEF OfTheKey
      <3>3. gateJob[s].count <= count + 1 /\ count + 1 # gateJob[s].count
        BY <3>1, <3>2 DEF Expiring, GateTypes
      <3>4. ASSUME NEW t \in Reqs \ {s}, gateJob'[t].op = "expire" PROVE gateJob'[t].count # gateJob[s].count
        BY <1>8, <1>10, <1>12, <3>3, <3>4 DEF OfTheKey
      <3> QED
        BY <1>1, <1>3, <1>12, <3>1, <3>2, <3>3, <3>4 DEF OfTheKey
    <2> QED
      BY <2>1, <2>2, <2>3
  <1>13. Slips'
    BY <1>1, <1>12, Zenon DEF Slips
  <1>14. \A s \in Reqs : Earned(s)'
    <2>1. Earned(r)'
      <3>1. stuck = TRUE \/ count + 1 <= burst
        BY <1>5 DEF Owed, GateTypes
      <3> QED
        BY <1>8, <1>10, <3>1 DEF Earned
    <2>2. \A s \in Reqs \ {r} : Earned(s)'
      BY <1>10 DEF Earned
    <2> QED
      BY <2>1, <2>2
  <1>15. Owed'
    <2>1. \A s \in Reqs : gateJob'[s].op # "none" => pause' = 0
      BY <1>1, <1>10 DEF Owed
    <2>2. Cardinality(Limiting)' <= burst' /\ (stuck' = TRUE \/ count' + Cardinality(Limiting)' <= burst')
      BY <1>1, <1>3, <1>5, <1>10 DEF Owed, GateTypes
    <2> QED
      BY <2>1, <2>2 DEF Owed
  <1>16. KeyEnds'
    BY <1>1, <1>8, <1>10 DEF KeyEnds
  <1> QED
    BY <1>1, <1>11, <1>13, <1>14, <1>15, <1>16, Zenon

LEMMA GateExpire ==
  ASSUME GateInv, NEW r \in Reqs, Gate!Expire(r)
  PROVE  GateInv'
  <1> USE DEF GateInv
  <1>1. PICK q \in Expiring : q = gateJob[r]
    BY GateKinds DEF Gate!Expire, GateTypes
  <1>2. /\ q.op = "expire" /\ q.count \in 1..Bound["gateway"] /\ q.at \in Gate!Times
    BY <1>1 DEF Expiring
  <1>3. /\ Gate!Goes(r, Gate!Idle)
        /\ UNCHANGED <<clock, count, burst, pause, stuck, slipped, gateArrived>>
        /\ ttl' = IF count = 0 THEN ttl ELSE Window
        /\ passes' = IF q.count <= RateLimit THEN passes \cup {[count |-> q.count, at |-> q.at]} ELSE passes
    <2>1. /\ Gate!Goes(r, Gate!Idle)
          /\ UNCHANGED <<clock, count, burst, pause, stuck, slipped, gateArrived>>
          /\ ttl' = IF count = 0 THEN ttl ELSE Window
          /\ passes' = IF q.count > RateLimit THEN passes ELSE passes \cup {[count |-> q.count, at |-> q.at]}
      BY <1>1 DEF Gate!Expire, Gate!Renewed, Gate!Refused, Gate!Client
    <2> QED
      BY <1>2, <2>1, GateConstants
  <1> DEFINE z == [count |-> q.count, at |-> q.at]
  <1>5. z.count = q.count /\ z.at = q.at /\ passes' \subseteq passes \cup {z}
    BY <1>3
  <1>6. q.count <= RateLimit => z \in [count : 1..RateLimit, at : Gate!Times]
    BY <1>2, GateConstants
  <1> HIDE DEF z
  <1>7. passes' \subseteq [count : 1..RateLimit, at : Gate!Times]
    BY <1>3, <1>5, <1>6 DEF GateTypes, z
  <1>8. Gate!Idle \in GateJobs /\ Gate!Idle.op = "none"
    BY DEF GateJobs, Gate!Idle
  <1>9. /\ gateJob' \in [Reqs -> GateJobs] /\ gateJob'[r] = Gate!Idle
        /\ \A s \in Reqs \ {r} : gateJob'[s] = gateJob[s]
        /\ Cardinality(Limiting) \in Nat /\ Cardinality(Limiting)' = Cardinality(Limiting)
    BY <1>1, <1>2, <1>3, <1>8, LimitingSize
  <1>10. GateTypes'
    <2>1. ttl' \in -1..Window
      BY <1>3, GateConstants DEF GateTypes
    <2> QED
      BY <1>3, <1>7, <1>9, <2>1 DEF GateTypes
  <1>11. ASSUME Apart, \A s \in Reqs : OfTheKey(s)
         PROVE  Apart' /\ \A s \in Reqs : OfTheKey(s)'
    <2>1. q.count <= count /\ q.at <= clock /\ \A p \in passes : p.count = q.count => Past(p, q.at)
      BY <1>1, <1>2, <1>11 DEF OfTheKey
    <2>2. ttl' = Window
      BY <1>2, <1>3, <2>1 DEF GateTypes
    <2>3. ASSUME NEW p \in passes' PROVE Past(p, clock)' \/ OfKey(p)'
      <3>1. CASE p = z
        BY <1>2, <1>3, <1>5, <2>1, <2>2, <3>1, GateConstants DEF OfKey, GateTypes
      <3>2. CASE p \in passes
        <4>1. p.count \in Nat /\ p.at \in Nat
          BY <3>2, GateConstants DEF GateTypes
        <4>2. Past(p, clock) \/ OfKey(p)
          BY <1>11, <3>2 DEF Apart
        <4> QED
          BY <1>3, <2>2, <4>1, <4>2, GateConstants DEF OfKey, Past, GateTypes
      <3> QED
        BY <1>5, <2>3, <3>1, <3>2
    <2>4. ASSUME NEW p \in passes', NEW o \in passes', p.count = o.count, p # o
          PROVE  Past(p, o.at) \/ Past(o, p.at)
      <3>1. CASE p \in passes /\ o \in passes
        BY <1>11, <2>4, <3>1 DEF Apart
      <3>2. CASE p = z \/ o = z
        BY <1>5, <2>1, <2>4, <3>2
      <3> QED
        BY <1>5, <3>1, <3>2
    <2>5. ASSUME NEW s \in Reqs PROVE OfTheKey(s)'
      <3> SUFFICES ASSUME gateJob'[s].op = "expire" PROVE OfTheKey(s)'
        BY DEF OfTheKey
      <3>1. s # r /\ gateJob'[s] = gateJob[s]
        BY <1>8, <1>9
      <3>2. gateJob[s].count # q.count
        BY <1>1, <1>2, <1>11, <3>1 DEF OfTheKey
      <3>3. \A t \in Reqs \ {s} : gateJob'[t].op = "expire" => gateJob'[t].count # gateJob[s].count
        BY <1>8, <1>9, <1>11, <3>1 DEF OfTheKey
      <3>4. ASSUME NEW p \in passes', p.count = gateJob[s].count PROVE Past(p, gateJob[s].at)
        <4>1. p \in passes
          BY <1>5, <3>2, <3>4
        <4> QED
          BY <1>11, <3>1, <3>4, <4>1 DEF OfTheKey
      <3>5. gateJob[s].count <= count /\ gateJob[s].at <= clock
        BY <1>11, <3>1 DEF OfTheKey
      <3> QED
        BY <1>3, <3>1, <3>3, <3>4, <3>5 DEF OfTheKey
    <2>6. Apart'
      BY <2>3, <2>4 DEF Apart, Past
    <2> QED
      BY <2>5, <2>6
  <1>12. Slips'
    BY <1>3, <1>11, Zenon DEF Slips
  <1>13. \A s \in Reqs : Earned(s)'
    BY <1>8, <1>9 DEF Earned
  <1>14. Owed'
    <2>1. \A s \in Reqs : gateJob'[s].op # "none" => pause' = 0
      BY <1>3, <1>8, <1>9 DEF Owed
    <2> QED
      BY <1>3, <1>9, <2>1 DEF Owed
  <1>15. KeyEnds'
    <2>1. pause = 0
      BY <1>1, <1>2 DEF Owed
    <2>2. CASE count = 0
      BY <1>3, <2>2 DEF KeyEnds
    <2>3. CASE count # 0
      BY <1>3, <2>1, <2>3, GateConstants DEF KeyEnds
    <2> QED
      BY <2>2, <2>3
  <1>16. stuck' \in BOOLEAN /\ slipped' \in BOOLEAN
    BY <1>3, Zenon
  <1> QED
    BY <1>10, <1>12, <1>13, <1>14, <1>15, <1>16, Zenon

LEMMA GateTick ==
  ASSUME GateInv, Gate!Tick
  PROVE  GateInv'
  <1> USE DEF GateInv
  <1>1. clock < MaxTime /\ clock' = clock + 1 /\ UNCHANGED <<passes, gateJob, gateArrived>>
    BY DEF Gate!Tick
  <1>2. /\ Limiting' = Limiting /\ Cardinality(Limiting)' = Cardinality(Limiting)
        /\ Cardinality(Limiting) \in Nat
    <2>1. Limiting' = Limiting /\ Cardinality(Limiting) \in Nat
      BY <1>1, GateConstants, SizeOfPart DEF Limiting
    <2> QED
      BY <2>1
  <1>3. /\ pause' = IF ~Gate!Quiet THEN 0 ELSE IF pause < Window THEN pause + 1 ELSE pause
        /\ burst' = IF pause' = Window THEN 0 ELSE burst
    BY DEF Gate!Tick
  <1>4. ASSUME Gate!Quiet
        PROVE  Cardinality(Limiting) = 0 /\ \A r \in Reqs : gateJob[r].op = "none"
    <2>1. \A r \in Reqs : gateJob[r].op = "none"
      BY <1>4 DEF Gate!Quiet, Gate!Idle
    <2>2. Limiting = {}
      BY <2>1 DEF Limiting
    <2> QED
      BY <2>1, <2>2, FS_EmptySet
  <1>5. burst' \in 0..gateArrived' /\ pause' \in 0..Window
    <2>1. pause' \in 0..Window
      BY <1>3, GateConstants DEF GateTypes
    <2> QED
      BY <1>1, <1>3, <2>1 DEF GateTypes
  <1>6. Gate!Quiet \/ burst' = burst
    <2>1. ASSUME ~Gate!Quiet PROVE burst' = burst
      <3>1. pause' = 0
        BY <1>3, <2>1
      <3> QED
        BY <1>3, <3>1, GateConstants
    <2> QED
      BY <2>1
  <1>7. \A r \in Reqs : gateJob'[r].op # "none" => pause' = 0
    <2> SUFFICES ASSUME NEW r \in Reqs, gateJob[r].op # "none" PROVE pause' = 0
      BY <1>1
    <2>1. ~Gate!Quiet
      BY <1>4
    <2> QED
      BY <1>3, <2>1
  <1>8. Cardinality(Limiting)' <= burst'
    <2>1. CASE Gate!Quiet
      BY <1>2, <1>4, <1>5, <2>1
    <2>2. CASE burst' = burst
      BY <1>2, <2>2 DEF Owed
    <2> QED
      BY <1>6, <2>1, <2>2
  <1>9. \A r \in Reqs : Earned(r)'
    BY <1>1 DEF Earned
  <1>10. CASE ttl = 1
    <2>1. count' = 0 /\ ttl' = -1 /\ stuck' = FALSE
      BY <1>10 DEF Gate!Tick
    <2>2. slipped' = (slipped \/ \E r \in Reqs : gateJob[r].op = "expire")
      BY <1>10 DEF Gate!Tick
    <2>3. slipped' \in BOOLEAN /\ stuck' \in BOOLEAN
      BY <2>1, <2>2, Zenon
    <2>4. GateTypes'
      BY <1>1, <1>2, <1>5, <2>1, GateConstants DEF GateTypes
    <2>5. ASSUME ~slipped' PROVE Apart' /\ \A r \in Reqs : OfTheKey(r)'
      <3>1. ~slipped /\ \A r \in Reqs : gateJob[r].op # "expire"
        BY <2>2, <2>5, Zenon
      <3>2. Apart
        BY <3>1, Zenon DEF Slips
      <3>3. ASSUME NEW p \in passes PROVE Past(p, clock + 1)
        <4>1. p.at \in Nat
          BY GateConstants DEF GateTypes
        <4> QED
          BY <1>10, <3>2, <4>1, GateConstants DEF Apart, OfKey, Past, GateTypes
      <3>4. Apart'
        BY <1>1, <3>2, <3>3 DEF Apart, Past
      <3> QED
        BY <1>1, <3>1, <3>4 DEF OfTheKey
    <2>6. Slips'
      BY <2>5, Zenon DEF Slips
    <2>7. Owed'
      BY <1>2, <1>7, <1>8, <2>1 DEF Owed
    <2>8. KeyEnds'
      BY <2>1 DEF KeyEnds
    <2> QED
      BY <1>9, <2>3, <2>4, <2>6, <2>7, <2>8, Zenon
  <1>11. CASE ttl # 1
    <2>1. /\ ttl' = (IF ttl > 1 THEN ttl - 1 ELSE ttl) /\ UNCHANGED count
          /\ slipped' = slipped /\ stuck' = stuck
      BY <1>11 DEF Gate!Tick
    <2>2. GateTypes'
      BY <1>1, <1>2, <1>5, <2>1, GateConstants DEF GateTypes
    <2>3. ASSUME Apart PROVE Apart'
      <3>1. ASSUME NEW p \in passes PROVE Past(p, clock)' \/ OfKey(p)'
        <4>1. p.count \in Nat /\ p.at \in Nat
          BY GateConstants DEF GateTypes
        <4>2. Past(p, clock) \/ OfKey(p)
          BY <2>3 DEF Apart
        <4> QED
          BY <1>1, <1>11, <2>1, <4>1, <4>2, GateConstants DEF OfKey, Past, GateTypes
      <3> QED
        BY <1>1, <2>3, <3>1 DEF Apart, Past
    <2>4. ASSUME NEW r \in Reqs, OfTheKey(r) PROVE OfTheKey(r)'
      <3>1. gateJob[r].op = "expire" => gateJob[r].at <= clock + 1
        <4> SUFFICES ASSUME gateJob[r].op = "expire" PROVE gateJob[r].at <= clock + 1
          OBVIOUS
        <4>1. gateJob[r] \in Expiring
          BY GateKinds DEF GateTypes
        <4>2. gateJob[r].at \in Nat /\ gateJob[r].at <= clock
          BY <2>4, <4>1, GateConstants DEF Expiring, OfTheKey
        <4> QED
          BY <4>2, GateConstants DEF GateTypes
      <3> QED
        BY <1>1, <2>1, <2>4, <3>1 DEF OfTheKey, Past
    <2>5. Slips'
      BY <2>1, <2>3, <2>4, Zenon DEF Slips
    <2>6. CASE Gate!Quiet
      <3>1. \A r \in Reqs : gateJob[r].op = "none"
        BY <1>4, <2>6
      <3>2. stuck = TRUE \/ count = 0 \/ (ttl > 1 /\ ttl + pause <= Window)
        BY <1>11, <3>1 DEF KeyEnds, GateTypes
      <3>3. KeyEnds'
        <4>1. ttl' = -1 \/ (ttl' > 0 /\ ttl' + pause' <= Window)
          <5>1. CASE ttl = -1
            BY <2>1, <5>1
          <5>2. CASE ttl > 1 /\ ttl + pause <= Window
            <6>1. pause < Window /\ pause' = pause + 1
              BY <1>3, <2>6, <5>2, GateConstants DEF GateTypes
            <6>2. ttl' = ttl - 1
              BY <2>1, <5>2
            <6> QED
              BY <5>2, <6>1, <6>2, GateConstants DEF GateTypes
          <5> QED
            BY <1>11, <5>1, <5>2 DEF KeyEnds, GateTypes
        <4>2. count' = 0 \/ stuck' = TRUE \/ ttl' # -1
          BY <2>1, <3>2 DEF GateTypes
        <4> QED
          BY <4>1, <4>2 DEF KeyEnds
      <3>4. stuck = TRUE \/ count <= burst'
        <4>1. CASE ttl > 1 /\ ttl + pause <= Window
          <5>1. pause' # Window
            BY <1>3, <2>6, <4>1, GateConstants DEF GateTypes
          <5> QED
            BY <1>2, <1>3, <1>4, <2>6, <5>1 DEF Owed, GateTypes
        <4>2. CASE count = 0
          BY <1>5, <4>2
        <4> QED
          BY <3>2, <4>1, <4>2
      <3>5. Owed'
        <4>1. stuck' = TRUE \/ count' + Cardinality(Limiting)' <= burst'
          BY <1>2, <1>4, <2>1, <2>6, <3>4 DEF GateTypes
        <4> QED
          BY <1>7, <1>8, <4>1 DEF Owed
      <3>6. slipped' \in BOOLEAN /\ stuck' \in BOOLEAN
        BY <2>1, Zenon
      <3> QED
        BY <1>9, <2>2, <2>5, <3>3, <3>5, <3>6, Zenon
    <2>7. CASE ~Gate!Quiet
      <3>1. burst' = burst /\ pause' = 0
        BY <1>3, <1>6, <2>7
      <3>2. KeyEnds'
        BY <1>1, <1>11, <2>1, <3>1, GateConstants DEF KeyEnds, GateTypes
      <3>3. Owed'
        BY <1>2, <1>7, <1>8, <2>1, <3>1 DEF Owed
      <3>4. slipped' \in BOOLEAN /\ stuck' \in BOOLEAN
        BY <2>1, Zenon
      <3> QED
        BY <1>9, <2>2, <2>5, <3>2, <3>3, <3>4, Zenon
    <2> QED
      BY <2>6, <2>7
  <1> QED
    BY <1>10, <1>11

LEMMA GateOthers ==
  ASSUME GateInv, NEW r \in Reqs,
         Gate!PipelineFails(r) \/ \E public, valid \in BOOLEAN : Gate!Authenticate(r, public, valid)
  PROVE  GateInv'
  <1>1. Gate!Idle \in GateJobs /\ Gate!Idle.op = "none"
    BY DEF GateJobs, Gate!Idle
  <1>2. CASE Gate!PipelineFails(r)
    <2>1. /\ Gate!Goes(r, Gate!Idle)
          /\ UNCHANGED <<clock, count, ttl, burst, pause, passes, gateArrived>>
      BY <1>2 DEF Gate!PipelineFails, Gate!Counter, Gate!Client
    <2>2. /\ slipped' = (slipped \/ gateJob[r].op = "expire")
          /\ stuck' = (stuck \/ (gateJob[r].op = "expire" /\ count > 0 /\ ttl = -1))
      BY <1>2 DEF Gate!PipelineFails
    <2>3. slipped' \in BOOLEAN /\ (slipped => slipped') /\ stuck' \in BOOLEAN /\ (stuck => stuck')
      BY <2>2, Zenon
    <2>4. gateJob[r].op = "expire" => stuck' = TRUE \/ count = 0 \/ ttl # -1
      <3> SUFFICES ASSUME gateJob[r].op = "expire", count # 0, ttl = -1 PROVE stuck' = TRUE
        OBVIOUS
      <3>1. count > 0
        BY DEF GateInv, GateTypes
      <3> QED
        BY <2>2, <3>1, Zenon
    <2>5. gateArrived' \in 0..Bound["gateway"] /\ gateArrived <= gateArrived'
      BY <2>1 DEF GateInv, GateTypes
    <2>6. Gate!Idle.op # "expire" /\ Gate!Idle.op # "limit"
      BY <1>1
    <2> QED
      BY <1>1, <2>1, <2>3, <2>4, <2>5, <2>6, GateQuiet
  <1>3. ASSUME NEW public \in BOOLEAN, NEW valid \in BOOLEAN, Gate!Authenticate(r, public, valid)
        PROVE  GateInv'
    <2>1. /\ gateArrived' = gateArrived + 1 /\ gateArrived < Bound["gateway"] /\ gateJob[r] = Gate!Idle
          /\ UNCHANGED <<clock, count, ttl, stuck, passes, slipped>>
      BY <1>3 DEF Gate!Authenticate, Gate!Counter
    <2>2. slipped' \in BOOLEAN /\ (slipped => slipped') /\ stuck' \in BOOLEAN /\ (stuck => stuck')
      BY <2>1, Zenon DEF GateInv
    <2>3. gateArrived' \in 0..Bound["gateway"] /\ gateArrived <= gateArrived'
      BY <2>1, GateConstants DEF GateInv, GateTypes
    <2>4. gateJob[r].op # "expire"
      BY <1>1, <2>1
    <2>5. CASE public \/ valid
      <3> DEFINE j == [op |-> "limit"]
      <3>1. Gate!Goes(r, j) /\ burst' = burst + 1 /\ pause' = 0
        BY <1>3, <2>5 DEF Gate!Authenticate, Gate!Counted
      <3>2. j \in GateJobs /\ j.op # "expire"
        BY DEF GateJobs
      <3> HIDE DEF j
      <3> QED
        BY <2>1, <2>2, <2>3, <2>4, <3>1, <3>2, GateQuiet
    <2>6. CASE ~(public \/ valid)
      <3>1. Gate!Goes(r, Gate!Idle) /\ UNCHANGED <<burst, pause>>
        BY <1>3, <2>6 DEF Gate!Authenticate, Gate!Counted, Gate!Client
      <3>2. Gate!Idle.op # "expire" /\ Gate!Idle.op # "limit"
        BY <1>1
      <3> QED
        BY <1>1, <2>1, <2>2, <2>3, <2>4, <3>1, <3>2, GateQuiet
    <2> QED
      BY <2>5, <2>6
  <1> QED
    BY <1>2, <1>3

LEMMA GateStep ==
  ASSUME GateInv, [Gate!Next]_gateway
  PROVE  GateInv'
  <1>1. CASE UNCHANGED gateway
    <2>1. UNCHANGED <<clock, count, ttl, burst, pause, stuck, passes, slipped, gateJob, gateArrived>>
      BY <1>1 DEF gateway
    <2>2. Limiting' = Limiting
      BY <2>1 DEF Limiting
    <2>3. Cardinality(Limiting)' = Cardinality(Limiting)
      BY <2>2
    <2>4. GateTypes'
      BY <2>1, <2>3 DEF GateInv, GateTypes
    <2>5. (Apart => Apart') /\ \A r \in Reqs : OfTheKey(r) => OfTheKey(r)'
      BY <2>1 DEF Apart, OfTheKey, OfKey, Past
    <2>6. Slips'
      BY <2>1, <2>5, Zenon DEF GateInv, Slips
    <2>7. Owed' /\ KeyEnds' /\ \A r \in Reqs : Earned(r)'
      BY <2>1, <2>3 DEF GateInv, Owed, KeyEnds, Earned
    <2> QED
      BY <2>1, <2>4, <2>6, <2>7, Zenon DEF GateInv
  <1>2. CASE Gate!Next
    BY <1>2, GateTick, GateIncr, GateExpire, GateOthers DEF Gate!Next
  <1> QED
    BY <1>1, <1>2

LEMMA GateImplied == GateInv => Gate!GatewaySafe
  <1> SUFFICES ASSUME GateInv PROVE Gate!GatewaySafe
    OBVIOUS
  <1> USE DEF GateInv
  <1>1. Gate!TypeOK
    <2>1. \A r \in Reqs : gateJob[r].op \in {"none", "limit", "expire"}
      BY GateKinds DEF GateTypes
    <2>2. count \in 0..Bound["gateway"]
      <3>1. Cardinality(Limiting) \in Nat
        BY GateConstants, SizeOfPart DEF Limiting
      <3> QED
        BY <3>1, GateConstants DEF GateTypes
    <2>3. burst \in 0..Bound["gateway"] /\ pause \in 0..Window
      BY GateConstants DEF GateTypes
    <2>4. /\ clock \in Gate!Times /\ ttl \in -1..Window
          /\ passes \subseteq [count : 1..RateLimit, at : Gate!Times]
      BY <2>2 DEF GateTypes
    <2> QED
      BY <2>1, <2>2, <2>3, <2>4, Zenon DEF Gate!TypeOK
  <1>2. ASSUME ~slipped, NEW t \in Gate!Times
        PROVE  Gate!Cardinality({p \in passes : t <= p.at /\ p.at < t + Window}) <= RateLimit
    <2> DEFINE W == {p \in passes : t <= p.at /\ p.at < t + Window}
               f == [p \in W |-> p.count]
    <2>1. Apart
      BY <1>2, Zenon DEF Slips
    <2>2. ASSUME NEW p \in W, NEW o \in W, p.count = o.count PROVE p = o
      <3>1. p.at \in Nat /\ o.at \in Nat /\ t \in Nat
        BY GateConstants DEF GateTypes
      <3>2. ~Past(p, o.at) /\ ~Past(o, p.at)
        BY <3>1, GateConstants DEF Past
      <3> QED
        BY <2>1, <2>2, <3>2 DEF Apart
    <2>3. \A p \in W : p.count \in 1..RateLimit
      BY DEF GateTypes
    <2>4. f \in Injection(W, 1..RateLimit)
      BY <2>2, <2>3 DEF Injection, IsInjective
    <2>5. IsFiniteSet(1..RateLimit) /\ Cardinality(1..RateLimit) = RateLimit
      <3>1. RateLimit \in Nat /\ 1 \in Int /\ RateLimit \in Int
        BY GateConstants
      <3>2. /\ IsFiniteSet(1..RateLimit)
            /\ Cardinality(1..RateLimit) = IF 1 > RateLimit THEN 0 ELSE RateLimit - 1 + 1
        BY <3>1, FS_Interval
      <3> QED
        BY <3>1, <3>2
    <2> HIDE DEF W, f
    <2>6. Cardinality(W) <= RateLimit
      BY <2>4, <2>5, FS_Injection
    <2>7. Gate!Cardinality(W) = Cardinality(W)
      BY DEF Gate!Cardinality, Cardinality
    <2> QED
      BY <2>6, <2>7 DEF W
  <1>3. Gate!AnyWindow
    BY <1>2 DEF Gate!AnyWindow
  <1>4. ASSUME NEW r \in Reqs, gateJob[r].op = "expire", Gate!Refused(gateJob[r])
        PROVE  gateJob[r].burst > RateLimit \/ gateJob[r].stuck
    <2>1. CASE gateJob[r].stuck = TRUE
      BY <2>1, Zenon
    <2>2. CASE gateJob[r].count <= gateJob[r].burst
      <3>1. gateJob[r] \in Expiring
        BY <1>4, GateKinds DEF GateTypes
      <3>2. gateJob[r].count \in Nat /\ gateJob[r].burst \in Nat
        BY <3>1, GateConstants DEF Expiring
      <3>3. gateJob[r].burst > RateLimit
        BY <1>4, <2>2, <3>2, GateConstants DEF Gate!Refused
      <3> QED
        BY <3>3
    <2>3. gateJob[r].count <= gateJob[r].burst \/ gateJob[r].stuck = TRUE
      BY <1>4 DEF Earned
    <2> QED
      BY <2>1, <2>2, <2>3, Zenon
  <1>5. Gate!RefusedBusy
    BY <1>4, Zenon DEF Gate!RefusedBusy
  <1> QED
    BY <1>1, <1>3, <1>5, Zenon DEF Gate!GatewaySafe

(* No stretch of a window passes more counted requests than the limit, and   *)
(* nobody is refused who has not sent more since they last paused for one,   *)
(* token or not, unless an EXPIRE had failed on the key.                     *)
THEOREM GatewaySafety == Spec => []GatewaySafe
  <1>1. Init => For("gateway", GateInv)
    BY GateInit DEF Init, For
  <1>2. For("gateway", GateInv) /\ [Next]_vars => For("gateway", GateInv)'
    BY Moves, GateStep DEF For
  <1>3. For("gateway", GateInv) => GatewaySafe
    BY GateImplied DEF For, GatewaySafe
  <1> QED
    BY <1>1, <1>2, <1>3, PTL DEF Spec

-----------------------------------------------------------------------------
(* chat-service *)

Creating == [op : {"create"}]
Reopening == [op : {"reopen"}, room : Talk!Rooms]
Looking == [op : {"look"}, m : Talk!Messages, id : {0}]
Storing == [op : {"store"}, m : Talk!Messages, id : Talk!Ids]
ChatJobs == {Talk!Idle} \cup Creating \cup Reopening \cup Looking \cup Storing
Lookers == {r \in Reqs : chatJob[r].op = "look"}

(* Every id that is drawn is one of a request that has arrived.              *)
ChatTypes ==
    /\ closed \subseteq rooms /\ rooms \subseteq Talk!Rooms
    /\ roomDriver \in [Talk!Rooms -> {None, ChatDriver}]
    /\ messages \in [Talk!Ids -> Talk!Messages \cup {None}]
    /\ read \subseteq Talk!Ids /\ outrun \subseteq Talk!Ids
    /\ marked \in [Talk!Rooms -> 0..Bound["chat"]]
    /\ chatClash \subseteq {"room", "send"}
    /\ chatJob \in [Reqs -> ChatJobs]
    /\ drawn \in Nat /\ chatArrived \in 0..Bound["chat"]
    /\ drawn + Cardinality(Lookers) <= chatArrived
Switches == direct \in BOOLEAN /\ indexed \in BOOLEAN

Held(stored, i, m) == /\ stored[i] # None /\ stored[i].room = m.room
                      /\ stored[i].client = m.client
Sending(r) == chatJob[r].op \in {"look", "store"}

(* Until creations overlap, a room is inserted when there is no other.       *)
RoomLane ==
    /\ \A r \in Reqs : chatJob[r].op = "create" => direct
    /\ indexed => \A v, w \in rooms : v = w
    /\ \/ "room" \in chatClash
       \/ /\ \A v, w \in rooms : v = w
          /\ \A r, s \in Reqs : chatJob[r].op = "create" /\ chatJob[s].op = "create" => r = s
          /\ \A r \in Reqs : chatJob[r].op = "create" => rooms = {}

(* Until sends overlap, a message that is being stored is not yet there.     *)
SendLane ==
    \/ "send" \in chatClash
    \/ /\ \A r, s \in Reqs :
             /\ Sending(r) /\ Sending(s) /\ chatJob[r].m.client # None
             /\ chatJob[r].m.room = chatJob[s].m.room
             /\ chatJob[r].m.client = chatJob[s].m.client
             => r = s
       /\ \A r \in Reqs : chatJob[r].op = "store" /\ chatJob[r].m.client # None
                             => \A i \in Talk!Ids : ~Held(messages, i, chatJob[r].m)
       /\ \A i, j \in Talk!Ids :
             messages[i] # None /\ messages[i].client # None /\ Held(messages, j, messages[i]) => i = j

(* Ids are drawn in order and stored under once, those that are read have a  *)
(* message, and the marks cover what lies below them.                        *)
ReadLane ==
    /\ \A i \in Talk!Ids : messages[i] # None => i <= drawn
    /\ \A i \in read : messages[i] # None
    /\ \A r \in Reqs : chatJob[r].op = "store" =>
          chatJob[r].id <= drawn /\ messages[chatJob[r].id] = None
    /\ \A r, s \in Reqs : /\ chatJob[r].op = "store" /\ chatJob[s].op = "store"
                          /\ chatJob[r].id = chatJob[s].id
                          => r = s
    /\ \A w \in Talk!Rooms : \A i \in Talk!Stored(w) : i <= marked[w] => i \in read \cup outrun
    /\ \A w \in Talk!Rooms : \A i \in Talk!Stored(w) : i \in read => i <= marked[w]

ChatInv == ChatTypes /\ Switches /\ RoomLane /\ SendLane /\ ReadLane

LEMMA ChatConstants ==
  /\ Bound["chat"] \in Nat /\ IsFiniteSet(Reqs)
  /\ \A i \in Talk!Ids : i \in Nat /\ i <= Bound["chat"] /\ i # 0
  BY ServicesAssumption DEF ServiceNames, Talk!Ids

LEMMA ChatKinds ==
  ASSUME NEW q \in ChatJobs
  PROVE  /\ q.op = "create" => q \in Creating
         /\ q.op = "reopen" => q \in Reopening
         /\ q.op = "look" => q \in Looking
         /\ q.op = "store" => q \in Storing
         /\ q.op \in {"none", "create", "reopen", "look", "store"}
  <1>1. Talk!Idle.op = "none"
    BY DEF Talk!Idle
  <1>2. /\ q \in Creating => q.op = "create"
        /\ q \in Reopening => q.op = "reopen"
        /\ q \in Looking => q.op = "look"
        /\ q \in Storing => q.op = "store"
    BY DEF Creating, Reopening, Looking, Storing
  <1> QED
    BY <1>1, <1>2 DEF ChatJobs

LEMMA LookersSize ==
  ASSUME ChatTypes
  PROVE  IsFiniteSet(Lookers) /\ Cardinality(Lookers) \in Nat
  BY ChatConstants, SizeOfPart DEF Lookers

LEMMA ChatGoes ==
  ASSUME ChatTypes, NEW r \in Reqs, NEW q \in ChatJobs, chatJob' = [chatJob EXCEPT ![r] = q]
  PROVE  /\ chatJob' \in [Reqs -> ChatJobs] /\ chatJob'[r] = q
         /\ \A s \in Reqs : s # r => chatJob'[s] = chatJob[s]
         /\ Cardinality(Lookers') \in Nat
         /\ chatJob[r].op = "look" /\ q.op # "look"
               => Cardinality(Lookers') = Cardinality(Lookers) - 1
         /\ chatJob[r].op # "look" /\ q.op # "look"
               => Cardinality(Lookers') = Cardinality(Lookers)
         /\ chatJob[r].op # "look" /\ q.op = "look"
               => Cardinality(Lookers') = Cardinality(Lookers) + 1
  <1>1. /\ chatJob' \in [Reqs -> ChatJobs] /\ chatJob'[r] = q
        /\ \A s \in Reqs : s # r => chatJob'[s] = chatJob[s]
    BY DEF ChatTypes
  <1>2. Lookers' = IF q.op = "look" THEN Lookers \cup {r} ELSE Lookers \ {r}
    BY <1>1 DEF Lookers
  <1>3. r \in Lookers <=> chatJob[r].op = "look"
    BY DEF Lookers
  <1>4. Cardinality(Lookers') \in Nat
    BY ChatConstants, SizeOfPart DEF Lookers
  <1>5. /\ chatJob[r].op = "look" /\ q.op # "look"
               => Cardinality(Lookers') = Cardinality(Lookers) - 1
        /\ chatJob[r].op # "look" /\ q.op # "look"
               => Cardinality(Lookers') = Cardinality(Lookers)
    BY <1>2, <1>3, LookersSize, SizeLess
  <1>6. chatJob[r].op # "look" /\ q.op = "look"
               => Cardinality(Lookers') = Cardinality(Lookers) + 1
    BY <1>2, <1>3, LookersSize, SizeMore
  <1> QED
    BY <1>1, <1>4, <1>5, <1>6

(* A lane nobody moves in keeps what it says.                                *)
LEMMA RoomKept ==
  ASSUME RoomLane, UNCHANGED <<rooms, indexed, direct>>, chatClash \subseteq chatClash',
         \A r \in Reqs : chatJob'[r].op = "create" => chatJob[r].op = "create"
  PROVE  RoomLane'
  BY DEF RoomLane

LEMMA SendKept ==
  ASSUME SendLane, UNCHANGED messages, chatClash \subseteq chatClash',
         \A r \in Reqs : Sending(r)' => chatJob'[r] = chatJob[r]
  PROVE  SendLane'
  <1>1. \A r \in Reqs : Sending(r)' => Sending(r)
    BY DEF Sending
  <1>2. \A r \in Reqs : chatJob'[r].op = "store" => Sending(r)' /\ chatJob[r].op = "store"
    BY DEF Sending
  <1> QED
    BY <1>1, <1>2 DEF SendLane, Held

LEMMA ReadKept ==
  ASSUME ReadLane, UNCHANGED <<messages, drawn, read, marked, outrun>>,
         \A r \in Reqs : chatJob'[r].op = "store" => chatJob'[r] = chatJob[r]
  PROVE  ReadLane'
  BY DEF ReadLane, Talk!Stored

(* Steps that neither make rooms nor send, store or mark.                    *)
LEMMA ChatQuiet ==
  ASSUME ChatInv,
         UNCHANGED <<direct, indexed, rooms, messages, drawn, read, marked, outrun>>,
         closed' \subseteq rooms, roomDriver' \in [Talk!Rooms -> {None, ChatDriver}],
         chatClash' = chatClash, chatArrived' \in 0..Bound["chat"], chatArrived <= chatArrived',
         \/ chatJob' = chatJob
         \/ \E r \in Reqs : \E q \in ChatJobs : /\ q.op \in {"none", "reopen"}
                                                /\ chatJob' = [chatJob EXCEPT ![r] = q]
  PROVE  ChatInv'
  <1>1. /\ chatJob' \in [Reqs -> ChatJobs]
        /\ Cardinality(Lookers') \in Nat /\ Cardinality(Lookers') <= Cardinality(Lookers)
        /\ \A s \in Reqs : chatJob'[s] = chatJob[s] \/ chatJob'[s].op \in {"none", "reopen"}
    <2>1. CASE chatJob' = chatJob
      <3>1. Lookers' = Lookers
        BY <2>1 DEF Lookers
      <3> QED
        BY <2>1, <3>1, LookersSize DEF ChatInv, ChatTypes
    <2>2. ASSUME NEW r \in Reqs, NEW q \in ChatJobs, q.op \in {"none", "reopen"},
                 chatJob' = [chatJob EXCEPT ![r] = q]
          PROVE  <1>1
      <3>1. Cardinality(Lookers) \in Nat /\ q.op # "look" /\ ChatTypes
        BY <2>2, LookersSize DEF ChatInv
      <3>2. /\ chatJob' \in [Reqs -> ChatJobs] /\ chatJob'[r] = q
            /\ \A s \in Reqs : s # r => chatJob'[s] = chatJob[s]
            /\ Cardinality(Lookers') \in Nat
            /\ \/ Cardinality(Lookers') = Cardinality(Lookers) - 1
               \/ Cardinality(Lookers') = Cardinality(Lookers)
        BY <2>2, <3>1, ChatGoes
      <3> QED
        BY <2>2, <3>1, <3>2
    <2> QED
      BY <2>1, <2>2
  <1>2. ChatTypes'
    <2>1. drawn + Cardinality(Lookers') <= chatArrived'
      BY <1>1, LookersSize, ChatConstants DEF ChatInv, ChatTypes
    <2> QED
      BY <1>1, <2>1 DEF ChatInv, ChatTypes
  <1>3. Switches'
    BY DEF ChatInv, Switches
  <1>4. \A s \in Reqs : Sending(s)' => chatJob'[s] = chatJob[s]
    BY <1>1 DEF Sending
  <1> QED
    BY <1>1, <1>2, <1>3, <1>4, RoomKept, SendKept, ReadKept DEF ChatInv

LEMMA ChatArrives ==
  ASSUME ChatInv, Talk!Arrive
  PROVE  /\ chatArrived' = chatArrived + 1 /\ chatArrived' \in 0..Bound["chat"]
         /\ chatArrived <= chatArrived'
  BY ChatConstants DEF Talk!Arrive, ChatInv, ChatTypes

LEMMA ChatQuietSteps ==
  ASSUME ChatInv,
         \/ \E r \in Reqs : \/ \E w \in rooms : Talk!FindClosedRoom(r, w)
                            \/ Talk!ReopenRoom(r) \/ Talk!Die(r)
         \/ \E w \in rooms : Talk!InternalCloseRoom(w) \/ Talk!InternalAssignDriver(w)
  PROVE  ChatInv'
  <1>1. ASSUME NEW r \in Reqs, NEW w \in rooms, Talk!FindClosedRoom(r, w)
        PROVE  ChatInv'
    <2> DEFINE q == [op |-> "reopen", room |-> w]
    <2>1. q \in ChatJobs /\ q.op = "reopen"
      BY DEF ChatInv, ChatTypes, ChatJobs, Reopening
    <2>2. /\ chatJob' = [chatJob EXCEPT ![r] = q] /\ Talk!Arrive
          /\ UNCHANGED <<direct, indexed, rooms, messages, drawn, read, marked, outrun,
                         closed, roomDriver, chatClash>>
      BY <1>1 DEF Talk!FindClosedRoom, Talk!Begin, Talk!House, Talk!Talk
    <2> HIDE DEF q
    <2>3. closed' \subseteq rooms /\ roomDriver' \in [Talk!Rooms -> {None, ChatDriver}]
      BY <2>2 DEF ChatInv, ChatTypes
    <2> QED
      BY <2>1, <2>2, <2>3, ChatArrives, ChatQuiet
  <1>2. ASSUME NEW r \in Reqs, Talk!ReopenRoom(r) \/ Talk!Die(r)
        PROVE  ChatInv'
    <2>1. Talk!Idle \in ChatJobs /\ Talk!Idle.op = "none"
      BY DEF ChatJobs, Talk!Idle
    <2>2. /\ chatJob' = [chatJob EXCEPT ![r] = Talk!Idle] /\ chatArrived' = chatArrived
          /\ UNCHANGED <<direct, indexed, rooms, messages, drawn, read, marked, outrun,
                         roomDriver, chatClash>>
          /\ closed' \subseteq closed
      BY <1>2 DEF Talk!ReopenRoom, Talk!Die, Talk!Goes, Talk!House, Talk!Talk
    <2>3. /\ closed' \subseteq rooms /\ roomDriver' \in [Talk!Rooms -> {None, ChatDriver}]
          /\ chatArrived' \in 0..Bound["chat"] /\ chatArrived <= chatArrived'
      BY <2>2, ChatConstants DEF ChatInv, ChatTypes
    <2> QED
      BY <2>1, <2>2, <2>3, ChatQuiet
  <1>3. ASSUME NEW w \in rooms, Talk!InternalCloseRoom(w) \/ Talk!InternalAssignDriver(w)
        PROVE  ChatInv'
    <2>1. /\ chatJob' = chatJob /\ Talk!Arrive
          /\ UNCHANGED <<direct, indexed, rooms, messages, drawn, read, marked, outrun,
                         chatClash>>
          /\ closed' = closed \cup {w} \/ closed' = closed
          /\ roomDriver' = [roomDriver EXCEPT ![w] = ChatDriver] \/ roomDriver' = roomDriver
      BY <1>3 DEF Talk!InternalCloseRoom, Talk!InternalAssignDriver, Talk!Talk
    <2>2. closed' \subseteq rooms /\ roomDriver' \in [Talk!Rooms -> {None, ChatDriver}]
      BY <2>1 DEF ChatInv, ChatTypes
    <2> QED
      BY <2>1, <2>2, ChatArrives, ChatQuiet
  <1> QED
    BY <1>1, <1>2, <1>3

(* The room that is made, if one is.                                         *)
LEMMA ChatRoom ==
  ASSUME ChatInv, NEW d \in {None, ChatDriver}, Talk!CreateRoom(d)
  PROVE  /\ rooms \subseteq rooms' /\ rooms' \subseteq Talk!Rooms
         /\ roomDriver' \in [Talk!Rooms -> {None, ChatDriver}]
         /\ UNCHANGED <<direct, indexed, closed, messages, drawn, read, marked, outrun>>
         /\ rooms' = rooms \/ ~indexed \/ rooms = {}
         /\ rooms = {} => \A v, w \in rooms' : v = w
  <1> DEFINE w == Talk!Cardinality(rooms) + 1
  <1>1. /\ UNCHANGED <<direct, indexed, closed, messages, drawn, read, marked, outrun>>
        /\ \/ /\ ~indexed \/ rooms = {}
              /\ w \in Talk!Rooms /\ rooms' = rooms \cup {w}
              /\ roomDriver' = [roomDriver EXCEPT ![w] = d]
           \/ UNCHANGED <<rooms, roomDriver>>
    BY DEF Talk!CreateRoom, Talk!Inserts, Talk!Talk
  <1> HIDE DEF w
  <1> QED
    BY <1>1 DEF ChatInv, ChatTypes

LEMMA ChatInternalRoom ==
  ASSUME ChatInv, NEW d \in {None, ChatDriver}, Talk!InternalCreateRoom(d)
  PROVE  ChatInv'
  <1>1. /\ Talk!CreateRoom(d) /\ Talk!Arrive /\ chatJob' = chatJob /\ ~direct
        /\ \/ rooms # {} /\ chatClash' = chatClash \cup {"room"}
           \/ rooms = {} /\ chatClash' = chatClash
    BY DEF Talk!InternalCreateRoom
  <1>2. Lookers' = Lookers
    BY <1>1 DEF Lookers
  <1>3. ChatTypes'
    <2>1. drawn' + Cardinality(Lookers') <= chatArrived' /\ drawn' \in Nat
      BY <1>1, <1>2, ChatRoom, ChatArrives, LookersSize, ChatConstants DEF ChatInv, ChatTypes
    <2> QED
      BY <1>1, <2>1, ChatRoom, ChatArrives DEF ChatInv, ChatTypes
  <1>4. Switches'
    BY <1>1, ChatRoom DEF ChatInv, Switches
  <1>5. RoomLane'
    BY <1>1, ChatRoom DEF ChatInv, RoomLane
  <1>6. SendLane' /\ ReadLane'
    BY <1>1, ChatRoom, SendKept, ReadKept DEF ChatInv
  <1> QED
    BY <1>3, <1>4, <1>5, <1>6 DEF ChatInv

LEMMA ChatDirectRoom ==
  ASSUME ChatInv, NEW r \in Reqs, Talk!CreateDirectRoom(r)
  PROVE  ChatInv'
  <1> DEFINE q == [op |-> "create"]
  <1>1. q \in ChatJobs /\ q.op = "create"
    BY DEF ChatJobs, Creating
  <1>2. /\ chatJob' = [chatJob EXCEPT ![r] = q] /\ chatJob[r] = Talk!Idle /\ Talk!Arrive
        /\ UNCHANGED <<direct, indexed, rooms, messages, drawn, read, marked, outrun,
                       closed, roomDriver>>
        /\ direct
        /\ \/ chatClash' = chatClash \cup {"room"}
           \/ /\ chatClash' = chatClash /\ rooms = {}
              /\ \A s \in Reqs : chatJob[s].op # "create"
    BY DEF Talk!CreateDirectRoom, Talk!Begin, Talk!House, Talk!Talk
  <1> HIDE DEF q
  <1>3. /\ chatJob' \in [Reqs -> ChatJobs] /\ chatJob'[r] = q
        /\ \A s \in Reqs : s # r => chatJob'[s] = chatJob[s]
        /\ Cardinality(Lookers') = Cardinality(Lookers)
    <2>1. chatJob[r].op # "look"
      BY <1>2 DEF Talk!Idle
    <2> QED
      BY <1>1, <1>2, <2>1, ChatGoes DEF ChatInv
  <1>4. ChatTypes'
    <2>1. drawn' + Cardinality(Lookers') <= chatArrived'
      BY <1>2, <1>3, ChatArrives, LookersSize, ChatConstants DEF ChatInv, ChatTypes
    <2> QED
      BY <1>2, <1>3, <2>1, ChatArrives DEF ChatInv, ChatTypes
  <1>5. Switches'
    BY <1>2 DEF ChatInv, Switches
  <1>6. RoomLane'
    <2>1. /\ \A s \in Reqs : chatJob'[s].op = "create" => direct'
          /\ indexed' => \A v, w \in rooms' : v = w
      BY <1>2, <1>3 DEF ChatInv, RoomLane
    <2>2. \/ "room" \in chatClash'
          \/ /\ \A v, w \in rooms' : v = w
             /\ \A s, t \in Reqs : chatJob'[s].op = "create" /\ chatJob'[t].op = "create" => s = t
             /\ \A s \in Reqs : chatJob'[s].op = "create" => rooms' = {}
      BY <1>2, <1>3 DEF ChatInv, RoomLane
    <2> QED
      BY <2>1, <2>2 DEF RoomLane
  <1>7. SendLane' /\ ReadLane'
    <2>1. \A s \in Reqs : Sending(s)' \/ chatJob'[s].op = "store" => chatJob'[s] = chatJob[s]
      BY <1>1, <1>3 DEF Sending
    <2> QED
      BY <1>2, <2>1, SendKept, ReadKept DEF ChatInv
  <1> QED
    BY <1>4, <1>5, <1>6, <1>7 DEF ChatInv

LEMMA ChatInsertRoom ==
  ASSUME ChatInv, NEW r \in Reqs, Talk!InsertDirectRoom(r)
  PROVE  ChatInv'
  <1>1. Talk!Idle \in ChatJobs /\ Talk!Idle.op = "none"
    BY DEF ChatJobs, Talk!Idle
  <1>2. /\ chatJob' = [chatJob EXCEPT ![r] = Talk!Idle] /\ chatJob[r].op = "create"
        /\ Talk!CreateRoom(ChatDriver) /\ UNCHANGED <<chatClash, chatArrived>>
    BY DEF Talk!InsertDirectRoom, Talk!Goes
  <1>3. /\ chatJob' \in [Reqs -> ChatJobs] /\ chatJob'[r] = Talk!Idle
        /\ \A s \in Reqs : s # r => chatJob'[s] = chatJob[s]
        /\ Cardinality(Lookers') = Cardinality(Lookers)
    BY <1>1, <1>2, ChatGoes DEF ChatInv
  <1>4. ChatTypes'
    BY <1>2, <1>3, ChatRoom DEF ChatInv, ChatTypes
  <1>5. Switches'
    BY <1>2, ChatRoom DEF ChatInv, Switches
  <1>6. RoomLane'
    <2>1. \A s \in Reqs : chatJob'[s].op = "create" => s # r /\ chatJob[s].op = "create"
      BY <1>1, <1>3
    <2>2. /\ \A s \in Reqs : chatJob'[s].op = "create" => direct'
          /\ indexed' => \A v, w \in rooms' : v = w
      BY <1>2, <2>1, ChatRoom DEF ChatInv, RoomLane
    <2>3. "room" \notin chatClash => /\ rooms = {}
                                     /\ \A s \in Reqs : chatJob'[s].op # "create"
      BY <1>2, <2>1 DEF ChatInv, RoomLane
    <2> QED
      BY <1>2, <2>2, <2>3, ChatRoom DEF RoomLane
  <1>7. SendLane' /\ ReadLane'
    <2>1. \A s \in Reqs : Sending(s)' \/ chatJob'[s].op = "store" => chatJob'[s] = chatJob[s]
      BY <1>1, <1>3 DEF Sending
    <2>2. UNCHANGED <<messages, drawn, read, marked, outrun, chatClash>>
      BY <1>2, ChatRoom
    <2> QED
      BY <2>1, <2>2, SendKept, ReadKept DEF ChatInv
  <1> QED
    BY <1>4, <1>5, <1>6, <1>7 DEF ChatInv

LEMMA ChatSends ==
  ASSUME ChatInv, NEW r \in Reqs, NEW w \in rooms, NEW p \in {ChatUser, ChatDriver},
         NEW c \in Clients \cup {None}, Talk!SendMessage(r, w, p, c)
  PROVE  ChatInv'
  <1> DEFINE m == [room |-> w, from |-> p, client |-> c]
             q == [op |-> "look", m |-> m, id |-> 0]
  <1>1. m \in Talk!Messages /\ m.room = w /\ m.client = c
    BY DEF ChatInv, ChatTypes, Talk!Messages
  <1>2. q \in ChatJobs /\ q.op = "look" /\ q.m = m
    BY <1>1 DEF ChatJobs, Looking
  <1>3. /\ chatJob' = [chatJob EXCEPT ![r] = q] /\ chatJob[r] = Talk!Idle /\ Talk!Arrive
        /\ UNCHANGED <<direct, indexed, rooms, messages, drawn, read, marked, outrun,
                       closed, roomDriver>>
        /\ \/ chatClash' = chatClash \cup {"send"}
           \/ /\ chatClash' = chatClash
              /\ \/ c = None
                 \/ \A s \in Reqs : ~(/\ Sending(s) /\ chatJob[s].m.room = w
                                      /\ chatJob[s].m.client = c)
    BY DEF Talk!SendMessage, Talk!Begin, Talk!House, Talk!Talk, Sending
  <1> HIDE DEF m, q
  <1>4. /\ chatJob' \in [Reqs -> ChatJobs] /\ chatJob'[r] = q
        /\ \A s \in Reqs : s # r => chatJob'[s] = chatJob[s]
        /\ Cardinality(Lookers') = Cardinality(Lookers) + 1
    <2>1. chatJob[r].op # "look"
      BY <1>3 DEF Talk!Idle
    <2> QED
      BY <1>2, <1>3, <2>1, ChatGoes DEF ChatInv
  <1>5. ChatTypes'
    <2>1. drawn' + Cardinality(Lookers') <= chatArrived'
      BY <1>3, <1>4, ChatArrives, LookersSize, ChatConstants DEF ChatInv, ChatTypes
    <2> QED
      BY <1>3, <1>4, <2>1, ChatArrives DEF ChatInv, ChatTypes
  <1>6. Switches'
    BY <1>3 DEF ChatInv, Switches
  <1>7. chatClash \subseteq chatClash'
    BY <1>3
  <1>8. RoomLane' /\ ReadLane'
    BY <1>2, <1>3, <1>4, <1>7, RoomKept, ReadKept DEF ChatInv
  <1>9. SendLane'
    <2> SUFFICES ASSUME "send" \notin chatClash' PROVE SendLane'
      BY DEF SendLane
    <2>1. /\ \A s \in Reqs : s # r => (Sending(s)' <=> Sending(s))
          /\ UNCHANGED messages
      BY <1>3, <1>4 DEF Held, Sending
    <2>2. /\ c # None => \A s \in Reqs : ~(/\ Sending(s) /\ chatJob[s].m.room = w
                                           /\ chatJob[s].m.client = c)
          /\ "send" \notin chatClash
      BY <1>3
    <2>3. \A s, t \in Reqs :
             /\ Sending(s)' /\ Sending(t)' /\ chatJob'[s].m.client # None
             /\ chatJob'[s].m.room = chatJob'[t].m.room
             /\ chatJob'[s].m.client = chatJob'[t].m.client
             => s = t
      BY <1>1, <1>2, <1>4, <2>1, <2>2 DEF ChatInv, SendLane
    <2>4. \A s \in Reqs : chatJob'[s].op = "store" /\ chatJob'[s].m.client # None
                             => \A i \in Talk!Ids : ~Held(messages', i, chatJob'[s].m)
      BY <1>2, <1>4, <2>1, <2>2 DEF ChatInv, SendLane
    <2>5. \A i, j \in Talk!Ids :
             messages'[i] # None /\ messages'[i].client # None /\ Held(messages', j, messages'[i]) => i = j
      BY <2>1, <2>2 DEF ChatInv, SendLane
    <2> QED
      BY <2>3, <2>4, <2>5 DEF SendLane
  <1> QED
    BY <1>5, <1>6, <1>8, <1>9 DEF ChatInv

(* An id is drawn for a message that was not found, or not looked for.       *)
LEMMA ChatDraws ==
  ASSUME ChatInv, NEW r \in Reqs, chatJob[r].op = "look", Talk!Draw(r, chatJob[r].m),
         \/ chatClash' = chatClash /\ ~Talk!Existing(chatJob[r].m)
         \/ chatClash' = chatClash \cup {"send"}
  PROVE  ChatInv'
  <1> DEFINE m == chatJob[r].m
             q == [op |-> "store", m |-> m, id |-> drawn + 1]
  <1>1. m \in Talk!Messages
    BY ChatKinds DEF ChatInv, ChatTypes, Looking
  <1>2. drawn + 1 <= chatArrived /\ drawn + 1 \in Talk!Ids /\ drawn \in Nat
    <2>1. r \in Lookers
      BY DEF Lookers
    <2>2. Cardinality(Lookers \ {r}) = Cardinality(Lookers) - 1 /\ Cardinality(Lookers \ {r}) \in Nat
      BY <2>1, LookersSize, SizeLess DEF ChatInv
    <2>3. Cardinality(Lookers) >= 1
      BY <2>2, LookersSize DEF ChatInv
    <2>4. /\ drawn \in Nat /\ chatArrived \in 0..Bound["chat"]
          /\ drawn + Cardinality(Lookers) <= chatArrived /\ Cardinality(Lookers) \in Nat
      BY LookersSize DEF ChatInv, ChatTypes
    <2> QED
      BY <2>3, <2>4, ChatConstants DEF Talk!Ids
  <1>3. q \in ChatJobs /\ q.op = "store" /\ q.m = m /\ q.id = drawn + 1
    BY <1>1, <1>2 DEF ChatJobs, Storing
  <1>4. /\ chatJob' = [chatJob EXCEPT ![r] = q] /\ drawn' = drawn + 1
        /\ UNCHANGED <<direct, indexed, rooms, messages, read, marked, outrun,
                       closed, roomDriver, chatArrived>>
    BY DEF Talk!Draw, Talk!Goes, Talk!House
  <1> HIDE DEF m, q
  <1>5. /\ chatJob' \in [Reqs -> ChatJobs] /\ chatJob'[r] = q
        /\ \A s \in Reqs : s # r => chatJob'[s] = chatJob[s]
        /\ Cardinality(Lookers') = Cardinality(Lookers) - 1
    BY <1>3, <1>4, ChatGoes DEF ChatInv
  <1>6. chatClash \subseteq chatClash' /\ chatClash' \subseteq {"room", "send"}
    BY DEF ChatInv, ChatTypes
  <1>7. ChatTypes'
    <2>1. drawn' + Cardinality(Lookers') <= chatArrived' /\ drawn' \in Nat
      BY <1>2, <1>4, <1>5, LookersSize, ChatConstants DEF ChatInv, ChatTypes
    <2> QED
      BY <1>4, <1>5, <1>6, <2>1 DEF ChatInv, ChatTypes
  <1>8. Switches'
    BY <1>4 DEF ChatInv, Switches
  <1>9. RoomLane'
    BY <1>3, <1>4, <1>5, <1>6, RoomKept DEF ChatInv
  <1>10. SendLane'
    <2> SUFFICES ASSUME "send" \notin chatClash' PROVE SendLane'
      BY DEF SendLane
    <2>1. /\ \A s \in Reqs : Sending(s)' <=> Sending(s)
          /\ \A s \in Reqs : Sending(s) => chatJob'[s].m = chatJob[s].m
          /\ UNCHANGED messages
      BY <1>3, <1>4, <1>5 DEF Held, Sending, m
    <2>2. "send" \notin chatClash /\ ~Talk!Existing(m)
      BY DEF m
    <2>3. m.client # None => \A i \in Talk!Ids : ~Held(messages, i, m)
      BY <2>2 DEF Talk!Existing, Talk!Stored, Held
    <2>4. \A s, t \in Reqs :
             /\ Sending(s)' /\ Sending(t)' /\ chatJob'[s].m.client # None
             /\ chatJob'[s].m.room = chatJob'[t].m.room
             /\ chatJob'[s].m.client = chatJob'[t].m.client
             => s = t
      BY <2>1, <2>2 DEF ChatInv, SendLane
    <2>5. \A s \in Reqs : chatJob'[s].op = "store" /\ chatJob'[s].m.client # None
                             => \A i \in Talk!Ids : ~Held(messages', i, chatJob'[s].m)
      BY <1>3, <1>5, <2>1, <2>2, <2>3 DEF ChatInv, SendLane
    <2>6. \A i, j \in Talk!Ids :
             messages'[i] # None /\ messages'[i].client # None /\ Held(messages', j, messages'[i]) => i = j
      BY <2>1, <2>2 DEF ChatInv, SendLane
    <2> QED
      BY <2>4, <2>5, <2>6 DEF SendLane
  <1>11. ReadLane'
    <2>1. /\ \A i \in Talk!Ids : messages[i] # None => i <= drawn
          /\ \A s \in Reqs : chatJob[s].op = "store" =>
                chatJob[s].id <= drawn /\ messages[chatJob[s].id] = None
          /\ \A s \in Reqs : chatJob[s].op = "store" => chatJob[s].id \in Nat
      <3>1. \A s \in Reqs : chatJob[s].op = "store" => chatJob[s] \in Storing
        BY ChatKinds DEF ChatInv, ChatTypes
      <3> QED
        BY <3>1, ChatConstants DEF ChatInv, ReadLane, Storing
    <2>2. messages[drawn + 1] = None
      BY <1>2, <2>1
    <2>3. \A i \in Talk!Ids : messages'[i] # None => i <= drawn'
      BY <1>2, <1>4, <2>1, ChatConstants
    <2>4. \A s \in Reqs : chatJob'[s].op = "store" =>
             chatJob'[s].id <= drawn' /\ messages'[chatJob'[s].id] = None
      BY <1>2, <1>3, <1>4, <1>5, <2>1, <2>2
    <2>5. \A s, t \in Reqs : /\ chatJob'[s].op = "store" /\ chatJob'[t].op = "store"
                             /\ chatJob'[s].id = chatJob'[t].id
                             => s = t
      <3>1. \A s \in Reqs : s # r /\ chatJob'[s].op = "store" => chatJob'[s].id # q.id
        BY <1>2, <1>3, <1>5, <2>1
      <3> QED
        BY <1>5, <3>1 DEF ChatInv, ReadLane
    <2>6. \A w : Talk!Stored(w)' = Talk!Stored(w)
      BY <1>4 DEF Talk!Stored
    <2> QED
      BY <1>4, <2>3, <2>4, <2>5, <2>6 DEF ChatInv, ReadLane
  <1> QED
    BY <1>7, <1>8, <1>9, <1>10, <1>11 DEF ChatInv

LEMMA ChatLooks ==
  ASSUME ChatInv, NEW r \in Reqs, Talk!GetMessageByClientID(r) \/ Talk!LookFails(r)
  PROVE  ChatInv'
  <1>1. CASE Talk!LookFails(r)
    BY <1>1, ChatDraws DEF Talk!LookFails
  <1>2. CASE Talk!GetMessageByClientID(r) /\ ~Talk!Existing(chatJob[r].m)
    BY <1>2, ChatDraws DEF Talk!GetMessageByClientID
  <1>3. CASE Talk!GetMessageByClientID(r) /\ Talk!Existing(chatJob[r].m)
    <2>1. Talk!Idle \in ChatJobs /\ Talk!Idle.op = "none"
      BY DEF ChatJobs, Talk!Idle
    <2>2. /\ chatJob' = [chatJob EXCEPT ![r] = Talk!Idle] /\ chatArrived' = chatArrived
          /\ UNCHANGED <<direct, indexed, rooms, messages, drawn, read, marked, outrun,
                         roomDriver, chatClash, closed>>
      BY <1>3 DEF Talk!GetMessageByClientID, Talk!Goes, Talk!House, Talk!Talk
    <2>3. /\ closed' \subseteq rooms /\ roomDriver' \in [Talk!Rooms -> {None, ChatDriver}]
          /\ chatArrived' \in 0..Bound["chat"] /\ chatArrived <= chatArrived'
      BY <2>2, ChatConstants DEF ChatInv, ChatTypes
    <2> QED
      BY <2>1, <2>2, <2>3, ChatQuiet
  <1> QED
    BY <1>1, <1>2, <1>3

LEMMA ChatStores ==
  ASSUME ChatInv, NEW r \in Reqs, Talk!InsertMessage(r)
  PROVE  ChatInv'
  <1> DEFINE p == chatJob[r]
  <1>1. p \in Storing /\ p.op = "store"
    BY ChatKinds DEF Talk!InsertMessage, ChatInv, ChatTypes
  <1>2. p.m \in Talk!Messages /\ p.id \in Talk!Ids /\ p.m.room \in Talk!Rooms
    BY <1>1 DEF Storing, Talk!Messages
  <1>3. Talk!Idle \in ChatJobs /\ Talk!Idle.op = "none"
    BY DEF ChatJobs, Talk!Idle
  <1>4. /\ chatJob' = [chatJob EXCEPT ![r] = Talk!Idle]
        /\ messages' = [messages EXCEPT ![p.id] = p.m]
        /\ \/ p.id <= marked[p.m.room] /\ outrun' = outrun \cup {p.id}
           \/ ~(p.id <= marked[p.m.room]) /\ outrun' = outrun
        /\ UNCHANGED <<direct, indexed, rooms, closed, roomDriver, drawn, read, marked,
                       chatClash, chatArrived>>
    BY DEF Talk!InsertMessage, Talk!Goes, Talk!House
  <1>5. /\ chatJob' \in [Reqs -> ChatJobs] /\ chatJob'[r] = Talk!Idle
        /\ \A s \in Reqs : s # r => chatJob'[s] = chatJob[s]
        /\ Cardinality(Lookers') = Cardinality(Lookers)
    BY <1>1, <1>3, <1>4, ChatGoes DEF ChatInv
  <1>6. /\ messages' \in [Talk!Ids -> Talk!Messages \cup {None}]
        /\ messages'[p.id] = p.m /\ messages[p.id] = None
        /\ \A i \in Talk!Ids : i # p.id => messages'[i] = messages[i]
    BY <1>1, <1>2, <1>4 DEF ChatInv, ChatTypes, ReadLane
  <1>7. ChatTypes'
    <2>1. outrun' \subseteq Talk!Ids
      BY <1>2, <1>4 DEF ChatInv, ChatTypes
    <2> QED
      BY <1>4, <1>5, <1>6, <2>1 DEF ChatInv, ChatTypes
  <1>8. Switches'
    BY <1>4 DEF ChatInv, Switches
  <1>9. RoomLane'
    BY <1>3, <1>4, <1>5, RoomKept DEF ChatInv
  <1>10. SendLane'
    <2> SUFFICES ASSUME "send" \notin chatClash PROVE SendLane'
      BY <1>4 DEF SendLane
    <2>1. \A s \in Reqs : Sending(s)' => s # r /\ Sending(s) /\ chatJob'[s] = chatJob[s]
      BY <1>3, <1>5 DEF Sending
    <2>2. \A s \in Reqs : chatJob'[s].op = "store" => Sending(s)' /\ chatJob[s].op = "store"
      BY <1>3, <1>5 DEF Sending
    <2>3. \A i \in Talk!Ids : \A x : Held(messages', i, x) =>
             \/ i # p.id /\ Held(messages, i, x)
             \/ i = p.id /\ x.room = p.m.room /\ x.client = p.m.client
      BY <1>6 DEF Held
    <2>4. Sending(r) /\ (p.m.client # None => \A i \in Talk!Ids : ~Held(messages, i, p.m))
      BY <1>1 DEF ChatInv, SendLane, Sending
    <2>5. \A s, t \in Reqs :
             /\ Sending(s)' /\ Sending(t)' /\ chatJob'[s].m.client # None
             /\ chatJob'[s].m.room = chatJob'[t].m.room
             /\ chatJob'[s].m.client = chatJob'[t].m.client
             => s = t
      BY <2>1 DEF ChatInv, SendLane
    <2>6. ASSUME NEW s \in Reqs, chatJob'[s].op = "store", chatJob'[s].m.client # None,
                 NEW i \in Talk!Ids, Held(messages', i, chatJob'[s].m)
          PROVE  FALSE
      <3>1. s # r /\ Sending(s) /\ chatJob'[s] = chatJob[s] /\ chatJob[s].op = "store"
        BY <2>1, <2>2, <2>6
      <3>2. ~Held(messages, i, chatJob[s].m)
        BY <2>6, <3>1 DEF ChatInv, SendLane
      <3>3. i = p.id /\ chatJob[s].m.room = p.m.room /\ chatJob[s].m.client = p.m.client
        BY <2>3, <2>6, <3>1, <3>2
      <3> QED
        BY <2>4, <2>6, <3>1, <3>3 DEF ChatInv, SendLane
    <2>7. ASSUME NEW i \in Talk!Ids, NEW j \in Talk!Ids, messages'[i] # None,
                 messages'[i].client # None, Held(messages', j, messages'[i])
          PROVE  i = j
      <3>1. CASE i # p.id /\ j # p.id
        BY <1>6, <2>3, <2>7, <3>1 DEF ChatInv, SendLane
      <3>2. CASE i = p.id /\ j # p.id
        BY <1>6, <2>3, <2>4, <2>7, <3>2
      <3>3. CASE i # p.id /\ j = p.id
        <4>1. messages'[i] = messages[i] /\ messages[i] # None
          BY <1>6, <2>7, <3>3
        <4>2. messages[i].room = p.m.room /\ messages[i].client = p.m.client
          BY <2>3, <2>7, <3>3, <4>1
        <4>3. Held(messages, i, p.m)
          BY <4>1, <4>2 DEF Held
        <4> QED
          BY <2>4, <2>7, <4>1, <4>2, <4>3
      <3> QED
        BY <3>1, <3>2, <3>3
    <2> QED
      BY <2>5, <2>6, <2>7 DEF SendLane
  <1>11. ReadLane'
    <2>1. /\ p.id <= drawn
          /\ \A s \in Reqs : s # r /\ chatJob[s].op = "store" => chatJob[s].id # p.id
      BY <1>1 DEF ChatInv, ReadLane
    <2>2. \A w : /\ Talk!Stored(w) \subseteq Talk!Stored(w)'
                 /\ \A i \in Talk!Stored(w)' : i \notin Talk!Stored(w) =>
                       i = p.id /\ w = p.m.room
      BY <1>6 DEF Talk!Stored
    <2>3. p.id \notin read /\ \A w : p.id \notin Talk!Stored(w)
      BY <1>6 DEF ChatInv, ReadLane, Talk!Stored
    <2>4. \A i \in Talk!Ids : messages'[i] # None => i <= drawn'
      BY <1>4, <1>6, <2>1 DEF ChatInv, ReadLane
    <2>5. \A i \in read' : messages'[i] # None
      BY <1>4, <1>6, <2>3 DEF ChatInv, ChatTypes, ReadLane
    <2>6. ASSUME NEW s \in Reqs, chatJob'[s].op = "store"
          PROVE  chatJob'[s].id <= drawn' /\ messages'[chatJob'[s].id] = None
      <3>1. s # r /\ chatJob'[s] = chatJob[s] /\ chatJob[s] \in Storing
        BY <1>3, <1>5, <2>6, ChatKinds DEF ChatInv, ChatTypes
      <3>2. chatJob[s].id \in Talk!Ids
        BY <3>1 DEF Storing
      <3> QED
        BY <1>4, <1>6, <2>1, <2>6, <3>1, <3>2 DEF ChatInv, ReadLane
    <2>7. \A s, t \in Reqs : /\ chatJob'[s].op = "store" /\ chatJob'[t].op = "store"
                             /\ chatJob'[s].id = chatJob'[t].id
                             => s = t
      BY <1>3, <1>5 DEF ChatInv, ReadLane
    <2>9. ASSUME NEW w \in Talk!Rooms, NEW i \in Talk!Stored(w)', i <= marked'[w]
          PROVE  i \in read' \cup outrun'
      <3>1. CASE i \in Talk!Stored(w)
        BY <1>4, <2>9, <3>1 DEF ChatInv, ReadLane
      <3>2. CASE i \notin Talk!Stored(w)
        <4>1. i = p.id /\ w = p.m.room /\ p.id <= marked[w]
          BY <1>4, <2>2, <2>9, <3>2
        <4> QED
          BY <1>4, <4>1
      <3> QED
        BY <3>1, <3>2
    <2>10. \A w \in Talk!Rooms : \A i \in Talk!Stored(w)' : i \in read' => i <= marked'[w]
      BY <1>4, <2>2, <2>3 DEF ChatInv, ReadLane
    <2> QED
      BY <2>4, <2>5, <2>6, <2>7, <2>9, <2>10 DEF ReadLane
  <1> QED
    BY <1>7, <1>8, <1>9, <1>10, <1>11 DEF ChatInv

LEMMA ChatMarks ==
  ASSUME ChatInv, NEW w \in rooms, NEW p \in {ChatUser, ChatDriver}, NEW i \in Talk!Ids,
         Talk!MarkMessagesAsRead(w, p, i)
  PROVE  ChatInv'
  <1>1. /\ Talk!Arrive /\ w \in Talk!Rooms
        /\ read' = read \cup {j \in Talk!Stored(w) : j <= i}
        /\ marked' = [marked EXCEPT ![w] = IF i > marked[w] THEN i ELSE marked[w]]
        /\ UNCHANGED <<direct, indexed, rooms, closed, roomDriver, messages, drawn, outrun,
                       chatClash, chatJob>>
    BY DEF Talk!MarkMessagesAsRead, Talk!UpTo, Talk!House, ChatInv, ChatTypes
  <1>2. /\ \A v : Talk!Stored(v)' = Talk!Stored(v) /\ Talk!Stored(v) \subseteq Talk!Ids
        /\ \A v : \A j \in Talk!Stored(v) : messages[j] # None /\ messages[j].room = v
    BY <1>1 DEF Talk!Stored
  <1>3. /\ marked'[w] = IF i > marked[w] THEN i ELSE marked[w]
        /\ \A v \in Talk!Rooms : v # w => marked'[v] = marked[v]
        /\ \A v \in Talk!Rooms : marked[v] \in 0..Bound["chat"]
    BY <1>1 DEF ChatInv, ChatTypes
  <1>4. i \in Nat /\ i <= Bound["chat"] /\ \A j \in Talk!Ids : j \in Nat
    BY ChatConstants
  <1>5. marked'[w] \in 0..Bound["chat"] /\ marked[w] <= marked'[w] /\ i <= marked'[w]
    BY <1>1, <1>3, <1>4, ChatConstants
  <1>6. ChatTypes'
    <2>1. Lookers' = Lookers
      BY <1>1 DEF Lookers
    <2>2. drawn' + Cardinality(Lookers') <= chatArrived'
      BY <1>1, <2>1, ChatArrives, LookersSize, ChatConstants DEF ChatInv, ChatTypes
    <2>3. marked' \in [Talk!Rooms -> 0..Bound["chat"]]
      BY <1>1, <1>3, <1>5 DEF ChatInv, ChatTypes
    <2>4. read' \subseteq Talk!Ids
      BY <1>1, <1>2 DEF ChatInv, ChatTypes
    <2> QED
      BY <1>1, <2>2, <2>3, <2>4, ChatArrives DEF ChatInv, ChatTypes
  <1>7. Switches'
    BY <1>1 DEF ChatInv, Switches
  <1>8. RoomLane' /\ SendLane'
    BY <1>1, RoomKept, SendKept DEF ChatInv
  <1>9. ReadLane'
    <2>1. \A j \in read' : messages'[j] # None
      BY <1>1, <1>2 DEF ChatInv, ReadLane
    <2>3. ASSUME NEW v \in Talk!Rooms, NEW j \in Talk!Stored(v), j <= marked'[v]
          PROVE  j \in read' \cup outrun'
      <3>1. CASE j <= marked[v]
        BY <1>1, <3>1 DEF ChatInv, ReadLane
      <3>2. CASE v = w /\ ~(j <= marked[w])
        <4>0. j \in Talk!Ids /\ marked[w] \in 0..Bound["chat"]
          BY <1>1, <1>2, <1>3
        <4>1. j \in Nat /\ marked[w] \in Nat
          BY <1>4, <4>0, ChatConstants
        <4>2. j <= i
          BY <1>3, <1>4, <2>3, <3>2, <4>1
        <4> QED
          BY <1>1, <3>2, <4>2
      <3> QED
        BY <1>3, <2>3, <3>1, <3>2
    <2>4. ASSUME NEW v \in Talk!Rooms, NEW j \in Talk!Stored(v), j \in read'
          PROVE  j <= marked'[v]
      <3>1. j \in Nat /\ marked[v] \in Nat /\ marked'[v] \in Nat
        <4>1. j \in Talk!Ids
          BY <1>2
        <4>2. marked'[v] \in 0..Bound["chat"] /\ marked[v] \in 0..Bound["chat"]
          BY <1>3, <1>5
        <4> QED
          BY <1>4, <4>1, <4>2, ChatConstants
      <3>2. CASE j \in read
        <4>1. j <= marked[v]
          BY <3>2 DEF ChatInv, ReadLane
        <4> QED
          BY <1>1, <1>3, <1>5, <3>1, <4>1
      <3>3. CASE j \in Talk!Stored(w) /\ j <= i
        <4>1. v = w
          BY <1>2, <3>3
        <4> QED
          BY <1>3, <1>4, <1>5, <3>1, <3>3, <4>1
      <3> QED
        BY <1>1, <2>4, <3>2, <3>3
    <2>5. \A v \in Talk!Rooms : \A j \in Talk!Stored(v)' : j <= marked'[v] => j \in read' \cup outrun'
      BY <1>2, <2>3
    <2>6. \A v \in Talk!Rooms : \A j \in Talk!Stored(v)' : j \in read' => j <= marked'[v]
      BY <1>2, <2>4
    <2>7. UNCHANGED <<messages, drawn, chatJob>>
      BY <1>1
    <2> QED
      BY <2>1, <2>5, <2>6, <2>7 DEF ChatInv, ReadLane
  <1> QED
    BY <1>6, <1>7, <1>8, <1>9 DEF ChatInv

LEMMA ChatStep == ChatInv /\ [Talk!Next]_chat => ChatInv'
  <1> SUFFICES ASSUME ChatInv, [Talk!Next]_chat PROVE ChatInv'
    OBVIOUS
  <1>1. CASE UNCHANGED chat
    <2>1. UNCHANGED <<direct, indexed, rooms, closed, roomDriver, messages, drawn, read, marked,
                      outrun, chatClash, chatJob, chatArrived>>
      BY <1>1 DEF chat
    <2>2. /\ closed' \subseteq rooms /\ roomDriver' \in [Talk!Rooms -> {None, ChatDriver}]
          /\ chatArrived' \in 0..Bound["chat"] /\ chatArrived <= chatArrived'
      BY <2>1, ChatConstants DEF ChatInv, ChatTypes
    <2> QED
      BY <2>1, <2>2, ChatQuiet
  <1>2. CASE Talk!InternalRequests
    BY <1>2, ChatInternalRoom, ChatQuietSteps DEF Talk!InternalRequests
  <1>3. ASSUME NEW r \in Reqs,
               \/ Talk!ParticipantRequests(r) \/ Talk!InsertDirectRoom(r) \/ Talk!ReopenRoom(r)
               \/ Talk!GetMessageByClientID(r) \/ Talk!LookFails(r) \/ Talk!InsertMessage(r)
               \/ Talk!Die(r)
        PROVE  ChatInv'
    <2>1. CASE Talk!ParticipantRequests(r)
      <3>1. ASSUME NEW w \in rooms, NEW p \in {ChatUser, ChatDriver},
                   \/ \E c \in Clients \cup {None} : Talk!SendMessage(r, w, p, c)
                   \/ \E i \in Talk!Ids : Talk!MarkMessagesAsRead(w, p, i)
            PROVE  ChatInv'
        BY <3>1, ChatSends, ChatMarks
      <3> QED
        BY <2>1, <3>1, ChatDirectRoom, ChatQuietSteps DEF Talk!ParticipantRequests
    <2> QED
      BY <1>3, <2>1, ChatInsertRoom, ChatQuietSteps, ChatLooks, ChatStores
  <1> QED
    BY <1>1, <1>2, <1>3 DEF Talk!Next

LEMMA ChatInit == Init => ChatInv
  <1> SUFFICES ASSUME Talk!Init PROVE ChatInv
    BY DEF Init
  <1>1. \A r \in Reqs : chatJob[r] = Talk!Idle /\ chatJob[r].op = "none"
    BY DEF Talk!Init, Talk!Idle
  <1>2. Lookers = {} /\ Cardinality(Lookers) = 0
    BY <1>1, FS_EmptySet DEF Lookers
  <1>3. ChatTypes
    <2>1. chatJob \in [Reqs -> ChatJobs]
      BY DEF Talk!Init, ChatJobs
    <2>2. drawn \in Nat /\ chatArrived \in 0..Bound["chat"] /\ drawn + Cardinality(Lookers) <= chatArrived
      BY <1>2, ChatConstants DEF Talk!Init
    <2>3. marked \in [Talk!Rooms -> 0..Bound["chat"]]
      BY ChatConstants DEF Talk!Init
    <2> QED
      BY <2>1, <2>2, <2>3 DEF Talk!Init, ChatTypes
  <1>4. Switches
    BY DEF Talk!Init, Switches
  <1>5. \A i \in Talk!Ids : messages[i] = None
    BY DEF Talk!Init
  <1>6. \A w : Talk!Stored(w) = {}
    BY <1>5 DEF Talk!Stored
  <1>7. RoomLane /\ SendLane
    BY <1>1, <1>5 DEF Talk!Init, RoomLane, SendLane, Sending, Held
  <1>8. ReadLane
    BY <1>1, <1>5, <1>6 DEF Talk!Init, ReadLane
  <1> QED
    BY <1>3, <1>4, <1>7, <1>8 DEF ChatInv

LEMMA ChatImplied == ChatInv => Talk!ChatSafe
  <1> SUFFICES ASSUME ChatInv PROVE Talk!ChatSafe
    OBVIOUS
  <1>1. Talk!TypeOK
    <2>1. \A r \in Reqs : chatJob[r].op \in {"none", "create", "reopen", "look", "store"}
      <3> TAKE r \in Reqs
      <3>1. chatJob[r] \in ChatJobs
        BY DEF ChatInv, ChatTypes
      <3> QED
        BY <3>1, ChatKinds
    <2>2. drawn \in 0..Bound["chat"]
      BY LookersSize, ChatConstants DEF ChatInv, ChatTypes
    <2>3. direct \in BOOLEAN /\ indexed \in BOOLEAN
      BY DEF ChatInv, Switches
    <2> QED
      BY <2>1, <2>2, <2>3 DEF ChatInv, ChatTypes, Talk!TypeOK
  <1>2. Talk!OneRoom
    <2>1. (\A v, w \in rooms : v = w) => ~(Cardinality(rooms) > 1)
      BY SizeOfOne
    <2>2. Talk!Cardinality(rooms) = Cardinality(rooms)
      BY DEF Talk!Cardinality, Cardinality
    <2> QED
      BY <2>1, <2>2 DEF ChatInv, RoomLane, Talk!OneRoom
  <1>3. Talk!SentOnce
    BY DEF ChatInv, SendLane, Talk!SentOnce, Talk!Stored, Held
  <1>4. Talk!NoHoles /\ Talk!ReadNamed
    BY DEF ChatInv, ChatTypes, ReadLane, Talk!NoHoles, Talk!ReadNamed
  <1> QED
    BY <1>1, <1>2, <1>3, <1>4 DEF Talk!ChatSafe

(* A room is made once and a client's message stored once in it, but for     *)
(* requests that overlap, and what is marked as read is what was named and   *)
(* all that lay before it: for any number of rooms and messages.             *)
THEOREM ChatSafety == Spec => []ChatSafe
  <1>1. Init => For("chat", ChatInv)
    BY ChatInit DEF For
  <1>2. For("chat", ChatInv) /\ [Next]_vars => For("chat", ChatInv)'
    BY Moves, ChatStep DEF For
  <1>3. For("chat", ChatInv) => ChatSafe
    BY ChatImplied DEF For, ChatSafe
  <1> QED
    BY <1>1, <1>2, <1>3, PTL DEF Spec
=============================================================================
