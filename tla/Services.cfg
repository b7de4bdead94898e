\* Every service by itself: any two handlers at once, statements and calls that fail, crashes.
SPECIFICATION Spec
CONSTANTS
  r1 = r1  r2 = r2  o1 = o1  o2 = o2  o3 = o3  u1 = u1  u2 = u2  m1 = m1  m2 = m2  h1 = h1
  d1 = d1  d2 = d2
  Reqs = {r1, r2}
  None = None
  Faults = TRUE
  Bound <- Requests
  Parcels = {o1}  Senders = {u1}  Couriers = {d1, d2}  InternalTargets = {"finding_driver", "cancelled", "delivered"}
  PaidOrders = {o1}  Holds = {h1}  Methods = {m1, m2}  Wallets = {m1}
  CodIds = {o1}  maxAttempts = 2  Guesses = 2  MaxCount = 3
  Keys = {o1}  MaxRuns = 3
  MaxMessages = 4  MaxCrashes = 2  Malformed = {2}
  Promos = {m1, m2}  PromoOrders = {o1, o2}  PromoUsers = {u1}  Quotas = {0, 1}
  ResetTokens = {m1}
  CodeLimit = 1
  Channels = {m1, m2}
  Emails = {o1}
  Admins = {u1, u2}  failedLoginThreshold = 3
  Referrers = {u1}  Addresses = {o1, o2}  Documents = {m1}
  People = {u1, u2}  Plates = {h1}  Prefs = {m1, m2}
  MerchantStatuses = {m1, m2}  Registered = m1  Days = {h1, u2}  BankAccounts = {o1, o2}  Categories = {}  MenuItems = {u1}
  ChatUser = u1  ChatDriver = u2  Clients = {m1}  MaxRooms = 2
  RatedOrders = {o1}  Raters = {u1}  Subjects = {m1, m2}
  RateLimit = 2  Window = 2  MaxTime = 3
  FareRules <- FareRows  Distances = {0, 9, 100}  Minutes = {0, 1, 20, 40}  Weights = {0, 60}  Values = {0, 1000000}  Baskets = {0, 20000}
  Ways = {0, 25, 60}  Radii = {0, 150}  StarRatings = {0, 10}  Replies = {0, 1}  TripCounts = {0, 12}  ZoneCounts = {0, 1, 2, 3, 4, 5, 7}
  Targets = {1, 2}  MaxDay = 2
  MaxPoints = 2  MaxStops = 2
  GeoDrivers = {u1}  ServiceTypes = {m1, m2}
SYMMETRY Symmetry
CONSTRAINT SentBackOnce
INVARIANTS DeliverySafe PaymentSafe OncePerLock CommittedHandled PromotionSafe AuthSafe OtpSafe MessagesSafe SecuritySafe ProfileSafe MerchantSafe ChatSafe RatingSafe GatewaySafe FaresSafe
PROPERTIES DeliveryLifecycle TrackingSafe
CHECK_DEADLOCK FALSE
