SPECIFICATION ServicesSpec
CONSTANTS
  r1 = r1
  r2 = r2
  WalletRiders <- OneRider
  Postings = {t1, t2}
  NoPosting = None
  Amounts = {0, 5}
  MaxEntries = 2
  ContractRiders <- OneRider
  Admins = {a1, a2}
  NoPage = None
  Typed <- TypedPolicies
  Starts = {0, 1}
  Today = 3
  MonthWeeks = 2
  MaxVersions = 3
  MaxAccruals = 2
  PayRiders <- TwoRiders
  PayDeliveries = {d1}
  Offered <- OfferedPolicies
  Items = 333
  Metres = 2500
  Tip = 1
  SnapshotPay = 30
  NoPay = None
  MaxOffers = 3
  AccessRiders <- OneRider
  Employers = {x, y}
  AccessTxs = {t1, t2}
  NoTx = None
  NoEmployer = None
  OldOrders = {d1}
  OldRiders <- OneRider
  Taps = {t1, t2}
  NoPartner = None
  OwnStaff <- TwoRiders
  Handlers = {h1, h2}
  NoStaff = None
  MaxAssigned = 3
  MaxLost = 1
  Customer = Customer
  ChatRiders <- TwoRiders
  Nobody = None
  Requests = {q1, q2}
  Readers = {Customer}
  ClientIds = {c1}
  ChatPage = 1
  MaxTakes = 2
  MaxMessages = 2
  RiderChannels <- OneRider
  OrderChannels = {d1}
  MaxSockets = 3
  HubSends = {m1}
  SendBuffer = 1
  Devices = {device}
  MaxPushes = 3
  PushSlots = 2
  MaxMinted = 2
  RouteOrders = {d1}
  MaxAsks = 3
  MaxPlace = 1
  MaxClock = 2
  HoldLimit = 1
  Cooldown = 1
  DetourCooldown = 0
  OffSamples = 1
  MaxCallsPerOrder = 2
  WindowBudget = 1
  MaxConcurrent = 2
  MaxRetries = 1
  Coordinates <- SomePoints
  MaxRoute = 4
  MaxPoints = 3
  TrackedRiders <- TwoRiders
  TrackedOrders = {d1}
  Fixes = {f1}
  Glances = {g1}
  NoFix = None
  NoRider = None
  LiveTracking = TRUE
  MaxAssignments = 2
  NearbyRiders <- TwoRiders
  Uploaders = {u1}
  ListSize = 2
CHECK_DEADLOCK FALSE
INVARIANTS
  ServicesTypeOK
  LedgerChains SettlementsClose
  NoSaveLost SalariesDisjoint
  PaidAsShown CreditedOnce
  OneMaster FeeFollowsTheOrder
  ThreadsKeptApart ThreadComplete
  EveryListenerOnce
  CallsAccounted LeadsWhereAsked RouteSurvives
  SeenByTheRightCustomer NobodyNearbyMissed
PROPERTIES
  AssignmentArrives NobodyWaits PushesEnd EveryAskAnswered
