SPECIFICATION DispatchSpec
CONSTANTS
  f1 = f1
  a = a
  b = b
  own = own
  Deliveries <- OneDelivery
  Grocery <- None
  Riders <- ThreeRiders
  OwnRiders <- TheOwnRider
  OrderIds <- OneNumber
  OrderId <- Numbered
  KitchenSteps <- None
  NoRider = NoRider
  NoOrder = NoOrder
  consumer = consumer
  Consumers <- None
  Sweeper = Sweeper
  ExpiryWorker = ExpiryWorker
  MaxRiders = 2
  MaxFaults = 0
SYMMETRY Interchangeable
INVARIANTS LockFollowsTheRow DispatchTypeOK
PROPERTY PostgresDecides
