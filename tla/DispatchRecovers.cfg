SPECIFICATION FairDispatch
CONSTANTS
  f1 = f1
  a = a
  b = b
  own = own
  Deliveries <- OneDelivery
  Grocery <- None
  Riders <- OnePlatformRider
  OwnRiders <- None
  OrderIds <- OneNumber
  OrderId <- Numbered
  KitchenSteps <- OwnerCancels
  NoRider = NoRider
  NoOrder = NoOrder
  consumer = consumer
  Consumers <- OneConsumer
  Sweeper = Sweeper
  ExpiryWorker = ExpiryWorker
  MaxRiders = 1
  MaxFaults = 1
PROPERTIES NoOrderStranded SearchEndIsShown
