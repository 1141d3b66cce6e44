SPECIFICATION FairDispatch
CONSTANTS
  f1 = f1
  a = a
  b = b
  own = own
  Deliveries <- OneDelivery
  Grocery <- None
  Riders <- OwnAndPlatform
  OwnRiders <- TheOwnRider
  OrderIds <- OneNumber
  OrderId <- Numbered
  KitchenSteps <- None
  NoRider = NoRider
  NoOrder = NoOrder
  consumer = consumer
  Consumers <- None
  Sweeper = Sweeper
  ExpiryWorker = ExpiryWorker
  MaxRiders = 1
  MaxFaults = 0
PROPERTY WithdrawnIsSearched
