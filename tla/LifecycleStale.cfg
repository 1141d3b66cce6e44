SPECIFICATION LifecycleSpec
CONSTANTS
  f1 = f1
  a = a
  b = b
  own = own
  tap = tap
  Deliveries <- OneDelivery
  Grocery <- None
  Riders <- TwoRiders
  OwnRiders <- None
  OrderIds <- OneNumber
  OrderId <- Numbered
  KitchenSteps <- Cancelling
  NoRider = NoRider
  NoOrder = NoOrder
  Requests <- OneRequest
INVARIANT BusyIsOnDelivery
