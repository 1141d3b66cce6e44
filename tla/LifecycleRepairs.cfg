SPECIFICATION FairLifecycle
CONSTANTS
  f1 = f1
  a = a
  b = b
  own = own
  tap = tap
  Deliveries <- OneDelivery
  Grocery <- None
  Riders <- OwnAndPlatform
  OwnRiders <- TheOwnRider
  OrderIds <- OneNumber
  OrderId <- Numbered
  KitchenSteps <- Cancelling
  NoRider = NoRider
  NoOrder = NoOrder
  Requests <- OneRequest
INVARIANTS
  LifecycleTypeOK
PROPERTIES
  PickupsAreRepaired
  DeliveredIsPaid
  ClosedOrderFreesRider
