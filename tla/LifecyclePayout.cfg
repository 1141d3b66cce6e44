SPECIFICATION FairLifecycle
CONSTANTS
  f1 = f1
  a = a
  b = b
  own = own
  tap = tap
  Deliveries <- OneDelivery
  Grocery <- None
  Riders <- OneRider
  OwnRiders <- None
  OrderIds <- OneNumber
  OrderId <- Numbered
  KitchenSteps <- Completing
  NoRider = NoRider
  NoOrder = NoOrder
  Requests <- OneRequest
PROPERTY DeliveredIsPaid
