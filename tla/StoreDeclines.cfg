SPECIFICATION StoreSpec
CONSTANTS
  f1 = f1
  g1 = g1
  a = a
  b = b
  own = own
  Deliveries <- OneDelivery
  Grocery <- NoGrocery
  Riders <- PlatformRiders
  OwnRiders <- NoOwnRider
  OrderIds <- TwoNumbers
  OrderId <- OneNumbered
  KitchenSteps <- ForwardSteps
  NoRider = NoRider
  NoOrder = NoOrder
PROPERTY DeclineIsFinal
