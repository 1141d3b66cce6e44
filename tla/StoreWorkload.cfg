SPECIFICATION StoreSpec
CONSTANTS
  f1 = f1
  g1 = g1
  a = a
  b = b
  own = own
  Deliveries <- TwoDeliveries
  Grocery <- OneGrocery
  Riders <- TwoRiders
  OwnRiders <- TheOwnRider
  OrderIds <- TwoNumbers
  OrderId <- TwoNumbered
  KitchenSteps <- ForwardSteps
  NoRider = NoRider
  NoOrder = NoOrder
INVARIANTS
  TypeOK
  HolderIsBusy
  OneDeliveryEach
  PaidExactlyOnce
  CanonicalOrderFirst
