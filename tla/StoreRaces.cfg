SPECIFICATION StoreSpec
CONSTANTS
  f1 = f1
  g1 = g1
  a = a
  b = b
  own = own
  Deliveries <- OneDelivery
  Grocery <- NoGrocery
  Riders <- ThreeRiders
  OwnRiders <- TheOwnRider
  OrderIds <- TwoNumbers
  OrderId <- OneNumbered
  KitchenSteps <- ForwardSteps
  NoRider = NoRider
  NoOrder = NoOrder
SYMMETRY Interchangeable
INVARIANTS
  OneRiderOnBothRows
  AcceptedOfferIsTheHolder
  CustomerSeesTheDelivery
PROPERTY CustodyKept
