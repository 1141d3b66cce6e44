------------------------ MODULE DeliveryStore_proofs ------------------------
(***************************************************************************)
(* What DeliveryStore guarantees for any number of deliveries and riders.  *)
(***************************************************************************)
EXTENDS DeliveryStore, TLAPS

-----------------------------------------------------------------------------
(* Typing.                                                                 *)

\* Freeing a rider keeps the columns of rider_availability in their types.
LEMMA FreeRiderTypes ==
  ASSUME TypeOK, NEW r \in Riders, NEW id, NEW av \in BOOLEAN, FreeRider(r, id, av)
  PROVE  /\ isOnline' \in [Riders -> BOOLEAN]
         /\ isAvailable' \in [Riders -> BOOLEAN]
         /\ currentOrder' \in [Riders -> OrderIds \cup {NoOrder}]
<1>1. CASE currentOrder[r] = id
  BY <1>1 DEF TypeOK, FreeRider
<1>2. CASE currentOrder[r] # id
  BY <1>2 DEF TypeOK, FreeRider
<1> QED BY <1>1, <1>2

\* Every transaction leaves rows of their types behind.
LEMMA StoreTypes ==
  ASSUME TypeOK, [StoreNext]_storeVars
  PROVE  TypeOK'
<1> USE DEF TypeOK, Food, Platform, orderVars, deliveryVars, availVars, statements
<1>1. CASE UNCHANGED storeVars
  BY <1>1 DEF storeVars
<1>2. ASSUME NEW d \in Deliveries, CreateDeliveryOrder(d) PROVE TypeOK'
  BY <1>2 DEF CreateDeliveryOrder, DeliveryStatuses, Searching
<1>3. ASSUME NEW d \in Deliveries, NEW s \in Searching, SetSearchStatus(d, s)
      PROVE TypeOK'
  BY <1>3 DEF SetSearchStatus, DeliveryStatuses
<1>4. ASSUME NEW d \in Deliveries, NEW r \in Riders, OfferSelected(d, r)
      PROVE TypeOK'
  BY <1>4 DEF OfferSelected
<1>5. ASSUME NEW d \in Deliveries, NEW r \in Riders, OfferInserted(d, r)
      PROVE TypeOK'
  <2>1. CASE request[d][r] \in {"none", "expired", "cancelled"}
    <3>1. request' = [request EXCEPT ![d][r] = "pending"]
      BY <1>5, <2>1 DEF OfferInserted
    <3>2. request' \in [Deliveries -> [Riders -> RequestStatuses]]
      BY <3>1 DEF RequestStatuses
    <3> QED BY <1>5, <3>2 DEF OfferInserted
  <2>2. CASE request[d][r] \notin {"none", "expired", "cancelled"}
    BY <1>5, <2>2 DEF OfferInserted
  <2> QED BY <2>1, <2>2
<1>6. ASSUME NEW d \in Deliveries, NEW r \in Riders, RejectRequest(d, r)
      PROVE TypeOK'
  BY <1>6 DEF RejectRequest, RequestStatuses
<1>7. ASSUME NEW d \in Deliveries, NEW r \in Riders, AcceptRequest(d, r)
      PROVE TypeOK'
  <2>1. orderRider' \in [Food -> Riders \cup {NoRider}]
        /\ orderView' \in [Food -> DeliveryStatuses \cup {"dispatch_expired"}]
    <3>1. CASE d \in Food
      <4>1. /\ orderRider' = [orderRider EXCEPT ![d] = r]
            /\ orderView' = [orderView EXCEPT ![d] = "rider_assigned"]
        BY <1>7, <3>1 DEF AcceptRequest
      <4> QED BY <4>1, <3>1 DEF DeliveryStatuses, Active
    <3>2. CASE d \notin Food
      BY <1>7, <3>2 DEF AcceptRequest
    <3> QED BY <3>1, <3>2
  <2>2. request' \in [Deliveries -> [Riders -> RequestStatuses]]
    BY <1>7 DEF AcceptRequest, RequestStatuses
  <2>3. assignedRider' \in [Deliveries -> Riders \cup {NoRider}]
        /\ deliveryStatus' \in [Deliveries -> DeliveryStatuses]
    BY <1>7 DEF AcceptRequest, DeliveryStatuses, Active
  <2>4. isAvailable' \in [Riders -> BOOLEAN]
        /\ currentOrder' \in [Riders -> OrderIds \cup {NoOrder}]
    BY <1>7, StoreAssumption DEF AcceptRequest, StoreAssumption
  <2> QED BY <1>7, <2>1, <2>2, <2>3, <2>4 DEF AcceptRequest
<1>8. ASSUME NEW d \in Deliveries, NEW r \in Riders, WithdrawFoodDelivery(d, r)
      PROVE TypeOK'
  <2>1. isOnline' \in [Riders -> BOOLEAN] /\ isAvailable' \in [Riders -> BOOLEAN]
        /\ currentOrder' \in [Riders -> OrderIds \cup {NoOrder}]
    BY <1>8, FreeRiderTypes DEF WithdrawFoodDelivery
  <2>2. request' \in [Deliveries -> [Riders -> RequestStatuses]]
    BY <1>8 DEF WithdrawFoodDelivery, RequestStatuses
  <2> QED
    BY <1>8, <2>1, <2>2 DEF WithdrawFoodDelivery, DeliveryStatuses, Searching
<1>9. ASSUME NEW lapsed \in SUBSET (Deliveries \X Riders), ExpirePendingRequests(lapsed)
      PROVE TypeOK'
  BY <1>9 DEF ExpirePendingRequests, RequestStatuses
<1>10. CASE SearchesSelected
  BY <1>10 DEF SearchesSelected
<1>11. CASE SearchesExpired
  BY <1>11 DEF SearchesExpired
<1>12. ASSUME NEW d \in Deliveries, NEW r \in Riders, NEW next \in Active \cup {"delivered"},
              AdvanceTo(d, r, next)
       PROVE TypeOK'
  <2>1. isOnline' \in [Riders -> BOOLEAN] /\ isAvailable' \in [Riders -> BOOLEAN]
        /\ currentOrder' \in [Riders -> OrderIds \cup {NoOrder}]
    <3>1. CASE next = "delivered"
      BY <1>12, <3>1, FreeRiderTypes DEF AdvanceTo
    <3>2. CASE next # "delivered"
      BY <1>12, <3>2 DEF AdvanceTo
    <3> QED BY <3>1, <3>2
  <2>2. orderView' \in [Food -> DeliveryStatuses \cup {"dispatch_expired"}]
    <3>1. CASE d \in Food
      <4>1. orderView' = [orderView EXCEPT ![d] = next]
        BY <1>12, <3>1 DEF AdvanceTo
      <4> QED BY <4>1, <3>1 DEF DeliveryStatuses
    <3>2. CASE d \notin Food
      BY <1>12, <3>2 DEF AdvanceTo
    <3> QED BY <3>1, <3>2
  <2>3. earnings' \in [Deliveries -> [Riders -> Nat]]
    <3>1. CASE next = "delivered" /\ ~restaurantOwned[d]
      <4>1. earnings' = [earnings EXCEPT ![d][r] = @ + 1]
        BY <1>12, <3>1 DEF AdvanceTo
      <4> QED BY <4>1
    <3>2. CASE ~(next = "delivered" /\ ~restaurantOwned[d])
      BY <1>12, <3>2 DEF AdvanceTo
    <3> QED BY <3>1, <3>2
  <2>4. deliveryStatus' \in [Deliveries -> DeliveryStatuses]
    BY <1>12 DEF AdvanceTo, DeliveryStatuses
  <2> QED BY <1>12, <2>1, <2>2, <2>3, <2>4 DEF AdvanceTo
<1>13. ASSUME NEW d \in Deliveries, NEW r \in Riders, NEW e \in Deliveries,
              ReleaseClosedDelivery(d, e, r)
       PROVE TypeOK'
  <2>1. isOnline' \in [Riders -> BOOLEAN] /\ isAvailable' \in [Riders -> BOOLEAN]
        /\ currentOrder' \in [Riders -> OrderIds \cup {NoOrder}]
    BY <1>13, FreeRiderTypes DEF ReleaseClosedDelivery
  <2> QED BY <1>13, <2>1 DEF ReleaseClosedDelivery, DeliveryStatuses
<1>14. ASSUME NEW d \in Deliveries, NEW r \in Riders, UpsertRestaurantOwnedOrder(d, r)
       PROVE TypeOK'
  <2>1. ASSUME OwnOrderUpserted(d, r) PROVE TypeOK'
    <3>1. deliveryStatus' \in [Deliveries -> DeliveryStatuses]
      <4>1. CASE assignedRider[d] = r /\ deliveryStatus[d] \in Active \cup {"delivered"}
        BY <2>1, <4>1 DEF OwnOrderUpserted
      <4>2. CASE ~(assignedRider[d] = r /\ deliveryStatus[d] \in Active \cup {"delivered"})
        <5>1. deliveryStatus' = [deliveryStatus EXCEPT ![d] = "rider_assigned"]
          BY <2>1, <4>2 DEF OwnOrderUpserted
        <5> QED BY <5>1 DEF DeliveryStatuses, Active
      <4> QED BY <4>1, <4>2
    <3>2. r \in Riders
      BY <1>14
    <3> QED BY <2>1, <3>1, <3>2 DEF OwnOrderUpserted
  <2>2. ASSUME OwnOrderSelected(d, r) \/ OwnOrderDropped(d, r) PROVE TypeOK'
    BY <2>2 DEF OwnOrderSelected, OwnOrderDropped
  <2> QED BY <1>14, <2>1, <2>2 DEF UpsertRestaurantOwnedOrder
<1>15. ASSUME NEW r \in Riders, NEW on \in BOOLEAN, NEW av \in BOOLEAN,
              UpsertRiderAvailability(r, on, av)
       PROVE TypeOK'
  BY <1>15 DEF UpsertRiderAvailability
<1>16. CASE Kitchen
  <2>1. ASSUME NEW d \in Food, NEW s \in OrderStatuses, KitchenMoves(d, s) PROVE TypeOK'
    BY <2>1 DEF KitchenMoves
  <2>2. ASSUME NEW d \in Food, NEW r \in OwnRiders, KitchenAssignsOwnRider(d, r)
        PROVE TypeOK'
    BY <2>2, StoreAssumption DEF KitchenAssignsOwnRider, StoreAssumption
  <2>3. ASSUME NEW d \in Food, WindowCloses(d) PROVE TypeOK'
    BY <2>3 DEF WindowCloses
  <2> QED BY <1>16, <2>1, <2>2, <2>3 DEF Kitchen
<1>17. ASSUME NEW lost \in SUBSET offering, OffersRolledBack(lost) PROVE TypeOK'
  BY <1>17 DEF OffersRolledBack
<1>18. CASE DispatchStep
  BY <1>18, <1>17, <1>2, <1>3, <1>4, <1>5, <1>6, <1>7, <1>8, <1>9, <1>10, <1>11
  DEF DispatchStep
<1>19. CASE LifecycleStep
  <2>1. ASSUME NEW d \in Deliveries, NEW r \in Riders,
               NEW next \in Active \cup {"delivered"},
               AdvanceByRider(d, r, next) \/ AdvanceByRepair(d, r, next)
        PROVE TypeOK'
    BY <2>1, <1>12 DEF AdvanceByRider, AdvanceByRepair
  <2>2. ASSUME NEW d \in Deliveries, NEW r \in Riders,
               \/ \E next \in Active \cup {"delivered"} :
                    AdvanceByRider(d, r, next) \/ AdvanceByRepair(d, r, next)
               \/ \E e \in Deliveries : ReleaseClosedDelivery(d, e, r)
               \/ UpsertRestaurantOwnedOrder(d, r)
        PROVE TypeOK'
    BY <2>2, <2>1, <1>13, <1>14
  <2> QED BY <1>19, <2>2, <1>15 DEF LifecycleStep
<1> QED BY <1>1, <1>16, <1>18, <1>19 DEF StoreNext

\* The first rows are well typed.
LEMMA TypeInit == StoreInit => TypeOK
BY DEF StoreInit, TypeOK, OrderStatuses, DeliveryStatuses, RequestStatuses, Food, Platform

\* Every column keeps its type.
THEOREM Typing == StoreSpec => []TypeOK
BY TypeInit, StoreTypes, PTL DEF StoreSpec

-----------------------------------------------------------------------------
(* Who has the delivery.                                                   *)

\* A rider column is NULL exactly while the delivery is not yet given out.
UnassignedRowsSearch ==
  \A d \in Deliveries :
    assignedRider[d] = NoRider <=> deliveryStatus[d] \in Searching \cup {"absent"}

\* A row with a rider of the restaurant's is the restaurant's, and an upsert in
\* progress finds that it is, or else that its rider still has the order.
HouseRows ==
  /\ \A d \in Deliveries : assignedRider[d] \in OwnRiders => restaurantOwned[d]
  /\ \A d \in Food, r \in OwnRiders :
       <<d, r>> \in upserting => orderRider[d] \in OwnRiders \/ restaurantOwned[d]

Matching ==
  /\ UnassignedRowsSearch
  /\ OneRiderOnBothRows
  /\ AcceptedOfferIsTheHolder
  /\ CustomerSeesTheDelivery

Agreement == Matching /\ HouseRows

\* Offers that are opened, declined or expired are not accepted ones.
LEMMA OfferStepsAgree ==
  ASSUME TypeOK, Agreement,
         NEW d \in Deliveries, NEW r \in Riders,
         OfferInserted(d, r) \/ RejectRequest(d, r)
  PROVE  Matching'
<1> USE DEF Food, Platform, orderVars, deliveryVars, availVars, statements
<1>1. UNCHANGED <<orderRider, orderView, deliveryVars>>
  BY DEF OfferInserted, RejectRequest
<1>2. ASSUME NEW e \in Deliveries, NEW q \in Riders
      PROVE  request'[e][q] = "accepted" <=> request[e][q] = "accepted"
  <2>1. CASE UNCHANGED request
    BY <2>1
  <2>2. CASE /\ request[d][r] # "accepted"
             /\ request' = [request EXCEPT ![d][r] = "pending"]
    BY <2>2 DEF TypeOK
  <2>3. CASE /\ request[d][r] # "accepted"
             /\ request' = [request EXCEPT ![d][r] = "rejected"]
    BY <2>3 DEF TypeOK
  <2>4. CASE OfferInserted(d, r)
    <3>1. CASE request[d][r] \in {"none", "expired", "cancelled"}
      BY <2>4, <3>1, <2>2 DEF OfferInserted
    <3>2. CASE request[d][r] \notin {"none", "expired", "cancelled"}
      BY <2>4, <3>2, <2>1 DEF OfferInserted
    <3> QED BY <3>1, <3>2
  <2>5. CASE RejectRequest(d, r)
    BY <2>5, <2>3 DEF RejectRequest
  <2> QED BY <2>4, <2>5
<1> QED
  BY <1>1, <1>2 DEF Agreement, Matching, UnassignedRowsSearch, OneRiderOnBothRows,
                    AcceptedOfferIsTheHolder, HasOrder, CustomerSeesTheDelivery

\* Offers that expire were pending: no rider is touched.
LEMMA ExpiryAgrees ==
  ASSUME TypeOK, Agreement, NEW lapsed \in SUBSET (Deliveries \X Riders),
         ExpirePendingRequests(lapsed)
  PROVE  Matching'
<1> USE DEF orderVars, deliveryVars, availVars, statements
<1>1. UNCHANGED <<orderRider, orderView, deliveryVars>>
  BY DEF ExpirePendingRequests
<1>2. ASSUME NEW e \in Deliveries, NEW q \in Riders
      PROVE  request'[e][q] = "accepted" <=> request[e][q] = "accepted"
  <2>1. CASE <<e, q>> \in lapsed
    <3>1. request[e][q] = "pending"
      BY <2>1 DEF ExpirePendingRequests
    <3>2. request'[e][q] = "expired"
      BY <2>1 DEF ExpirePendingRequests
    <3> QED BY <3>1, <3>2
  <2>2. CASE <<e, q>> \notin lapsed
    BY <2>2 DEF ExpirePendingRequests
  <2> QED BY <2>1, <2>2
<1> QED
  BY <1>1, <1>2 DEF Agreement, Matching, UnassignedRowsSearch, OneRiderOnBothRows,
                    AcceptedOfferIsTheHolder, HasOrder, CustomerSeesTheDelivery, Food, Platform

\* Accepting writes the rider on both rows and turns one offer, of a delivery
\* that had none, into the accepted one.
LEMMA AcceptAgrees ==
  ASSUME TypeOK, Agreement, NEW d \in Deliveries, NEW r \in Riders, AcceptRequest(d, r)
  PROVE  Matching'
<1> USE DEF Food, Platform
<1>0. r \in Platform /\ r # NoRider /\ assignedRider[d] = NoRider
  BY StoreAssumption DEF AcceptRequest, StoreAssumption
<1>1. /\ assignedRider' = [assignedRider EXCEPT ![d] = r]
      /\ deliveryStatus' = [deliveryStatus EXCEPT ![d] = "rider_assigned"]
      /\ UNCHANGED restaurantOwned
  BY DEF AcceptRequest
<1>2. ASSUME NEW e \in Food
      PROVE  /\ orderRider'[e] = IF e = d THEN r ELSE orderRider[e]
             /\ orderView'[e] = IF e = d THEN "rider_assigned" ELSE orderView[e]
  <2>1. CASE d \in Food
    BY <2>1 DEF AcceptRequest, TypeOK
  <2>2. CASE d \notin Food
    BY <2>2 DEF AcceptRequest
  <2> QED BY <2>1, <2>2
<1>3. ASSUME NEW e \in Deliveries, NEW q \in Riders
      PROVE  request'[e][q] = "accepted" <=>
               IF e = d THEN q = r ELSE request[e][q] = "accepted"
  <2>1. CASE e = d
    <3>1. ~HasOrder(d, q)
      BY <1>0, StoreAssumption DEF AcceptRequest, Claimable, HasOrder, StoreAssumption
    <3>2. request[d][q] # "accepted"
      BY <3>1 DEF Agreement, Matching, AcceptedOfferIsTheHolder
    <3> QED BY <2>1, <3>2 DEF AcceptRequest, TypeOK
  <2>2. CASE e # d
    BY <2>2 DEF AcceptRequest, TypeOK
  <2> QED BY <2>1, <2>2
<1>4. UnassignedRowsSearch'
  BY <1>0, <1>1 DEF Agreement, Matching, UnassignedRowsSearch, TypeOK, Searching
<1>5. OneRiderOnBothRows'
  BY <1>0, <1>1, <1>2 DEF Agreement, Matching, OneRiderOnBothRows, TypeOK
<1>6. AcceptedOfferIsTheHolder'
  <2>1. ASSUME NEW e \in Deliveries, NEW q \in Riders
        PROVE  HasOrder(e, q)' <=> IF e = d THEN q = r ELSE HasOrder(e, q)
    BY <1>1, <1>2 DEF HasOrder, TypeOK
  <2> QED BY <1>0, <1>3, <2>1 DEF Agreement, Matching, AcceptedOfferIsTheHolder
<1>7. CustomerSeesTheDelivery'
  BY <1>0, <1>1, <1>2 DEF Agreement, Matching, CustomerSeesTheDelivery, TypeOK
<1> QED BY <1>4, <1>5, <1>6, <1>7 DEF Matching

\* Withdrawing clears the rider from both rows and ends the accepted offer.
LEMMA WithdrawAgrees ==
  ASSUME TypeOK, Agreement, NEW d \in Deliveries, NEW r \in Riders,
         WithdrawFoodDelivery(d, r)
  PROVE  Matching'
<1> USE DEF Food, Platform
<1>1. /\ d \in Food
      /\ assignedRider' = [assignedRider EXCEPT ![d] = NoRider]
      /\ deliveryStatus' = [deliveryStatus EXCEPT ![d] = "rider_searching"]
      /\ orderRider' = [orderRider EXCEPT ![d] = NoRider]
      /\ orderView' = [orderView EXCEPT ![d] = "rider_searching"]
      /\ UNCHANGED restaurantOwned
  BY DEF WithdrawFoodDelivery
<1>2. ASSUME NEW e \in Deliveries, NEW q \in Riders
      PROVE  request'[e][q] = "accepted" <=> e # d /\ request[e][q] = "accepted"
  <2>1. CASE e = d
    BY <2>1 DEF WithdrawFoodDelivery, TypeOK
  <2>2. CASE e # d
    BY <2>2 DEF WithdrawFoodDelivery, TypeOK
  <2> QED BY <2>1, <2>2
<1>3. NoRider \notin Riders
  BY StoreAssumption DEF StoreAssumption
<1>4. UnassignedRowsSearch'
  BY <1>1, <1>3 DEF Agreement, Matching, UnassignedRowsSearch, TypeOK, Searching
<1>5. OneRiderOnBothRows'
  BY <1>1, <1>3 DEF Agreement, Matching, OneRiderOnBothRows, TypeOK
<1>6. AcceptedOfferIsTheHolder'
  BY <1>1, <1>2, <1>3 DEF Agreement, Matching, AcceptedOfferIsTheHolder, HasOrder, TypeOK
<1>7. CustomerSeesTheDelivery'
  BY <1>1, <1>3 DEF Agreement, Matching, CustomerSeesTheDelivery, TypeOK
<1> QED BY <1>4, <1>5, <1>6, <1>7 DEF Matching

\* An own rider is put on a row, which is the restaurant's from then on; the
\* order and the offers stay as they are.
LEMMA UpsertAgrees ==
  ASSUME TypeOK, Agreement, NEW d \in Deliveries, NEW r \in Riders,
         OwnOrderUpserted(d, r)
  PROVE  Matching'
<1> USE DEF Food, Platform, orderVars, deliveryVars, availVars, statements
<1>1. /\ d \in Food /\ r \in OwnRiders
      /\ assignedRider' = [assignedRider EXCEPT ![d] = r]
      /\ restaurantOwned' = [restaurantOwned EXCEPT ![d] = TRUE]
      /\ UNCHANGED <<orderRider, orderView, request>>
  BY DEF OwnOrderUpserted, TypeOK
<1>2. r # NoRider
  BY <1>1, StoreAssumption DEF StoreAssumption
<1>3. \/ deliveryStatus' = [deliveryStatus EXCEPT ![d] = "rider_assigned"]
      \/ /\ UNCHANGED deliveryStatus
         /\ deliveryStatus[d] \in Active \cup {"delivered"}
  BY DEF OwnOrderUpserted
<1>4. UnassignedRowsSearch'
  BY <1>1, <1>2, <1>3 DEF Agreement, Matching, UnassignedRowsSearch, TypeOK, Searching, Active
<1>5. OneRiderOnBothRows'
  BY <1>1, <1>2 DEF Agreement, Matching, OneRiderOnBothRows, TypeOK
<1>6. AcceptedOfferIsTheHolder'
  BY <1>1, <1>2 DEF Agreement, Matching, AcceptedOfferIsTheHolder, HasOrder, TypeOK
<1>7. CustomerSeesTheDelivery'
  BY <1>1, <1>3 DEF Agreement, Matching, CustomerSeesTheDelivery, TypeOK
<1> QED BY <1>4, <1>5, <1>6, <1>7 DEF Matching

\* A search that expires was selected while nobody had the order, and writes
\* only if that is still so.
LEMMA SearchesExpiredAgree ==
  ASSUME TypeOK, Agreement, SearchesExpired
  PROVE  Matching'
<1> USE DEF Food, Platform, deliveryVars
<1>1. UNCHANGED <<orderRider, deliveryVars, request>>
  BY DEF SearchesExpired
<1>2. ASSUME NEW e \in Food, assignedRider[e] \in Platform
      PROVE  orderView'[e] = orderView[e]
  <2>1. orderRider[e] # NoRider
    BY <1>2, StoreAssumption DEF Agreement, Matching, OneRiderOnBothRows, StoreAssumption
  <2> QED BY <2>1 DEF SearchesExpired, Claimable
<1> QED
  BY <1>1, <1>2 DEF Agreement, Matching, UnassignedRowsSearch, OneRiderOnBothRows,
                    AcceptedOfferIsTheHolder, HasOrder, CustomerSeesTheDelivery

\* Progress is written on the row and on the order together.
LEMMA AdvanceAgrees ==
  ASSUME TypeOK, Agreement, NEW d \in Deliveries, NEW r \in Riders,
         NEW next \in Active \cup {"delivered"}, AdvanceTo(d, r, next)
  PROVE  Matching'
<1> USE DEF Food, Platform
<1>1. /\ assignedRider[d] = r
      /\ deliveryStatus' = [deliveryStatus EXCEPT ![d] = next]
      /\ UNCHANGED <<assignedRider, restaurantOwned, orderRider, request>>
  BY DEF AdvanceTo
<1>2. ASSUME NEW e \in Food
      PROVE  orderView'[e] = IF e = d THEN next ELSE orderView[e]
  <2>1. CASE d \in Food
    <3>1. orderView' = [orderView EXCEPT ![d] = next]
      BY <2>1 DEF AdvanceTo
    <3> QED BY <3>1 DEF TypeOK
  <2>2. CASE d \notin Food
    BY <2>2 DEF AdvanceTo
  <2> QED BY <2>1, <2>2
<1>3. r # NoRider /\ next \notin Searching \cup {"absent"}
  BY StoreAssumption DEF StoreAssumption, Active, Searching
<1>4. UnassignedRowsSearch'
  BY <1>1, <1>3 DEF Agreement, Matching, UnassignedRowsSearch, TypeOK
<1>5. OneRiderOnBothRows' /\ AcceptedOfferIsTheHolder'
  BY <1>1 DEF Agreement, Matching, OneRiderOnBothRows, AcceptedOfferIsTheHolder,
      HasOrder
<1>6. CustomerSeesTheDelivery'
  BY <1>1, <1>2 DEF Agreement, Matching, CustomerSeesTheDelivery, TypeOK
<1> QED BY <1>4, <1>5, <1>6 DEF Matching

\* Steps that leave riders, offers and views alone and move a row within the
\* statuses that go with its rider column.
LEMMA RowStepsAgree ==
  ASSUME TypeOK, Agreement, NEW d \in Deliveries, NEW status \in DeliveryStatuses,
         deliveryStatus' = [deliveryStatus EXCEPT ![d] = status],
         UNCHANGED <<assignedRider, restaurantOwned, orderRider, orderView, request>>,
         \/ assignedRider[d] = NoRider /\ status \in Searching
         \/ deliveryStatus[d] \in Active /\ status = "cancelled"
  PROVE  Matching'
<1> USE DEF Food, Platform
<1>1. UnassignedRowsSearch'
  BY DEF Agreement, Matching, UnassignedRowsSearch, TypeOK, Searching, Active
<1>2. OneRiderOnBothRows' /\ AcceptedOfferIsTheHolder'
  BY DEF Agreement, Matching, OneRiderOnBothRows, AcceptedOfferIsTheHolder,
      HasOrder
<1>3. CustomerSeesTheDelivery'
  BY StoreAssumption
  DEF Agreement, Matching, CustomerSeesTheDelivery, TypeOK, StoreAssumption
<1> QED BY <1>1, <1>2, <1>3 DEF Matching

\* It holds while no row exists.
LEMMA AgreementInit == StoreInit => Agreement
BY StoreAssumption
DEF StoreInit, Agreement, Matching, HouseRows, UnassignedRowsSearch, Food, Platform,
    OneRiderOnBothRows, AcceptedOfferIsTheHolder, HasOrder, CustomerSeesTheDelivery, StoreAssumption

\* A row is never taken from the restaurant, and its rider leaves the order only
\* together with the row.
LEMMA HouseRowsKept ==
  ASSUME TypeOK, Agreement, [StoreNext]_storeVars
  PROVE  HouseRows'
<1> USE DEF Food, Platform, orderVars, deliveryVars, availVars, statements
<1>0. HouseRows
  BY DEF Agreement
<1>1. ASSUME UNCHANGED <<assignedRider, restaurantOwned, orderRider, upserting>>
      PROVE  HouseRows'
  BY <1>0, <1>1 DEF HouseRows
<1>2. ASSUME NEW d \in Deliveries, NEW r \in Riders, AcceptRequest(d, r) PROVE HouseRows'
  <2>1. /\ r \in Platform
        /\ assignedRider' = [assignedRider EXCEPT ![d] = r]
        /\ UNCHANGED <<restaurantOwned, upserting>>
    BY <1>2 DEF AcceptRequest
  <2>2. ASSUME NEW e \in Food, orderRider[e] \in OwnRiders PROVE orderRider'[e] = orderRider[e]
    <3>1. CASE d \in Food
      <4>1. orderRider' = [orderRider EXCEPT ![d] = r] /\ orderRider[d] = NoRider
        BY <1>2, <3>1 DEF AcceptRequest, Claimable
      <4> QED BY <2>2, <4>1, StoreAssumption DEF TypeOK, StoreAssumption
    <3>2. CASE d \notin Food
      BY <1>2, <3>2 DEF AcceptRequest
    <3> QED BY <3>1, <3>2
  <2> QED BY <1>0, <2>1, <2>2 DEF HouseRows, TypeOK
<1>3. ASSUME NEW d \in Deliveries, NEW r \in Riders, WithdrawFoodDelivery(d, r)
      PROVE  HouseRows'
  <2>1. /\ d \in Food /\ assignedRider[d] = r /\ orderRider[d] = r
        /\ assignedRider' = [assignedRider EXCEPT ![d] = NoRider]
        /\ orderRider' = [orderRider EXCEPT ![d] = NoRider]
        /\ UNCHANGED <<restaurantOwned, upserting>>
    BY <1>3 DEF WithdrawFoodDelivery
  <2>2. NoRider \notin OwnRiders
    BY StoreAssumption DEF StoreAssumption
  <2> QED BY <1>0, <2>1, <2>2 DEF HouseRows, TypeOK
<1>4. ASSUME NEW d \in Deliveries, NEW r \in Riders, OwnOrderUpserted(d, r)
      PROVE  HouseRows'
  <2>1. /\ assignedRider' = [assignedRider EXCEPT ![d] = r]
        /\ restaurantOwned' = [restaurantOwned EXCEPT ![d] = TRUE]
        /\ upserting' \subseteq upserting
        /\ UNCHANGED orderRider
    BY <1>4 DEF OwnOrderUpserted
  <2> QED BY <1>0, <2>1 DEF HouseRows, TypeOK
<1>5. ASSUME NEW d \in Deliveries, NEW r \in Riders,
             OwnOrderSelected(d, r) \/ OwnOrderDropped(d, r)
      PROVE  HouseRows'
  <2>1. /\ UNCHANGED <<assignedRider, restaurantOwned, orderRider>>
        /\ \/ upserting' \subseteq upserting
           \/ upserting' = upserting \cup {<<d, r>>} /\ orderRider[d] \in OwnRiders
    BY <1>5 DEF OwnOrderSelected, OwnOrderDropped
  <2> QED BY <1>0, <2>1 DEF HouseRows
<1>6. ASSUME NEW d \in Food, NEW r \in OwnRiders, KitchenAssignsOwnRider(d, r)
      PROVE  HouseRows'
  <2>1. /\ orderRider' = [orderRider EXCEPT ![d] = r]
        /\ UNCHANGED <<assignedRider, restaurantOwned, upserting>>
    BY <1>6 DEF KitchenAssignsOwnRider
  <2> QED BY <1>0, <2>1 DEF HouseRows, TypeOK
<1>7. CASE DispatchStep
  <2>1. ASSUME NEW d \in Deliveries, NEW r \in Riders,
               \/ OfferSelected(d, r)
               \/ OfferInserted(d, r)
               \/ RejectRequest(d, r)
        PROVE  HouseRows'
    BY <2>1, <1>1 DEF OfferSelected, OfferInserted, RejectRequest
  <2>2. ASSUME NEW d \in Deliveries,
               CreateDeliveryOrder(d) \/ \E s \in Searching : SetSearchStatus(d, s)
        PROVE  HouseRows'
    BY <2>2, <1>1 DEF CreateDeliveryOrder, SetSearchStatus
  <2>3. ASSUME NEW pairs,
               \/ ExpirePendingRequests(pairs)
               \/ OffersRolledBack(pairs)
               \/ SearchesSelected
               \/ SearchesExpired
        PROVE  HouseRows'
    BY <2>3, <1>1
    DEF ExpirePendingRequests, OffersRolledBack, SearchesSelected, SearchesExpired
  <2> QED BY <1>7, <1>2, <1>3, <2>1, <2>2, <2>3 DEF DispatchStep
<1>8. CASE LifecycleStep
  <2>1. ASSUME NEW d \in Deliveries, NEW r \in Riders,
               NEW next \in Active \cup {"delivered"},
               AdvanceByRider(d, r, next) \/ AdvanceByRepair(d, r, next)
        PROVE  HouseRows'
    BY <2>1, <1>1 DEF AdvanceByRider, AdvanceByRepair, AdvanceTo
  <2>2. ASSUME NEW d \in Deliveries, NEW e \in Deliveries, NEW r \in Riders,
               ReleaseClosedDelivery(d, e, r)
        PROVE  HouseRows'
    BY <2>2, <1>1 DEF ReleaseClosedDelivery
  <2>3. ASSUME NEW r \in Riders, NEW on \in BOOLEAN, NEW av \in BOOLEAN,
               UpsertRiderAvailability(r, on, av)
        PROVE  HouseRows'
    BY <2>3, <1>1 DEF UpsertRiderAvailability
  <2>4. ASSUME NEW d \in Deliveries, NEW r \in Riders,
               \/ \E next \in Active \cup {"delivered"} :
                    AdvanceByRider(d, r, next) \/ AdvanceByRepair(d, r, next)
               \/ \E e \in Deliveries : ReleaseClosedDelivery(d, e, r)
               \/ UpsertRestaurantOwnedOrder(d, r)
        PROVE  HouseRows'
    BY <2>4, <2>1, <2>2, <1>4, <1>5 DEF UpsertRestaurantOwnedOrder
  <2> QED BY <1>8, <2>3, <2>4 DEF LifecycleStep
<1>9. CASE Kitchen
  <2>1. ASSUME NEW d \in Food,
               (\E s \in OrderStatuses : KitchenMoves(d, s)) \/ WindowCloses(d)
        PROVE  HouseRows'
    BY <2>1, <1>1 DEF KitchenMoves, WindowCloses
  <2> QED BY <1>9, <1>6, <2>1 DEF Kitchen
<1>10. CASE UNCHANGED storeVars
  BY <1>10, <1>1 DEF storeVars
<1> QED BY <1>7, <1>8, <1>9, <1>10 DEF StoreNext

\* Every transaction keeps rows, orders and offers matching.
LEMMA MatchingKept ==
  ASSUME TypeOK, Agreement, [StoreNext]_storeVars
  PROVE  Matching'
<1> USE DEF Food, Platform, orderVars, deliveryVars, availVars, statements
<1>1. ASSUME UNCHANGED <<orderRider, orderView, deliveryVars, request>>
      PROVE  Matching'
  BY <1>1 DEF Agreement, Matching, UnassignedRowsSearch, OneRiderOnBothRows,
              AcceptedOfferIsTheHolder, HasOrder, CustomerSeesTheDelivery
<1>2. ASSUME NEW d \in Deliveries, CreateDeliveryOrder(d) PROVE Matching'
  BY <1>2, RowStepsAgree
  DEF CreateDeliveryOrder, DeliveryStatuses, Searching, Agreement, Matching, UnassignedRowsSearch
<1>3. ASSUME NEW d \in Deliveries, NEW s \in Searching, SetSearchStatus(d, s)
      PROVE  Matching'
  BY <1>3, RowStepsAgree DEF SetSearchStatus, Unassigned, DeliveryStatuses
<1>4. ASSUME NEW d \in Deliveries, NEW r \in Riders, OfferSelected(d, r)
      PROVE  Matching'
  BY <1>4, <1>1 DEF OfferSelected
<1>5. ASSUME NEW lost \in SUBSET offering, OffersRolledBack(lost) PROVE Matching'
  BY <1>5, <1>1 DEF OffersRolledBack
<1>6. CASE SearchesSelected
  BY <1>6, <1>1 DEF SearchesSelected
<1>7. CASE DispatchStep
  <2>1. ASSUME NEW d \in Deliveries, NEW r \in Riders,
               \/ OfferSelected(d, r)
               \/ OfferInserted(d, r)
               \/ RejectRequest(d, r)
               \/ AcceptRequest(d, r)
               \/ WithdrawFoodDelivery(d, r)
        PROVE  Matching'
    BY <2>1, <1>4, OfferStepsAgree, AcceptAgrees, WithdrawAgrees
  <2> QED
    BY <1>7, <2>1, <1>2, <1>3, <1>6, <1>5, ExpiryAgrees, SearchesExpiredAgree DEF DispatchStep
<1>8. CASE LifecycleStep
  <2>1. ASSUME NEW d \in Deliveries, NEW r \in Riders,
               NEW next \in Active \cup {"delivered"},
               AdvanceByRider(d, r, next) \/ AdvanceByRepair(d, r, next)
        PROVE  Matching'
    BY <2>1, AdvanceAgrees DEF AdvanceByRider, AdvanceByRepair
  <2>2. ASSUME NEW d \in Deliveries, NEW e \in Deliveries, NEW r \in Riders,
               ReleaseClosedDelivery(d, e, r)
        PROVE  Matching'
    BY <2>2, RowStepsAgree DEF ReleaseClosedDelivery, DeliveryStatuses
  <2>3. ASSUME NEW r \in Riders, NEW on \in BOOLEAN, NEW av \in BOOLEAN,
               UpsertRiderAvailability(r, on, av)
        PROVE  Matching'
    BY <2>3, <1>1 DEF UpsertRiderAvailability
  <2>4. ASSUME NEW d \in Deliveries, NEW r \in Riders,
               OwnOrderSelected(d, r) \/ OwnOrderDropped(d, r)
        PROVE  Matching'
    BY <2>4, <1>1 DEF OwnOrderSelected, OwnOrderDropped
  <2>5. ASSUME NEW d \in Deliveries, NEW r \in Riders,
               \/ \E next \in Active \cup {"delivered"} :
                    AdvanceByRider(d, r, next) \/ AdvanceByRepair(d, r, next)
               \/ \E e \in Deliveries : ReleaseClosedDelivery(d, e, r)
               \/ UpsertRestaurantOwnedOrder(d, r)
        PROVE  Matching'
    BY <2>5, <2>1, <2>2, <2>4, UpsertAgrees DEF UpsertRestaurantOwnedOrder
  <2> QED BY <1>8, <2>3, <2>5 DEF LifecycleStep
<1>9. CASE Kitchen
  <2>1. ASSUME NEW d \in Food, NEW s \in OrderStatuses,
               KitchenMoves(d, s)
        PROVE  Matching'
    BY <2>1, <1>1 DEF KitchenMoves
  <2>2. ASSUME NEW d \in Food, NEW r \in OwnRiders, KitchenAssignsOwnRider(d, r)
        PROVE  Matching'
    <3>1. /\ orderRider' = [orderRider EXCEPT ![d] = r]
          /\ orderRider[d] \notin Platform
          /\ UNCHANGED <<orderView, deliveryVars, request>>
      BY <2>2, StoreAssumption DEF KitchenAssignsOwnRider, StoreAssumption
    <3>2. OneRiderOnBothRows'
      BY <3>1 DEF Agreement, Matching, OneRiderOnBothRows, TypeOK
    <3> QED
      BY <3>1, <3>2 DEF Agreement, Matching, UnassignedRowsSearch, AcceptedOfferIsTheHolder, HasOrder,
                        CustomerSeesTheDelivery
  <2>3. ASSUME NEW d \in Food, WindowCloses(d) PROVE Matching'
    BY <2>3, <1>1 DEF WindowCloses
  <2> QED BY <1>9, <2>1, <2>2, <2>3 DEF Kitchen
<1>10. CASE UNCHANGED storeVars
  BY <1>10, <1>1 DEF storeVars
<1> QED BY <1>7, <1>8, <1>9, <1>10 DEF StoreNext

\* Every transaction keeps the agreement.
LEMMA AgreementKept ==
  ASSUME TypeOK, Agreement, [StoreNext]_storeVars
  PROVE  Agreement'
BY MatchingKept, HouseRowsKept DEF Agreement

\* An upsert finds a row that is the restaurant's, or one that nobody has.
LEMMA UpsertFinds ==
  ASSUME TypeOK, Agreement, NEW d \in Deliveries, NEW r \in Riders,
         OwnOrderUpserted(d, r)
  PROVE  \/ restaurantOwned[d]
         \/ /\ assignedRider[d] = NoRider
            /\ deliveryStatus[d] \in Searching \cup {"absent"}
<1>1. d \in Food /\ r \in OwnRiders /\ <<d, r>> \in upserting
  BY DEF OwnOrderUpserted, TypeOK
<1>2. CASE ~restaurantOwned[d]
  <2>1. orderRider[d] \in OwnRiders /\ assignedRider[d] \notin OwnRiders
    BY <1>1, <1>2 DEF Agreement, HouseRows, Food
  <2>2. assignedRider[d] \notin Platform
    BY <1>1, <2>1 DEF Agreement, Matching, OneRiderOnBothRows, Platform
  <2>3. assignedRider[d] = NoRider
    BY <2>1, <2>2 DEF TypeOK, Platform
  <2> QED BY <2>3 DEF Agreement, Matching, UnassignedRowsSearch
<1> QED BY <1>2

\* At every moment the two rows name the same platform rider, unless a late
\* upsert put the restaurant's on its own row; the accepted offer is that of the
\* platform rider who has the order, and the customer reads the status of the
\* delivery.
THEOREM RidersAgree ==
  StoreSpec => [](/\ OneRiderOnBothRows
                  /\ AcceptedOfferIsTheHolder
                  /\ CustomerSeesTheDelivery)
<1>1. Agreement => /\ OneRiderOnBothRows
                   /\ AcceptedOfferIsTheHolder
                   /\ CustomerSeesTheDelivery
  BY DEF Agreement, Matching
<1> QED BY <1>1, AgreementInit, AgreementKept, Typing, PTL DEF StoreSpec

\* The offer marked accepted is the record of the platform rider who has the
\* order, a late upsert notwithstanding.
THEOREM AcceptedOfferHolds == StoreSpec => []AcceptedOfferIsTheHolder
BY RidersAgree, PTL

\* While a platform rider has the delivery, the order shows its status.
THEOREM CustomerSees == StoreSpec => []CustomerSeesTheDelivery
BY RidersAgree, PTL

-----------------------------------------------------------------------------
(* The delivery and the order.  These hold while nobody moves an order     *)
(* back: an owner who overrides a status can undo any of them.             *)

\* An order in status delivered has its delivered_at, so that it still counts
\* as delivered when the owner completes it.
DeliveredIsStamped == \A d \in Food : orderStatus[d] = "delivered" => deliveredAt[d]

OrderLeads == CanonicalOrderFirst /\ DeliveredIsStamped

\* An order that reached its customer or was closed stays so, and no order
\* goes back to the kitchen.
LEMMA OrdersKeepTheirEnd ==
  ASSUME TypeOK, DeliveredIsStamped, OrdersMoveForward,
         NEW d \in Food, NEW status \in OrderStatuses, KitchenMoves(d, status)
  PROVE  /\ DeliveredIsStamped'
         /\ \A e \in Food : /\ Fulfilled(e) => Fulfilled(e)'
                            /\ Closed(e) => Closed(e)'
                            /\ orderStatus'[e] \in {"preparing", "ready"}
                                 => orderStatus[e] \in {"preparing", "ready"}
<1>1. /\ orderStatus' = [orderStatus EXCEPT ![d] = status]
      /\ deliveredAt' = [deliveredAt EXCEPT ![d] = deliveredAt[d] \/ status = "delivered"]
  BY DEF KitchenMoves
<1>2. <<orderStatus[d], status>> \in ForwardSteps
  BY DEF KitchenMoves, OrdersMoveForward
<1>3. /\ orderStatus[d] \notin {"completed", "cancelled"}
      /\ status \notin {"preparing"}
      /\ status = "ready" => orderStatus[d] = "preparing"
      /\ orderStatus[d] = "delivered" => status = "completed"
  BY <1>2 DEF ForwardSteps
<1>4. ASSUME NEW e \in Food
      PROVE  /\ orderStatus'[e] = IF e = d THEN status ELSE orderStatus[e]
             /\ deliveredAt'[e] = IF e = d THEN deliveredAt[e] \/ status = "delivered"
                                           ELSE deliveredAt[e]
  BY <1>1 DEF TypeOK
<1>5. DeliveredIsStamped'
  BY <1>4 DEF DeliveredIsStamped
<1>6. ASSUME NEW e \in Food
      PROVE  /\ Fulfilled(e) => Fulfilled(e)'
             /\ Closed(e) => Closed(e)'
             /\ orderStatus'[e] \in {"preparing", "ready"}
                  => orderStatus[e] \in {"preparing", "ready"}
  <2>1. CASE e = d
    BY <2>1, <1>3, <1>4 DEF Fulfilled, Closed, DeliveredIsStamped
  <2>2. CASE e # d
    BY <2>2, <1>4 DEF Fulfilled, Closed
  <2> QED BY <2>1, <2>2
<1> QED BY <1>5, <1>6

\* What a rider or the repair sweep advances is under way, or was cancelled
\* and is now settled as delivered: never a delivery that is done.
LEMMA AdvanceFromUnderWay ==
  ASSUME TypeOK, Agreement, OrderLeads,
         NEW d \in Deliveries, NEW r \in Riders, NEW next \in Active \cup {"delivered"},
         AdvanceByRider(d, r, next) \/ AdvanceByRepair(d, r, next)
  PROVE  /\ AdvanceTo(d, r, next)
         /\ \/ deliveryStatus[d] \in Active
            \/ deliveryStatus[d] = "cancelled" /\ next = "delivered"
<1>1. AdvanceTo(d, r, next)
  BY DEF AdvanceByRider, AdvanceByRepair
<1>2. CASE AdvanceByRider(d, r, next)
  BY <1>1, <1>2 DEF AdvanceByRider, RiderStep, Active
<1>3. CASE AdvanceByRepair(d, r, next)
  <2>1. /\ d \in Food /\ assignedRider[d] = r /\ deliveryStatus[d] # next
        /\ OrderAllows(d, next) /\ next \in {"picked_up", "delivered"}
    BY <1>3 DEF AdvanceByRepair, AdvanceTo
  <2>2. deliveryStatus[d] \in Active \cup {"delivered", "cancelled"}
    BY <2>1, StoreAssumption
    DEF StoreAssumption, Agreement, Matching, UnassignedRowsSearch, TypeOK, DeliveryStatuses
  <2>3. CASE next = "picked_up"
    <3>1. orderStatus[d] = "out_for_delivery"
      BY <2>1, <2>3 DEF OrderAllows
    <3> QED
      BY <2>1, <2>2, <3>1, <1>1 DEF OrderLeads, CanonicalOrderFirst, Fulfilled, Closed
  <2>4. CASE next = "delivered"
    BY <2>1, <2>2, <2>4, <1>1
  <2> QED BY <2>1, <2>3, <2>4
<1> QED BY <1>2, <1>3

\* A step that leaves the orders alone keeps the progress if the rows it moves
\* are where their orders allow.
LEMMA RowStepsProgress ==
  ASSUME TypeOK, OrderLeads, UNCHANGED <<orderStatus, deliveredAt>>,
         NEW d \in Deliveries, NEW status,
         deliveryStatus' = [deliveryStatus EXCEPT ![d] = status],
         d \in Food => /\ status \in {"picked_up", "on_the_way"}
                            => orderStatus[d] \notin {"preparing", "ready"}
                       /\ status = "delivered" => Fulfilled(d)
                       /\ status = "cancelled" => Closed(d)
  PROVE  OrderLeads'
<1>1. ASSUME NEW e \in Food
      PROVE  /\ deliveryStatus'[e] = IF e = d THEN status ELSE deliveryStatus[e]
             /\ Fulfilled(e)' <=> Fulfilled(e)
             /\ Closed(e)' <=> Closed(e)
  BY DEF TypeOK, Food, Fulfilled, Closed
<1>2. CanonicalOrderFirst'
  BY <1>1 DEF OrderLeads, CanonicalOrderFirst
<1> QED BY <1>2 DEF OrderLeads, DeliveredIsStamped

\* Every transaction keeps the delivery behind its order.
LEMMA ProgressKept ==
  ASSUME TypeOK, Agreement, OrderLeads, OrdersMoveForward, [StoreNext]_storeVars
  PROVE  OrderLeads'
<1> USE DEF orderVars, deliveryVars, availVars, statements
<1>1. ASSUME UNCHANGED <<orderStatus, deliveredAt, deliveryStatus>> PROVE OrderLeads'
  BY <1>1 DEF OrderLeads, CanonicalOrderFirst, DeliveredIsStamped, Fulfilled, Closed
<1>2. CASE DispatchStep
  <2>1. ASSUME NEW d \in Deliveries, CreateDeliveryOrder(d) PROVE OrderLeads'
    BY <2>1, RowStepsProgress DEF CreateDeliveryOrder
  <2>2. ASSUME NEW d \in Deliveries, NEW s \in Searching, SetSearchStatus(d, s)
        PROVE  OrderLeads'
    BY <2>2, RowStepsProgress DEF SetSearchStatus, Searching
  <2>3. ASSUME NEW d \in Deliveries, NEW r \in Riders, AcceptRequest(d, r)
        PROVE  OrderLeads'
    BY <2>3, RowStepsProgress DEF AcceptRequest
  <2>4. ASSUME NEW d \in Deliveries, NEW r \in Riders, WithdrawFoodDelivery(d, r)
        PROVE  OrderLeads'
    BY <2>4, RowStepsProgress DEF WithdrawFoodDelivery
  <2>5. ASSUME NEW d \in Deliveries, NEW r \in Riders,
               OfferSelected(d, r) \/ OfferInserted(d, r) \/ RejectRequest(d, r)
        PROVE  OrderLeads'
    BY <2>5, <1>1 DEF OfferSelected, OfferInserted, RejectRequest
  <2>6. ASSUME NEW pairs,
               \/ ExpirePendingRequests(pairs)
               \/ OffersRolledBack(pairs)
               \/ SearchesSelected
               \/ SearchesExpired
        PROVE  OrderLeads'
    BY <2>6, <1>1
    DEF ExpirePendingRequests, OffersRolledBack, SearchesSelected, SearchesExpired
  <2> QED BY <1>2, <2>1, <2>2, <2>3, <2>4, <2>5, <2>6 DEF DispatchStep
<1>3. CASE LifecycleStep
  <2>1. ASSUME NEW d \in Deliveries, NEW r \in Riders,
               NEW next \in Active \cup {"delivered"},
               AdvanceByRider(d, r, next) \/ AdvanceByRepair(d, r, next)
        PROVE  OrderLeads'
    <3>1. AdvanceTo(d, r, next)
      BY <2>1 DEF AdvanceByRider, AdvanceByRepair
    <3>2. d \in Food => /\ next \in {"picked_up", "on_the_way"}
                             => orderStatus[d] \notin {"preparing", "ready"}
                        /\ next = "delivered" => Fulfilled(d)
                        /\ next # "cancelled"
      BY <3>1 DEF AdvanceTo, OrderAllows, Active
    <3> QED BY <3>1, <3>2, RowStepsProgress DEF AdvanceTo
  <2>2. ASSUME NEW d \in Deliveries, NEW e \in Deliveries, NEW r \in Riders,
               ReleaseClosedDelivery(d, e, r)
        PROVE  OrderLeads'
    <3>1. d \in Food => Closed(d)
      BY <2>2, StoreAssumption DEF ReleaseClosedDelivery, StoreAssumption, Food
    <3> QED BY <2>2, <3>1, RowStepsProgress DEF ReleaseClosedDelivery
  <2>3. ASSUME NEW d \in Deliveries, NEW r \in Riders,
               OwnOrderSelected(d, r) \/ OwnOrderDropped(d, r)
        PROVE  OrderLeads'
    BY <2>3, <1>1 DEF OwnOrderSelected, OwnOrderDropped
  <2>4. ASSUME NEW d \in Deliveries, NEW r \in Riders, OwnOrderUpserted(d, r)
        PROVE  OrderLeads'
    <3>1. CASE assignedRider[d] = r /\ deliveryStatus[d] \in Active \cup {"delivered"}
      BY <2>4, <3>1, <1>1 DEF OwnOrderUpserted
    <3>2. CASE ~(assignedRider[d] = r /\ deliveryStatus[d] \in Active \cup {"delivered"})
      BY <2>4, <3>2, RowStepsProgress DEF OwnOrderUpserted
    <3> QED BY <3>1, <3>2
  <2>5. ASSUME NEW r \in Riders, NEW on \in BOOLEAN, NEW av \in BOOLEAN,
               UpsertRiderAvailability(r, on, av)
        PROVE  OrderLeads'
    BY <2>5, <1>1 DEF UpsertRiderAvailability
  <2>6. ASSUME NEW d \in Deliveries, NEW r \in Riders,
               \/ \E next \in Active \cup {"delivered"} :
                    AdvanceByRider(d, r, next) \/ AdvanceByRepair(d, r, next)
               \/ \E e \in Deliveries : ReleaseClosedDelivery(d, e, r)
               \/ UpsertRestaurantOwnedOrder(d, r)
        PROVE  OrderLeads'
    BY <2>6, <2>1, <2>2, <2>4, <2>3 DEF UpsertRestaurantOwnedOrder
  <2> QED BY <1>3, <2>5, <2>6 DEF LifecycleStep
<1>4. CASE Kitchen
  <2>1. ASSUME NEW d \in Food, NEW s \in OrderStatuses, KitchenMoves(d, s)
        PROVE  OrderLeads'
    <3>1. UNCHANGED deliveryStatus
      BY <2>1 DEF KitchenMoves
    <3>2. DeliveredIsStamped
      BY DEF OrderLeads
    <3>3. /\ DeliveredIsStamped'
          /\ \A e \in Food : /\ Fulfilled(e) => Fulfilled(e)'
                             /\ Closed(e) => Closed(e)'
                             /\ orderStatus'[e] \in {"preparing", "ready"}
                                  => orderStatus[e] \in {"preparing", "ready"}
      BY <2>1, <3>2, OrdersKeepTheirEnd
    <3> QED BY <3>1, <3>3 DEF OrderLeads, CanonicalOrderFirst
  <2>2. ASSUME NEW d \in Food,
               (\E r \in OwnRiders : KitchenAssignsOwnRider(d, r)) \/ WindowCloses(d)
        PROVE  OrderLeads'
    BY <2>2, <1>1 DEF KitchenAssignsOwnRider, WindowCloses
  <2> QED BY <1>4, <2>1, <2>2 DEF Kitchen
<1>5. CASE UNCHANGED storeVars
  BY <1>5, <1>1 DEF storeVars
<1> QED BY <1>2, <1>3, <1>4, <1>5 DEF StoreNext

\* The first rows are where their orders allow.
LEMMA OrderLeadsInit == StoreInit => OrderLeads
BY DEF StoreInit, OrderLeads, CanonicalOrderFirst, DeliveredIsStamped, Food

\* What the table keeps while orders only move forward.
LEMMA ProgressInvariant ==
  ASSUME OrdersMoveForward
  PROVE  StoreSpec => [](TypeOK /\ Agreement /\ OrderLeads)
<1>1. StoreInit => TypeOK /\ Agreement /\ OrderLeads
  BY TypeInit, AgreementInit, OrderLeadsInit
<1>2. TypeOK /\ Agreement /\ OrderLeads /\ [StoreNext]_storeVars
        => (TypeOK /\ Agreement /\ OrderLeads)'
  BY StoreTypes, AgreementKept, ProgressKept, OrdersMoveForward
<1> QED BY <1>1, <1>2, PTL DEF StoreSpec

\* No delivery is ahead of its order, none is delivered that its order does not
\* show as delivered, and none is cancelled while its order is open.
THEOREM OrderComesFirst ==
  ASSUME OrdersMoveForward
  PROVE  StoreSpec => []CanonicalOrderFirst
<1>1. OrderLeads => CanonicalOrderFirst
  BY DEF OrderLeads
<1> QED BY <1>1, ProgressInvariant, OrdersMoveForward, PTL

-----------------------------------------------------------------------------
(* What the rider is paid.                                                 *)

\* A step that books nothing and moves no delivery into or out of delivered
\* leaves the earnings as they should be.
LEMMA NothingBooked ==
  ASSUME PaidExactlyOnce, UNCHANGED earnings,
         \A d \in Deliveries :
           \/ UNCHANGED <<deliveryStatus[d], assignedRider[d], restaurantOwned[d]>>
           \/ deliveryStatus[d] # "delivered" /\ deliveryStatus'[d] # "delivered"
  PROVE  PaidExactlyOnce'
BY DEF PaidExactlyOnce

\* The step to delivered books the earning that is then due, once.
LEMMA AdvanceBooks ==
  ASSUME TypeOK, Agreement, OrderLeads, PaidExactlyOnce,
         NEW d \in Deliveries, NEW r \in Riders, NEW next \in Active \cup {"delivered"},
         AdvanceByRider(d, r, next) \/ AdvanceByRepair(d, r, next)
  PROVE  PaidExactlyOnce'
<1>1. /\ AdvanceTo(d, r, next)
      /\ deliveryStatus[d] # "delivered"
  BY AdvanceFromUnderWay DEF Active
<1>2. /\ assignedRider[d] = r
      /\ deliveryStatus' = [deliveryStatus EXCEPT ![d] = next]
      /\ UNCHANGED <<assignedRider, restaurantOwned>>
  BY <1>1 DEF AdvanceTo
<1>3. CASE next # "delivered"
  <2>1. UNCHANGED earnings
    BY <1>1, <1>3 DEF AdvanceTo
  <2> QED BY <1>1, <1>2, <1>3, <2>1, NothingBooked DEF TypeOK
<1>4. CASE next = "delivered" /\ restaurantOwned[d]
  <2>1. UNCHANGED earnings
    BY <1>1, <1>4 DEF AdvanceTo
  <2> QED BY <1>1, <1>2, <1>4, <2>1 DEF PaidExactlyOnce, TypeOK
<1>5. CASE next = "delivered" /\ ~restaurantOwned[d]
  <2>1. earnings' = [earnings EXCEPT ![d][r] = earnings[d][r] + 1]
    BY <1>1, <1>5 DEF AdvanceTo
  <2>2. \A q \in Riders : earnings[d][q] = 0
    BY <1>1 DEF PaidExactlyOnce
  <2>3. ASSUME NEW e \in Deliveries, NEW q \in Riders
        PROVE  earnings'[e][q] = IF e = d /\ q = r THEN 1 ELSE earnings[e][q]
    BY <2>1, <2>2 DEF TypeOK
  <2>4. ASSUME NEW e \in Deliveries
        PROVE  deliveryStatus'[e] = IF e = d THEN next ELSE deliveryStatus[e]
    BY <1>2 DEF TypeOK
  <2> QED BY <1>2, <1>5, <2>2, <2>3, <2>4 DEF PaidExactlyOnce
<1> QED BY <1>3, <1>4, <1>5

\* Every transaction leaves the earnings as they should be.
LEMMA PaidKept ==
  ASSUME TypeOK, Agreement, OrderLeads, PaidExactlyOnce, [StoreNext]_storeVars
  PROVE  PaidExactlyOnce'
<1> USE DEF orderVars, deliveryVars, availVars, statements
<1>1. ASSUME UNCHANGED <<deliveryVars, earnings>> PROVE PaidExactlyOnce'
  BY <1>1 DEF PaidExactlyOnce
<1>2. ASSUME NEW d \in Deliveries, NEW status,
             deliveryStatus' = [deliveryStatus EXCEPT ![d] = status],
             deliveryStatus[d] # "delivered", status # "delivered",
             UNCHANGED earnings,
             \A e \in Deliveries \ {d} : UNCHANGED <<assignedRider[e], restaurantOwned[e]>>
      PROVE  PaidExactlyOnce'
  BY <1>2, NothingBooked DEF TypeOK
<1>3. CASE DispatchStep
  <2>1. ASSUME NEW d \in Deliveries,
               CreateDeliveryOrder(d) \/ \E s \in Searching : SetSearchStatus(d, s)
        PROVE  PaidExactlyOnce'
    BY <2>1, <1>2 DEF CreateDeliveryOrder, SetSearchStatus, Unassigned, Searching
  <2>2. ASSUME NEW d \in Deliveries, NEW r \in Riders, AcceptRequest(d, r)
        PROVE  PaidExactlyOnce'
    <3>1. deliveryStatus[d] # "delivered"
      BY <2>2 DEF AcceptRequest, Agreement, Matching, UnassignedRowsSearch, Searching
    <3> QED BY <2>2, <3>1, <1>2 DEF AcceptRequest, TypeOK
  <2>3. ASSUME NEW d \in Deliveries, NEW r \in Riders, WithdrawFoodDelivery(d, r)
        PROVE  PaidExactlyOnce'
    BY <2>3, <1>2 DEF WithdrawFoodDelivery, TypeOK
  <2>4. ASSUME NEW d \in Deliveries, NEW r \in Riders,
               OfferSelected(d, r) \/ OfferInserted(d, r) \/ RejectRequest(d, r)
        PROVE  PaidExactlyOnce'
    BY <2>4, <1>1 DEF OfferSelected, OfferInserted, RejectRequest
  <2>5. ASSUME NEW pairs,
               \/ ExpirePendingRequests(pairs)
               \/ OffersRolledBack(pairs)
               \/ SearchesSelected
               \/ SearchesExpired
        PROVE  PaidExactlyOnce'
    BY <2>5, <1>1
    DEF ExpirePendingRequests, OffersRolledBack, SearchesSelected, SearchesExpired
  <2> QED BY <1>3, <2>1, <2>2, <2>3, <2>4, <2>5 DEF DispatchStep
<1>4. CASE LifecycleStep
  <2>1. ASSUME NEW d \in Deliveries, NEW e \in Deliveries, NEW r \in Riders,
               ReleaseClosedDelivery(d, e, r)
        PROVE  PaidExactlyOnce'
    BY <2>1, <1>2 DEF ReleaseClosedDelivery, Active
  <2>2. ASSUME NEW d \in Deliveries, NEW r \in Riders, OwnOrderUpserted(d, r)
        PROVE  PaidExactlyOnce'
    <3>1. /\ assignedRider' = [assignedRider EXCEPT ![d] = r]
          /\ restaurantOwned' = [restaurantOwned EXCEPT ![d] = TRUE]
          /\ UNCHANGED earnings
          /\ \/ UNCHANGED deliveryStatus
             \/ deliveryStatus' = [deliveryStatus EXCEPT ![d] = "rider_assigned"]
      BY <2>2 DEF OwnOrderUpserted
    <3>2. CASE restaurantOwned[d]
      <4>1. \A q \in Riders : earnings[d][q] = 0
        BY <3>2 DEF PaidExactlyOnce
      <4> QED BY <3>1, <3>2, <4>1 DEF PaidExactlyOnce, TypeOK
    <3>3. CASE deliveryStatus[d] \in Searching \cup {"absent"}
      BY <3>1, <3>3, NothingBooked DEF TypeOK, Searching
    <3> QED BY <2>2, <3>2, <3>3, UpsertFinds
  <2>3. ASSUME NEW d \in Deliveries, NEW r \in Riders,
               OwnOrderSelected(d, r) \/ OwnOrderDropped(d, r)
        PROVE  PaidExactlyOnce'
    BY <2>3, <1>1 DEF OwnOrderSelected, OwnOrderDropped
  <2>4. ASSUME NEW r \in Riders, NEW on \in BOOLEAN, NEW av \in BOOLEAN,
               UpsertRiderAvailability(r, on, av)
        PROVE  PaidExactlyOnce'
    BY <2>4, <1>1 DEF UpsertRiderAvailability
  <2>5. ASSUME NEW d \in Deliveries, NEW r \in Riders,
               \/ \E next \in Active \cup {"delivered"} :
                    AdvanceByRider(d, r, next) \/ AdvanceByRepair(d, r, next)
               \/ \E e \in Deliveries : ReleaseClosedDelivery(d, e, r)
               \/ UpsertRestaurantOwnedOrder(d, r)
        PROVE  PaidExactlyOnce'
    BY <2>5, <2>1, <2>2, <2>3, AdvanceBooks DEF UpsertRestaurantOwnedOrder
  <2> QED BY <1>4, <2>4, <2>5 DEF LifecycleStep
<1>5. CASE Kitchen \/ UNCHANGED storeVars
  BY <1>5, <1>1 DEF storeVars, Kitchen, KitchenMoves, KitchenAssignsOwnRider, WindowCloses
<1> QED BY <1>3, <1>4, <1>5 DEF StoreNext

\* Whatever is retried, repaired, released or handed to an own rider, a platform
\* rider is credited once for what he delivered and for nothing else.
THEOREM EarningsExact ==
  ASSUME OrdersMoveForward
  PROVE  StoreSpec => []PaidExactlyOnce
<1>1. StoreInit => PaidExactlyOnce
  BY DEF StoreInit, PaidExactlyOnce
<1>2. (TypeOK /\ Agreement /\ OrderLeads) /\ PaidExactlyOnce /\ [StoreNext]_storeVars
        => PaidExactlyOnce'
  BY PaidKept
<1> QED BY <1>1, <1>2, ProgressInvariant, OrdersMoveForward, PTL DEF StoreSpec

-----------------------------------------------------------------------------
(* What a rider has in hand.  rider_availability holds the number of an    *)
(* order and not its type, so that this needs numbers not shared by a food *)
(* and a grocery order.                                                    *)

Carries(d, r) == assignedRider[d] = r /\ deliveryStatus[d] \in Active

\* The row of a rider names the one delivery he carries, and a rider whose row
\* names an order takes no other.
Workload ==
  /\ \A d \in Deliveries, r \in Platform : Carries(d, r) => currentOrder[r] = OrderId[d]
  /\ \A r \in Riders : isAvailable[r] => currentOrder[r] = NoOrder

\* A platform rider carries one delivery at a time.
LEMMA CarriesOne ==
  ASSUME Workload, NoSharedIds, NEW d \in Deliveries, NEW e \in Deliveries,
         NEW r \in Platform, Carries(d, r), Carries(e, r)
  PROVE  d = e
BY DEF Workload, NoSharedIds

\* A rider whose row names no order carries nothing.
LEMMA FreeCarriesNothing ==
  ASSUME Workload, NEW r \in Platform, currentOrder[r] = NoOrder, NEW d \in Deliveries
  PROVE  ~Carries(d, r)
BY StoreAssumption DEF Workload, StoreAssumption

\* A step that leaves the riders' rows alone gives no platform rider anything
\* to carry.
LEMMA NobodyTakes ==
  ASSUME TypeOK, Workload, UNCHANGED <<currentOrder, isAvailable>>,
         \A e \in Deliveries, q \in Platform : Carries(e, q)' => Carries(e, q)
  PROVE  Workload'
BY DEF Workload

\* Freeing the rider of a delivery that is no longer under way frees nobody who
\* carries another one.
LEMMA FreeingKeepsWorkload ==
  ASSUME TypeOK, Workload, NoSharedIds,
         NEW d \in Deliveries, NEW r \in Riders, NEW available \in BOOLEAN,
         FreeRider(r, OrderId[d], available),
         \A q \in Platform : ~Carries(d, q)',
         \A e \in Deliveries, q \in Platform : Carries(e, q)' => Carries(e, q)
  PROVE  Workload'
<1>1. ASSUME NEW q \in Riders
      PROVE  \/ currentOrder'[q] = currentOrder[q] /\ isAvailable'[q] = isAvailable[q]
             \/ q = r /\ currentOrder[q] = OrderId[d] /\ currentOrder'[q] = NoOrder
  <2>1. CASE currentOrder[r] = OrderId[d]
    BY <2>1 DEF FreeRider, TypeOK
  <2>2. CASE currentOrder[r] # OrderId[d]
    BY <2>2 DEF FreeRider
  <2> QED BY <2>1, <2>2
<1>2. ASSUME NEW e \in Deliveries, NEW q \in Platform, Carries(e, q)'
      PROVE  currentOrder'[q] = OrderId[e]
  <2>1. e # d /\ Carries(e, q)
    BY <1>2
  <2>2. currentOrder[q] = OrderId[e] /\ OrderId[e] # OrderId[d]
    BY <2>1 DEF Workload, NoSharedIds
  <2> QED BY <1>1, <2>2 DEF Platform
<1> QED BY <1>1, <1>2 DEF Workload

\* The rider who accepts carried nothing, and now has the order on his row.
LEMMA AcceptKeepsWorkload ==
  ASSUME TypeOK, Workload, NEW d \in Deliveries, NEW r \in Riders, AcceptRequest(d, r)
  PROVE  Workload'
<1>1. /\ r \in Platform /\ currentOrder[r] = NoOrder
      /\ assignedRider' = [assignedRider EXCEPT ![d] = r]
      /\ deliveryStatus' = [deliveryStatus EXCEPT ![d] = "rider_assigned"]
      /\ isAvailable' = [isAvailable EXCEPT ![r] = FALSE]
      /\ currentOrder' = [currentOrder EXCEPT ![r] = OrderId[d]]
  BY DEF AcceptRequest, RiderEligible
<1>2. ASSUME NEW e \in Deliveries, NEW q \in Platform, Carries(e, q)'
      PROVE  currentOrder'[q] = OrderId[e]
  <2>1. CASE e = d
    BY <1>1, <1>2, <2>1 DEF Carries, TypeOK
  <2>2. CASE e # d
    <3>1. Carries(e, q)
      BY <1>1, <1>2, <2>2 DEF Carries, TypeOK
    <3>2. q # r
      BY <1>1, <3>1, FreeCarriesNothing
    <3> QED BY <1>1, <3>1, <3>2 DEF Workload, TypeOK, Platform
  <2> QED BY <2>1, <2>2
<1>3. ASSUME NEW q \in Riders, isAvailable'[q] PROVE currentOrder'[q] = NoOrder
  BY <1>1, <1>3 DEF Workload, TypeOK
<1> QED BY <1>2, <1>3 DEF Workload

\* Every transaction keeps the riders' rows with what they carry.
LEMMA WorkloadKept ==
  ASSUME TypeOK, Agreement, OrderLeads, Workload, NoSharedIds, [StoreNext]_storeVars
  PROVE  Workload'
<1> USE DEF orderVars, deliveryVars, availVars, statements
<1>1. ASSUME UNCHANGED <<deliveryStatus, assignedRider, currentOrder, isAvailable>>
      PROVE  Workload'
  BY <1>1 DEF Workload, Carries
<1>2. CASE DispatchStep
  <2>1. ASSUME NEW d \in Deliveries,
               CreateDeliveryOrder(d) \/ \E s \in Searching : SetSearchStatus(d, s)
        PROVE  Workload'
    <3>1. PICK s \in Searching :
            /\ deliveryStatus' = [deliveryStatus EXCEPT ![d] = s]
            /\ UNCHANGED <<assignedRider, currentOrder, isAvailable>>
      BY <2>1 DEF CreateDeliveryOrder, SetSearchStatus, Searching
    <3>2. \A e \in Deliveries, q \in Platform : Carries(e, q)' => Carries(e, q)
      BY <3>1 DEF Carries, TypeOK, Searching, Active
    <3> QED BY <3>1, <3>2, NobodyTakes
  <2>2. ASSUME NEW d \in Deliveries, NEW r \in Riders, WithdrawFoodDelivery(d, r)
        PROVE  Workload'
    <3>1. /\ assignedRider' = [assignedRider EXCEPT ![d] = NoRider]
          /\ deliveryStatus' = [deliveryStatus EXCEPT ![d] = "rider_searching"]
          /\ FreeRider(r, OrderId[d], isOnline[r])
          /\ isOnline[r] \in BOOLEAN
      BY <2>2 DEF WithdrawFoodDelivery, TypeOK
    <3>2. /\ \A q \in Platform : ~Carries(d, q)'
          /\ \A e \in Deliveries, q \in Platform : Carries(e, q)' => Carries(e, q)
      BY <3>1 DEF Carries, TypeOK, Active
    <3> QED BY <3>1, <3>2, FreeingKeepsWorkload
  <2>3. ASSUME NEW d \in Deliveries, NEW r \in Riders,
               OfferSelected(d, r) \/ OfferInserted(d, r) \/ RejectRequest(d, r)
        PROVE  Workload'
    BY <2>3, <1>1 DEF OfferSelected, OfferInserted, RejectRequest
  <2>4. ASSUME NEW pairs,
               \/ ExpirePendingRequests(pairs)
               \/ OffersRolledBack(pairs)
               \/ SearchesSelected
               \/ SearchesExpired
        PROVE  Workload'
    BY <2>4, <1>1
    DEF ExpirePendingRequests, OffersRolledBack, SearchesSelected, SearchesExpired
  <2> QED BY <1>2, <2>1, <2>2, <2>3, <2>4, AcceptKeepsWorkload DEF DispatchStep
<1>3. CASE LifecycleStep
  <2>1. ASSUME NEW d \in Deliveries, NEW r \in Riders,
               NEW next \in Active \cup {"delivered"},
               AdvanceByRider(d, r, next) \/ AdvanceByRepair(d, r, next)
        PROVE  Workload'
    <3>1. /\ AdvanceTo(d, r, next)
          /\ deliveryStatus[d] \in Active \/ next = "delivered"
      BY <2>1, AdvanceFromUnderWay
    <3>2. /\ deliveryStatus' = [deliveryStatus EXCEPT ![d] = next]
          /\ UNCHANGED assignedRider
      BY <3>1 DEF AdvanceTo
    <3>3. \A e \in Deliveries, q \in Platform : Carries(e, q)' => Carries(e, q)
      BY <3>1, <3>2 DEF Carries, TypeOK, Active
    <3>4. CASE next = "delivered"
      <4>1. FreeRider(r, OrderId[d], isOnline[r]) /\ isOnline[r] \in BOOLEAN
        BY <3>1, <3>4 DEF AdvanceTo, TypeOK
      <4>2. \A q \in Platform : ~Carries(d, q)'
        BY <3>2, <3>4 DEF Carries, TypeOK, Active
      <4> QED BY <3>3, <4>1, <4>2, FreeingKeepsWorkload
    <3>5. CASE next # "delivered"
      BY <3>1, <3>3, <3>5, NobodyTakes DEF AdvanceTo
    <3> QED BY <3>4, <3>5
  <2>2. ASSUME NEW d \in Deliveries, NEW e \in Deliveries, NEW r \in Riders,
               ReleaseClosedDelivery(d, e, r)
        PROVE  Workload'
    <3>1. /\ deliveryStatus' = [deliveryStatus EXCEPT ![d] = "cancelled"]
          /\ UNCHANGED assignedRider
          /\ FreeRider(r, OrderId[d], TRUE)
      BY <2>2 DEF ReleaseClosedDelivery
    <3>2. /\ \A q \in Platform : ~Carries(d, q)'
          /\ \A f \in Deliveries, q \in Platform : Carries(f, q)' => Carries(f, q)
      BY <3>1 DEF Carries, TypeOK, Active
    <3> QED BY <3>1, <3>2, FreeingKeepsWorkload
  <2>3. ASSUME NEW d \in Deliveries, NEW r \in Riders,
               OwnOrderSelected(d, r) \/ OwnOrderDropped(d, r)
        PROVE  Workload'
    BY <2>3, <1>1 DEF OwnOrderSelected, OwnOrderDropped
  <2>4. ASSUME NEW d \in Deliveries, NEW r \in Riders, OwnOrderUpserted(d, r)
        PROVE  Workload'
    <3>1. /\ r \notin Platform
          /\ assignedRider' = [assignedRider EXCEPT ![d] = r]
          /\ \/ UNCHANGED deliveryStatus
             \/ deliveryStatus' = [deliveryStatus EXCEPT ![d] = "rider_assigned"]
          /\ UNCHANGED <<currentOrder, isAvailable>>
      BY <2>4 DEF OwnOrderUpserted, Platform, TypeOK
    <3>2. \A e \in Deliveries, q \in Platform : Carries(e, q)' => Carries(e, q)
      BY <3>1 DEF Carries, TypeOK
    <3> QED BY <3>1, <3>2, NobodyTakes
  <2>5. ASSUME NEW r \in Riders, NEW on \in BOOLEAN, NEW av \in BOOLEAN,
               UpsertRiderAvailability(r, on, av)
        PROVE  Workload'
    <3>1. /\ UNCHANGED <<deliveryStatus, assignedRider, currentOrder>>
          /\ \A q \in Riders : isAvailable'[q] => isAvailable[q] \/ currentOrder[q] = NoOrder
      BY <2>5 DEF UpsertRiderAvailability, TypeOK
    <3> QED BY <3>1 DEF Workload, Carries
  <2>6. ASSUME NEW d \in Deliveries, NEW r \in Riders,
               \/ \E next \in Active \cup {"delivered"} :
                    AdvanceByRider(d, r, next) \/ AdvanceByRepair(d, r, next)
               \/ \E e \in Deliveries : ReleaseClosedDelivery(d, e, r)
               \/ UpsertRestaurantOwnedOrder(d, r)
        PROVE  Workload'
    BY <2>6, <2>1, <2>2, <2>4, <2>3 DEF UpsertRestaurantOwnedOrder
  <2> QED BY <1>3, <2>5, <2>6 DEF LifecycleStep
<1>4. CASE Kitchen \/ UNCHANGED storeVars
  BY <1>4, <1>1 DEF storeVars, Kitchen, KitchenMoves, KitchenAssignsOwnRider, WindowCloses
<1> QED BY <1>2, <1>3, <1>4 DEF StoreNext

\* The riders' rows stay with what they carry.
LEMMA WorkloadInvariant ==
  ASSUME OrdersMoveForward, NoSharedIds
  PROVE  StoreSpec => []Workload
<1>1. StoreInit => Workload
  BY DEF StoreInit, Workload, Carries, Active
<1>2. (TypeOK /\ Agreement /\ OrderLeads) /\ Workload /\ [StoreNext]_storeVars => Workload'
  BY WorkloadKept, NoSharedIds
<1> QED BY <1>1, <1>2, ProgressInvariant, OrdersMoveForward, PTL DEF StoreSpec

\* The row of a platform rider on an active delivery names that order and is
\* not available, so that no search offers him another.
THEOREM HoldersBusy ==
  ASSUME OrdersMoveForward, NoSharedIds
  PROVE  StoreSpec => []HolderIsBusy
<1>1. Workload => HolderIsBusy
  <2> SUFFICES ASSUME Workload, NEW d \in Deliveries,
                      assignedRider[d] \in Platform, deliveryStatus[d] \in Active
               PROVE  /\ currentOrder[assignedRider[d]] = OrderId[d]
                      /\ ~isAvailable[assignedRider[d]]
    BY DEF HolderIsBusy
  <2>1. Carries(d, assignedRider[d])
    BY DEF Carries
  <2>2. currentOrder[assignedRider[d]] = OrderId[d] /\ OrderId[d] # NoOrder
    BY <2>1, StoreAssumption DEF Workload, StoreAssumption
  <2> QED BY <2>2 DEF Workload, Platform
<1> QED BY <1>1, WorkloadInvariant, OrdersMoveForward, NoSharedIds, PTL

\* No two active deliveries, food or grocery, have the same platform rider.
THEOREM OneDelivery ==
  ASSUME OrdersMoveForward, NoSharedIds
  PROVE  StoreSpec => []OneDeliveryEach
<1>1. Workload => OneDeliveryEach
  BY CarriesOne, NoSharedIds DEF OneDeliveryEach, Carries
<1> QED BY <1>1, WorkloadInvariant, OrdersMoveForward, NoSharedIds, PTL

-----------------------------------------------------------------------------
(* The tables keep the promise of Custody.                                 *)

stages == [d \in Deliveries |-> Stage(d)]
holders == [d \in Deliveries |-> assignedRider[d]]

\* The stage of a delivery changes with its status only.
LEMMA StageOf ==
  ASSUME NEW d \in Deliveries
  PROVE  /\ deliveryStatus[d] \in Active => Stage(d) = "held"
         /\ deliveryStatus[d] = "delivered" => Stage(d) = "delivered"
         /\ deliveryStatus[d] = "cancelled" => Stage(d) = "cancelled"
         /\ deliveryStatus[d] \in Searching \cup {"absent"} => Stage(d) = "open"
BY DEF Stage, Active, Searching

\* The same of the next state.
LEMMA StageThen ==
  ASSUME NEW d \in Deliveries
  PROVE  /\ deliveryStatus'[d] \in Active => Stage(d)' = "held"
         /\ deliveryStatus'[d] = "delivered" => Stage(d)' = "delivered"
         /\ deliveryStatus'[d] = "cancelled" => Stage(d)' = "cancelled"
         /\ deliveryStatus'[d] \in Searching \cup {"absent"} => Stage(d)' = "open"
BY DEF Stage, Active, Searching

\* Writing one row moves one delivery.
LEMMA RowMoves ==
  ASSUME TypeOK, NEW d \in Deliveries, NEW status, NEW s,
         deliveryStatus' = [deliveryStatus EXCEPT ![d] = status],
         Stage(d)' = s
  PROVE  stages' = [stages EXCEPT ![d] = s]
<1>1. ASSUME NEW e \in Deliveries, e # d PROVE Stage(e)' = Stage(e)
  BY <1>1 DEF Stage, TypeOK
<1> QED BY <1>1 DEF stages

\* Writing the rider of one row changes the holder of one delivery.
LEMMA HolderMoves ==
  ASSUME TypeOK, NEW d \in Deliveries, NEW r,
         assignedRider' = [assignedRider EXCEPT ![d] = r]
  PROVE  holders' = [holders EXCEPT ![d] = r]
BY DEF holders, TypeOK

\* A step that leaves every row in its stage is no step of Custody.
LEMMA CustodyStutters ==
  ASSUME \A d \in Deliveries : Stage(d)' = Stage(d),
         UNCHANGED <<assignedRider, restaurantOwned, earnings>>
  PROVE  UNCHANGED Promise!custodyVars
BY DEF Promise!custodyVars

\* Accepting takes an open delivery for a rider with empty hands.
LEMMA AcceptTakes ==
  ASSUME TypeOK, Agreement, Workload,
         NEW d \in Deliveries, NEW r \in Riders, AcceptRequest(d, r)
  PROVE  Promise!Take(d, r)
<1>1. /\ r \in Platform /\ currentOrder[r] = NoOrder /\ assignedRider[d] = NoRider
      /\ assignedRider' = [assignedRider EXCEPT ![d] = r]
      /\ deliveryStatus' = [deliveryStatus EXCEPT ![d] = "rider_assigned"]
      /\ UNCHANGED <<restaurantOwned, earnings>>
  BY DEF AcceptRequest, RiderEligible
<1>2. Stage(d) = "open"
  BY <1>1, StageOf DEF Agreement, Matching, UnassignedRowsSearch
<1>3. Stage(d)' = "held"
  BY <1>1, StageThen DEF TypeOK, Active
<1>4. ASSUME NEW e \in Deliveries, stages[e] = "held", holders[e] = r
      PROVE  FALSE
  <2>1. deliveryStatus[e] \in Active
    BY <1>4 DEF stages, Stage
  <2> QED BY <1>1, <1>4, <2>1, FreeCarriesNothing DEF Carries, holders
<1>5. /\ stages' = [stages EXCEPT ![d] = "held"]
      /\ holders' = [holders EXCEPT ![d] = r]
  BY <1>1, <1>3, RowMoves, HolderMoves
<1> QED
  BY <1>1, <1>2, <1>4, <1>5 DEF Promise!Take, Promise!Holds, stages, holders, Platform

\* Withdrawing gives the delivery back.
LEMMA WithdrawGivesBack ==
  ASSUME TypeOK, NEW d \in Deliveries, NEW r \in Riders, WithdrawFoodDelivery(d, r)
  PROVE  Promise!GiveBack(d)
<1>1. /\ deliveryStatus[d] \in Active
      /\ assignedRider' = [assignedRider EXCEPT ![d] = NoRider]
      /\ deliveryStatus' = [deliveryStatus EXCEPT ![d] = "rider_searching"]
      /\ UNCHANGED <<restaurantOwned, earnings>>
  BY DEF WithdrawFoodDelivery, Active
<1>2. Stage(d) = "held" /\ Stage(d)' = "open"
  BY <1>1, StageOf, StageThen DEF TypeOK, Searching
<1>3. /\ stages' = [stages EXCEPT ![d] = "open"]
      /\ holders' = [holders EXCEPT ![d] = NoRider]
  BY <1>1, <1>2, RowMoves, HolderMoves
<1> QED BY <1>1, <1>2, <1>3 DEF Promise!GiveBack, stages, holders

\* A release cancels.
LEMMA ReleaseCancels ==
  ASSUME TypeOK, NEW d \in Deliveries, NEW e \in Deliveries, NEW r \in Riders,
         ReleaseClosedDelivery(d, e, r)
  PROVE  Promise!Cancel(d)
<1>1. /\ deliveryStatus[d] \in Active
      /\ deliveryStatus' = [deliveryStatus EXCEPT ![d] = "cancelled"]
      /\ UNCHANGED <<assignedRider, restaurantOwned, earnings>>
  BY DEF ReleaseClosedDelivery
<1>2. Stage(d) = "held" /\ Stage(d)' = "cancelled"
  BY <1>1, StageOf, StageThen DEF TypeOK
<1>3. stages' = [stages EXCEPT ![d] = "cancelled"]
  BY <1>1, <1>2, RowMoves
<1> QED BY <1>1, <1>2, <1>3 DEF Promise!Cancel, stages

\* A rider's step or a repair delivers, with the earning if one is due, or
\* leaves the delivery held.
LEMMA AdvanceDelivers ==
  ASSUME TypeOK, Agreement, OrderLeads,
         NEW d \in Deliveries, NEW r \in Riders, NEW next \in Active \cup {"delivered"},
         AdvanceByRider(d, r, next) \/ AdvanceByRepair(d, r, next)
  PROVE  Promise!Deliver(d) \/ UNCHANGED Promise!custodyVars
<1>1. /\ AdvanceTo(d, r, next)
      /\ \/ deliveryStatus[d] \in Active
         \/ deliveryStatus[d] = "cancelled" /\ next = "delivered"
  BY AdvanceFromUnderWay
<1>2. /\ assignedRider[d] = r
      /\ deliveryStatus' = [deliveryStatus EXCEPT ![d] = next]
      /\ UNCHANGED <<assignedRider, restaurantOwned>>
  BY <1>1 DEF AdvanceTo
<1>3. CASE next = "delivered"
  <2>1. Stage(d) \in {"held", "cancelled"} /\ Stage(d)' = "delivered"
    BY <1>1, <1>2, <1>3, StageOf, StageThen DEF TypeOK
  <2>2. stages' = [stages EXCEPT ![d] = "delivered"]
    BY <1>2, <2>1, RowMoves
  <2>3. earnings' = IF restaurantOwned[d] THEN earnings
                      ELSE [earnings EXCEPT ![d][holders[d]] = @ + 1]
    BY <1>1, <1>2, <1>3 DEF AdvanceTo, holders
  <2> QED BY <1>2, <2>1, <2>2, <2>3 DEF Promise!Deliver, stages, holders
<1>4. CASE next # "delivered"
  <2>1. deliveryStatus[d] \in Active /\ next \in Active /\ UNCHANGED earnings
    BY <1>1, <1>4 DEF AdvanceTo
  <2>2. Stage(d)' = Stage(d)
    BY <1>2, <2>1, StageOf, StageThen DEF TypeOK
  <2>3. ASSUME NEW e \in Deliveries, e # d PROVE Stage(e)' = Stage(e)
    BY <1>2, <2>3 DEF Stage, TypeOK
  <2> QED BY <1>2, <2>1, <2>2, <2>3, CustodyStutters
<1> QED BY <1>3, <1>4

\* The upsert hands the delivery to the restaurant's rider, or finds that he has
\* delivered it.
LEMMA UpsertTakesForRestaurant ==
  ASSUME TypeOK, Agreement,
         NEW d \in Deliveries, NEW r \in Riders, OwnOrderUpserted(d, r)
  PROVE  Promise!TakeForRestaurant(d, r) \/ UNCHANGED Promise!custodyVars
<1>1. /\ r \in OwnRiders
      /\ assignedRider' = [assignedRider EXCEPT ![d] = r]
      /\ restaurantOwned' = [restaurantOwned EXCEPT ![d] = TRUE]
      /\ UNCHANGED earnings
  BY DEF OwnOrderUpserted, TypeOK
<1>2. restaurantOwned[d] \/ Stage(d) = "open"
  BY UpsertFinds, StageOf
<1>3. CASE assignedRider[d] = r /\ deliveryStatus[d] = "delivered"
  <2>1. UNCHANGED deliveryStatus
    BY <1>3 DEF OwnOrderUpserted
  <2>2. restaurantOwned[d]
    BY <1>3, UpsertFinds DEF Searching
  <2>3. UNCHANGED <<assignedRider, restaurantOwned>>
    BY <1>1, <1>3, <2>2 DEF TypeOK
  <2> QED BY <1>1, <2>1, <2>3, CustodyStutters DEF Stage
<1>4. CASE ~(assignedRider[d] = r /\ deliveryStatus[d] = "delivered")
  <2>1. stages' = [stages EXCEPT ![d] = "held"]
    <3>1. CASE assignedRider[d] = r /\ deliveryStatus[d] \in Active
      <4>1. UNCHANGED deliveryStatus /\ Stage(d) = "held"
        BY <3>1, StageOf DEF OwnOrderUpserted
      <4> QED BY <4>1 DEF stages, Stage
    <3>2. CASE ~(assignedRider[d] = r /\ deliveryStatus[d] \in Active)
      <4>1. deliveryStatus' = [deliveryStatus EXCEPT ![d] = "rider_assigned"]
        BY <1>4, <3>2 DEF OwnOrderUpserted
      <4>2. Stage(d)' = "held"
        BY <4>1, StageThen DEF TypeOK, Active
      <4> QED BY <4>1, <4>2, RowMoves
    <3> QED BY <3>1, <3>2
  <2>2. holders' = [holders EXCEPT ![d] = r]
    BY <1>1, HolderMoves
  <2> QED BY <1>1, <1>2, <2>1, <2>2 DEF Promise!TakeForRestaurant, stages, holders
<1> QED BY <1>3, <1>4

\* Every transaction is a step of Custody or leaves the custody alone.
LEMMA CustodyStep ==
  ASSUME TypeOK, Agreement, OrderLeads, Workload, [StoreNext]_storeVars
  PROVE  [Promise!CustodyNext]_(Promise!custodyVars)
<1> USE DEF orderVars, deliveryVars, availVars, statements
<1>1. ASSUME UNCHANGED <<deliveryVars, earnings>>
      PROVE  UNCHANGED Promise!custodyVars
  BY <1>1, CustodyStutters DEF Stage
<1>2. CASE DispatchStep
  <2>1. ASSUME NEW d \in Deliveries,
               CreateDeliveryOrder(d) \/ \E s \in Searching : SetSearchStatus(d, s)
        PROVE  UNCHANGED Promise!custodyVars
    <3>1. PICK s \in Searching :
            /\ deliveryStatus' = [deliveryStatus EXCEPT ![d] = s]
            /\ deliveryStatus[d] \in Searching \cup {"absent"}
            /\ UNCHANGED <<assignedRider, restaurantOwned, earnings>>
      BY <2>1 DEF CreateDeliveryOrder, SetSearchStatus, Unassigned, Searching
    <3>2. Stage(d)' = Stage(d)
      BY <3>1, StageOf, StageThen DEF TypeOK
    <3>3. ASSUME NEW e \in Deliveries, e # d PROVE Stage(e)' = Stage(e)
      BY <3>1, <3>3 DEF Stage, TypeOK
    <3> QED BY <3>1, <3>2, <3>3, CustodyStutters
  <2>2. ASSUME NEW d \in Deliveries, NEW r \in Riders,
               OfferSelected(d, r) \/ OfferInserted(d, r) \/ RejectRequest(d, r)
        PROVE  UNCHANGED Promise!custodyVars
    BY <2>2, <1>1 DEF OfferSelected, OfferInserted, RejectRequest
  <2>3. ASSUME NEW pairs,
               \/ ExpirePendingRequests(pairs)
               \/ OffersRolledBack(pairs)
               \/ SearchesSelected
               \/ SearchesExpired
        PROVE  UNCHANGED Promise!custodyVars
    BY <2>3, <1>1
    DEF ExpirePendingRequests, OffersRolledBack, SearchesSelected, SearchesExpired
  <2>4. ASSUME NEW d \in Deliveries, NEW r \in Riders,
               AcceptRequest(d, r) \/ WithdrawFoodDelivery(d, r)
        PROVE  Promise!CustodyNext
    BY <2>4, AcceptTakes, WithdrawGivesBack DEF Promise!CustodyNext
  <2> QED BY <1>2, <2>1, <2>2, <2>3, <2>4 DEF DispatchStep
<1>3. CASE LifecycleStep
  <2>1. ASSUME NEW d \in Deliveries, NEW r \in Riders,
               OwnOrderSelected(d, r) \/ OwnOrderDropped(d, r)
        PROVE  UNCHANGED Promise!custodyVars
    BY <2>1, <1>1 DEF OwnOrderSelected, OwnOrderDropped
  <2>2. ASSUME NEW d \in Deliveries, NEW r \in Riders,
               \/ \E next \in Active \cup {"delivered"} :
                    AdvanceByRider(d, r, next) \/ AdvanceByRepair(d, r, next)
               \/ \E e \in Deliveries : ReleaseClosedDelivery(d, e, r)
               \/ UpsertRestaurantOwnedOrder(d, r)
        PROVE  [Promise!CustodyNext]_(Promise!custodyVars)
    BY <2>2, <2>1, AdvanceDelivers, ReleaseCancels, UpsertTakesForRestaurant
    DEF Promise!CustodyNext, UpsertRestaurantOwnedOrder
  <2>3. ASSUME NEW r \in Riders, NEW on \in BOOLEAN, NEW av \in BOOLEAN,
               UpsertRiderAvailability(r, on, av)
        PROVE  UNCHANGED Promise!custodyVars
    BY <2>3, <1>1 DEF UpsertRiderAvailability
  <2> QED BY <1>3, <2>2, <2>3 DEF LifecycleStep
<1>4. CASE Kitchen \/ UNCHANGED storeVars
  BY <1>4, <1>1 DEF storeVars, Kitchen, KitchenMoves, KitchenAssignsOwnRider, WindowCloses
<1> QED BY <1>2, <1>3, <1>4 DEF StoreNext

\* Whatever transactions run and in whatever order, a delivery goes through its
\* custody as Custody says: the tables implement it.
THEOREM KeepsCustody ==
  ASSUME OrdersMoveForward, NoSharedIds
  PROVE  StoreSpec => CustodyKept
<1>1. StoreInit => Promise!CustodyInit
  BY DEF StoreInit, Promise!CustodyInit, Stage, Active
<1>2. (TypeOK /\ Agreement /\ OrderLeads) /\ Workload /\ [StoreNext]_storeVars
        => [Promise!CustodyNext]_(Promise!custodyVars)
  BY CustodyStep
<1> QED
  BY <1>1, <1>2, ProgressInvariant, WorkloadInvariant, OrdersMoveForward, NoSharedIds, PTL
  DEF StoreSpec, CustodyKept, Promise!CustodySpec
=============================================================================
