---------------------------- MODULE DeliveryStore ----------------------------
(***************************************************************************)
(* The PostgreSQL tables rider-service dispatches from, with one action    *)
(* for each transaction of internal/repository that changes them and one   *)
(* for each thing restaurant-service does to the rows the two share.  An   *)
(* action may be called at any moment with any arguments the service layer *)
(* can pass: Dispatch and Lifecycle, which model that layer, only call     *)
(* these actions and so cannot do more than this module allows.            *)
(*                                                                         *)
(* READ COMMITTED matters in three statements, each split in two steps:    *)
(* the INSERT ... SELECT of an offer, the UPDATE ... WHERE id IN (SELECT)  *)
(* of the search expiry and the INSERT ... SELECT ... ON CONFLICT for a    *)
(* restaurant's own rider read in a snapshot and write after other         *)
(* transactions may have committed.                                        *)
(***************************************************************************)
EXTENDS Naturals

CONSTANTS Deliveries,  \* rows of delivery_orders that may come to exist
          Grocery,     \* those whose order_type is grocery; the others are food
          Riders,      \* rider ids
          OwnRiders,   \* riders with an active restaurant_riders link
          OrderIds,    \* numbers of source orders
          OrderId,     \* delivery -> the number of its source order
          KitchenSteps,  \* <<from, to>> moves restaurant-service makes on an order
          NoRider,     \* SQL NULL in a rider column
          NoOrder      \* SQL NULL in rider_availability.current_order_id

Food == Deliveries \ Grocery
Platform == Riders \ OwnRiders

\* UNIQUE (order_type, order_id): numbers are distinct within a type only.
ASSUME StoreAssumption ==
  /\ Grocery \subseteq Deliveries
  /\ OwnRiders \subseteq Riders
  /\ NoRider \notin Riders
  /\ NoOrder \notin OrderIds
  /\ OrderId \in [Deliveries -> OrderIds]
  /\ \A d, e \in Deliveries :
       OrderId[d] = OrderId[e] /\ (d \in Grocery <=> e \in Grocery) => d = e

\* The order of the statuses of an order; completing skips any of them, and
\* only an order that was not delivered is cancelled or rejected.
ForwardSteps ==
  {<<"preparing", "ready">>, <<"ready", "out_for_delivery">>,
   <<"out_for_delivery", "delivered">>}
  \cup {"preparing", "ready", "out_for_delivery", "delivered"} \X {"completed"}
  \cup {"preparing", "ready", "out_for_delivery"} \X {"cancelled"}

\* Kitchen, riders and owner move an order forward.  Nothing in this
\* repository makes them: an owner may override a status.
OrdersMoveForward == KitchenSteps \subseteq ForwardSteps

\* Food and grocery orders are numbered by two sequences; this says that no
\* number is in use by both.
NoSharedIds == \A d, e \in Deliveries : OrderId[d] = OrderId[e] => d = e

VARIABLES
  \* orders: one row for each food delivery, written with restaurant-service
  orderStatus,      \* order_status
  orderRider,       \* assigned_rider_user_id
  deliveredAt,      \* delivered_at IS NOT NULL
  inWindow,         \* created_at is within search_max_age_seconds
  orderView,        \* delivery_status, which the customer app reads
  \* delivery_orders
  deliveryStatus,   \* delivery_status, or "absent" before the row exists
  assignedRider,    \* assigned_rider_id and rider_user_id, always written together
  restaurantOwned,  \* restaurant_owned
  \* delivery_order_requests: delivery -> rider -> status, or "none"
  request,
  \* rider_availability
  isOnline, isAvailable, currentOrder,
  \* rider_earnings: delivery -> rider -> number of delivery_fee rows
  earnings,
  \* statements between their two steps
  offering,         \* <<delivery, rider>> of each CreateRequest past its SELECT
  expiring,         \* food deliveries an ExpireFoodSearches has selected
  upserting         \* <<delivery, rider>> of each UpsertRestaurantOwnedOrder past
                    \* its SELECT

orderVars == <<orderStatus, orderRider, deliveredAt, inWindow, orderView>>
deliveryVars == <<deliveryStatus, assignedRider, restaurantOwned>>
availVars == <<isOnline, isAvailable, currentOrder>>
statements == <<offering, expiring, upserting>>
storeVars == <<orderVars, deliveryVars, request, availVars, earnings, statements>>

Searching == {"rider_searching", "no_rider_found"}
Active == {"rider_assigned", "rider_arrived_restaurant", "picked_up", "on_the_way"}
DeliveryStatuses == {"absent", "delivered", "cancelled"} \cup Searching \cup Active
OrderStatuses ==
  {"preparing", "ready", "out_for_delivery", "delivered", "completed", "cancelled"}
RequestStatuses == {"none", "pending", "accepted", "rejected", "expired", "cancelled"}

TypeOK ==
  /\ orderStatus \in [Food -> OrderStatuses]
  /\ orderRider \in [Food -> Riders \cup {NoRider}]
  /\ deliveredAt \in [Food -> BOOLEAN]
  /\ inWindow \in [Food -> BOOLEAN]
  /\ orderView \in [Food -> DeliveryStatuses \cup {"dispatch_expired"}]
  /\ deliveryStatus \in [Deliveries -> DeliveryStatuses]
  /\ assignedRider \in [Deliveries -> Riders \cup {NoRider}]
  /\ restaurantOwned \in [Deliveries -> BOOLEAN]
  /\ request \in [Deliveries -> [Riders -> RequestStatuses]]
  /\ isOnline \in [Riders -> BOOLEAN]
  /\ isAvailable \in [Riders -> BOOLEAN]
  /\ currentOrder \in [Riders -> OrderIds \cup {NoOrder}]
  /\ earnings \in [Deliveries -> [Riders -> Nat]]
  /\ offering \subseteq Deliveries \X Platform
  /\ expiring \subseteq Food
  /\ upserting \subseteq Food \X OwnRiders

StoreInit ==
  /\ orderStatus = [d \in Food |-> "preparing"]
  /\ orderRider = [d \in Food |-> NoRider]
  /\ deliveredAt = [d \in Food |-> FALSE]
  /\ inWindow = [d \in Food |-> TRUE]
  /\ orderView = [d \in Food |-> "absent"]
  /\ deliveryStatus = [d \in Deliveries |-> "absent"]
  /\ assignedRider = [d \in Deliveries |-> NoRider]
  /\ restaurantOwned = [d \in Deliveries |-> FALSE]
  /\ request = [d \in Deliveries |-> [r \in Riders |-> "none"]]
  /\ isOnline = [r \in Riders |-> FALSE]
  /\ isAvailable = [r \in Riders |-> FALSE]
  /\ currentOrder = [r \in Riders |-> NoOrder]
  /\ earnings = [d \in Deliveries |-> [r \in Riders |-> 0]]
  /\ offering = {}
  /\ expiring = {}
  /\ upserting = {}

-----------------------------------------------------------------------------
(* What the statements read.                                               *)

Unassigned(d) == assignedRider[d] = NoRider /\ deliveryStatus[d] \in Searching

\* The order ended by its owner: restaurantOrderClosed of the service.
Closed(d) == orderStatus[d] \in {"completed", "cancelled"}

\* The order reached its customer, by the rider or by the owner.
Fulfilled(d) ==
  \/ orderStatus[d] = "delivered"
  \/ orderStatus[d] = "completed" /\ deliveredAt[d]

\* Mutant of OrderAllows: a completed order counts as delivered even when the
\* owner closed it undelivered.
OrderAllowsIfClosed(d, next) ==
  \/ next = "rider_arrived_restaurant" /\ orderStatus[d] \in {"preparing", "ready"}
  \/ next \in {"picked_up", "on_the_way"} /\ orderStatus[d] = "out_for_delivery"
  \/ next = "delivered" /\ orderStatus[d] \in {"delivered", "completed"}

\* Whether the canonical order allows the projection to become next.
OrderAllows(d, next) ==
  \/ next = "rider_arrived_restaurant" /\ orderStatus[d] \in {"preparing", "ready"}
  \/ next \in {"picked_up", "on_the_way"} /\ orderStatus[d] = "out_for_delivery"
  \/ next = "delivered" /\ Fulfilled(d)

\* The steps UpdateDeliveryStatus accepts from a rider.
RiderStep(from, next, owned) ==
  \/ from = "rider_assigned" /\ next = "rider_arrived_restaurant"
  \/ from = "rider_arrived_restaurant" /\ next = "picked_up"
  \/ from = "picked_up" /\ next = "on_the_way"
  \/ from = "on_the_way" /\ next = "delivered"
  \/ owned /\ from \in {"rider_assigned", "rider_arrived_restaurant"} /\ next = "picked_up"
  \/ owned /\ from = "picked_up" /\ next = "delivered"

\* What ClaimFoodOrder requires of the order.  Its search window is measured
\* at the start of the transaction, so it is a guard of Dispatch and not here.
Claimable(d) ==
  /\ orderStatus[d] \in {"preparing", "ready"}
  /\ orderRider[d] = NoRider

\* Mutant of RiderEligible: SetRiderBusy requires the rider to be online only.
RiderEligibleIfOnline(d, r) ==
  /\ isOnline[r]
  /\ d \in Food => \A e \in Deliveries :
       assignedRider[e] = r => deliveryStatus[e] \in {"delivered", "cancelled"}

\* What ClaimFoodOrder and SetRiderBusy require of the rider.  ClaimFoodOrder,
\* which looks for another unfinished delivery, runs for food only.
RiderEligible(d, r) ==
  /\ isOnline[r]
  /\ isAvailable[r]
  /\ currentOrder[r] = NoOrder
  /\ d \in Food => \A e \in Deliveries :
       assignedRider[e] = r => deliveryStatus[e] \in {"delivered", "cancelled"}

\* UPDATE rider_availability ... WHERE rider_id = r AND current_order_id = id.
FreeRider(r, id, available) ==
  /\ IF currentOrder[r] = id
       THEN /\ currentOrder' = [currentOrder EXCEPT ![r] = NoOrder]
            /\ isAvailable' = [isAvailable EXCEPT ![r] = available]
       ELSE UNCHANGED <<currentOrder, isAvailable>>
  /\ UNCHANGED isOnline

-----------------------------------------------------------------------------
(* Dispatch: delivery rows and offers.                                     *)

CreateDeliveryOrder(d) ==
  /\ deliveryStatus[d] = "absent"
  /\ deliveryStatus' = [deliveryStatus EXCEPT ![d] = "rider_searching"]
  /\ UNCHANGED <<assignedRider, restaurantOwned>>
  /\ UNCHANGED <<orderVars, request, availVars, earnings, statements>>

\* UpdateDeliveryStatus of the repository, for the two search statuses.
SetSearchStatus(d, status) ==
  /\ Unassigned(d)
  /\ deliveryStatus' = [deliveryStatus EXCEPT ![d] = status]
  /\ UNCHANGED <<assignedRider, restaurantOwned>>
  /\ UNCHANGED <<orderVars, request, availVars, earnings, statements>>

\* Mutant of OfferSelected: no LockPlatformRider.
OfferSelectedForAnyone(d, r) ==
  /\ Unassigned(d)
  /\ offering' = offering \cup {<<d, r>>}
  /\ UNCHANGED <<orderVars, deliveryVars, request, availVars, earnings, expiring, upserting>>

\* CreateRequest, as far as its SELECT: the delivery is unassigned and
\* searching, the rider passes LockPlatformRider.
OfferSelected(d, r) ==
  /\ Unassigned(d)
  /\ r \in Platform
  /\ offering' = offering \cup {<<d, r>>}
  /\ UNCHANGED <<orderVars, deliveryVars, request, availVars, earnings, expiring, upserting>>

\* Mutant of OfferInserted: ON CONFLICT opens any earlier offer again.
OfferInsertedOverAny(d, r) ==
  /\ <<d, r>> \in offering
  /\ offering' = offering \ {<<d, r>>}
  /\ request' = [request EXCEPT ![d][r] = "pending"]
  /\ UNCHANGED <<orderVars, deliveryVars, availVars, earnings, expiring, upserting>>

\* CreateRequest, its INSERT ... ON CONFLICT: an expired or withdrawn offer is
\* opened again, any other one is left alone.
OfferInserted(d, r) ==
  /\ <<d, r>> \in offering
  /\ offering' = offering \ {<<d, r>>}
  /\ IF request[d][r] \in {"none", "expired", "cancelled"}
       THEN request' = [request EXCEPT ![d][r] = "pending"]
       ELSE UNCHANGED request
  /\ UNCHANGED <<orderVars, deliveryVars, availVars, earnings, expiring, upserting>>

\* CreateRequest transactions that end without committing.
OffersRolledBack(lost) ==
  /\ lost # {}
  /\ lost \subseteq offering
  /\ offering' = offering \ lost
  /\ UNCHANGED <<orderVars, deliveryVars, request, availVars, earnings, expiring, upserting>>

RejectRequest(d, r) ==
  /\ request[d][r] = "pending"
  /\ request' = [request EXCEPT ![d][r] = "rejected"]
  /\ UNCHANGED <<orderVars, deliveryVars, availVars, earnings, statements>>

\* One statement expires every lapsed offer: lapsed is a set of pairs.
ExpirePendingRequests(lapsed) ==
  /\ lapsed # {}
  /\ \A p \in lapsed : request[p[1]][p[2]] = "pending"
  /\ request' = [d \in Deliveries |-> [r \in Riders |->
                   IF <<d, r>> \in lapsed THEN "expired" ELSE request[d][r]]]
  /\ UNCHANGED <<orderVars, deliveryVars, availVars, earnings, statements>>

\* The accept transaction, at its commit.
AcceptRequest(d, r) ==
  /\ r \in Platform
  /\ request[d][r] = "pending"
  /\ assignedRider[d] = NoRider
  /\ d \in Food => Claimable(d)
  /\ RiderEligible(d, r)
  /\ IF d \in Food
       THEN /\ orderRider' = [orderRider EXCEPT ![d] = r]
            /\ orderView' = [orderView EXCEPT ![d] = "rider_assigned"]
       ELSE UNCHANGED <<orderRider, orderView>>
  /\ assignedRider' = [assignedRider EXCEPT ![d] = r]
  /\ deliveryStatus' = [deliveryStatus EXCEPT ![d] = "rider_assigned"]
  /\ request' = [request EXCEPT ![d] = [q \in Riders |->
                   IF q = r THEN "accepted"
                   ELSE IF request[d][q] = "pending" THEN "cancelled"
                   ELSE request[d][q]]]
  /\ isAvailable' = [isAvailable EXCEPT ![r] = FALSE]
  /\ currentOrder' = [currentOrder EXCEPT ![r] = OrderId[d]]
  /\ UNCHANGED <<orderStatus, deliveredAt, inWindow, restaurantOwned, isOnline>>
  /\ UNCHANGED <<earnings, statements>>

\* WithdrawFoodDelivery: every other offer of the delivery becomes cancelled,
\* a declined one too.
WithdrawFoodDelivery(d, r) ==
  /\ d \in Food
  /\ assignedRider[d] = r
  /\ deliveryStatus[d] \in {"rider_assigned", "rider_arrived_restaurant"}
  /\ orderRider[d] = r
  /\ orderStatus[d] \in {"preparing", "ready"}
  /\ orderRider' = [orderRider EXCEPT ![d] = NoRider]
  /\ orderView' = [orderView EXCEPT ![d] = "rider_searching"]
  /\ assignedRider' = [assignedRider EXCEPT ![d] = NoRider]
  /\ deliveryStatus' = [deliveryStatus EXCEPT ![d] = "rider_searching"]
  /\ request' = [request EXCEPT ![d] = [q \in Riders |->
                   IF request[d][q] = "none" THEN "none"
                   ELSE IF q = r THEN "rejected" ELSE "cancelled"]]
  /\ FreeRider(r, OrderId[d], isOnline[r])
  /\ UNCHANGED <<orderStatus, deliveredAt, inWindow, restaurantOwned>>
  /\ UNCHANGED <<earnings, statements>>

\* Mutant of SearchesSelected: only a search that gave up can expire.
SearchesGivenUpSelected ==
  /\ expiring = {}
  /\ expiring' = {d \in Food :
                    /\ Claimable(d)
                    /\ ~inWindow[d]
                    /\ orderView[d] # "dispatch_expired"
                    /\ Unassigned(d) /\ deliveryStatus[d] = "no_rider_found"}
  /\ expiring' # {}
  /\ UNCHANGED <<orderVars, deliveryVars, request, availVars, earnings, offering, upserting>>

\* ExpireFoodSearches, its sub-select.
SearchesSelected ==
  /\ expiring = {}
  /\ expiring' = {d \in Food :
                    /\ Claimable(d)
                    /\ ~inWindow[d]
                    /\ orderView[d] # "dispatch_expired"
                    /\ Unassigned(d)}
  /\ expiring' # {}
  /\ UNCHANGED <<orderVars, deliveryVars, request, availVars, earnings, offering, upserting>>

\* Mutant of SearchesExpired: the outer WHERE trusts the sub-select.
SearchesExpiredAsSelected ==
  /\ expiring # {}
  /\ orderView' = [d \in Food |-> IF d \in expiring
                                    THEN "dispatch_expired" ELSE orderView[d]]
  /\ expiring' = {}
  /\ UNCHANGED <<orderStatus, orderRider, deliveredAt, inWindow>>
  /\ UNCHANGED <<deliveryVars, request, availVars, earnings, offering, upserting>>

\* Mutant of SearchesExpired: the delivery is given the status of the order.
SearchesExpiredOnBoth ==
  /\ expiring # {}
  /\ orderView' = [d \in Food |-> IF d \in expiring /\ Claimable(d)
                                    THEN "dispatch_expired" ELSE orderView[d]]
  /\ deliveryStatus' = [d \in Deliveries |->
                           IF d \in expiring /\ Claimable(d)
                             THEN "dispatch_expired" ELSE deliveryStatus[d]]
  /\ expiring' = {}
  /\ UNCHANGED <<orderStatus, orderRider, deliveredAt, inWindow>>
  /\ UNCHANGED <<assignedRider, restaurantOwned, request, availVars, earnings>>
  /\ UNCHANGED <<offering, upserting>>

\* ExpireFoodSearches, its update: the outer WHERE is evaluated again on the
\* rows as they now are.
SearchesExpired ==
  /\ expiring # {}
  /\ orderView' = [d \in Food |-> IF d \in expiring /\ Claimable(d)
                                    THEN "dispatch_expired" ELSE orderView[d]]
  /\ expiring' = {}
  /\ UNCHANGED <<orderStatus, orderRider, deliveredAt, inWindow>>
  /\ UNCHANGED <<deliveryVars, request, availVars, earnings, offering, upserting>>

-----------------------------------------------------------------------------
(* Lifecycle: the rider's progress, closed orders, own riders.             *)

\* Mutant of AdvanceTo: a repeated target is applied again.
AdvanceToAgain(d, r, next) ==
  /\ assignedRider[d] = r
  /\ d \in Food => orderRider[d] = r /\ OrderAllows(d, next)
  /\ deliveryStatus' = [deliveryStatus EXCEPT ![d] = next]
  /\ IF d \in Food THEN orderView' = [orderView EXCEPT ![d] = next]
                   ELSE UNCHANGED orderView
  /\ IF next = "delivered" THEN FreeRider(r, OrderId[d], isOnline[r])
                           ELSE UNCHANGED availVars
  /\ IF next = "delivered" /\ ~restaurantOwned[d]
       THEN earnings' = [earnings EXCEPT ![d][r] = @ + 1]
       ELSE UNCHANGED earnings
  /\ UNCHANGED <<orderStatus, orderRider, deliveredAt, inWindow>>
  /\ UNCHANGED <<assignedRider, restaurantOwned, request, statements>>

\* AdvanceDelivery moved row d to next for rider r: row, projection on the
\* order, workload and earning commit together.
AdvanceTo(d, r, next) ==
  /\ assignedRider[d] = r
  /\ deliveryStatus[d] # next
  /\ d \in Food => orderRider[d] = r /\ OrderAllows(d, next)
  /\ deliveryStatus' = [deliveryStatus EXCEPT ![d] = next]
  /\ IF d \in Food THEN orderView' = [orderView EXCEPT ![d] = next]
                   ELSE UNCHANGED orderView
  /\ IF next = "delivered" THEN FreeRider(r, OrderId[d], isOnline[r])
                           ELSE UNCHANGED availVars
  /\ IF next = "delivered" /\ ~restaurantOwned[d]
       THEN earnings' = [earnings EXCEPT ![d][r] = @ + 1]
       ELSE UNCHANGED earnings
  /\ UNCHANGED <<orderStatus, orderRider, deliveredAt, inWindow>>
  /\ UNCHANGED <<assignedRider, restaurantOwned, request, statements>>

\* AdvanceDelivery for a rider's tap.
AdvanceByRider(d, r, next) ==
  /\ RiderStep(deliveryStatus[d], next, restaurantOwned[d])
  /\ AdvanceTo(d, r, next)

\* AdvanceDelivery for the repair sweep, which takes the target from the order
\* and not from the status of the delivery.
AdvanceByRepair(d, r, next) ==
  /\ d \in Food
  /\ next \in {"picked_up", "delivered"}
  /\ AdvanceTo(d, r, next)

\* ReleaseClosedDelivery: c is the rider its caller read earlier; e is the
\* food order of the same number that was seen closed (FindDeliveriesClosed-
\* ByRestaurant joins on the number alone).
ReleaseClosedDelivery(d, e, c) ==
  /\ e \in Food
  /\ OrderId[e] = OrderId[d]
  /\ Closed(e)
  /\ deliveryStatus[d] \in Active
  /\ deliveryStatus' = [deliveryStatus EXCEPT ![d] = "cancelled"]
  /\ FreeRider(c, OrderId[d], TRUE)
  /\ UNCHANGED <<orderVars, assignedRider, restaurantOwned, request, earnings>>
  /\ UNCHANGED statements

\* Mutant of OwnOrderSelected: the assignment event may be stale.
OwnOrderSelectedUnseen(d, r) ==
  /\ d \in Food
  /\ r \in OwnRiders
  /\ upserting' = upserting \cup {<<d, r>>}
  /\ UNCHANGED <<orderVars, deliveryVars, request, availVars, earnings, offering, expiring>>

\* UpsertRestaurantOwnedOrder, its SELECT: the restaurant's own rider is on the
\* order, which has not ended.  The order is not locked.  (That the row was not
\* the platform's is asked by OwnAssignmentEventCurrent in a statement before, so
\* the row may have been created since: it is no guard here.)
OwnOrderSelected(d, r) ==
  /\ d \in Food
  /\ r \in OwnRiders
  /\ orderRider[d] = r
  /\ orderStatus[d] \in {"preparing", "ready", "out_for_delivery"}
  /\ upserting' = upserting \cup {<<d, r>>}
  /\ UNCHANGED <<orderVars, deliveryVars, request, availVars, earnings, offering, expiring>>

\* Mutant of OwnOrderUpserted: DO UPDATE leaves restaurant_owned as it was.
OwnOrderUpsertedUnmarked(d, r) ==
  /\ <<d, r>> \in upserting
  /\ upserting' = upserting \ {<<d, r>>}
  /\ restaurantOwned' = [restaurantOwned EXCEPT ![d] = @ \/ deliveryStatus[d] = "absent"]
  /\ assignedRider' = [assignedRider EXCEPT ![d] = r]
  /\ IF assignedRider[d] = r /\ deliveryStatus[d] \in Active \cup {"delivered"}
       THEN UNCHANGED deliveryStatus
       ELSE deliveryStatus' = [deliveryStatus EXCEPT ![d] = "rider_assigned"]
  /\ UNCHANGED <<orderVars, request, availVars, earnings, offering, expiring>>

\* UpsertRestaurantOwnedOrder, its INSERT ... ON CONFLICT DO UPDATE: the rider is
\* put on the delivery as it now is.  The order, whatever became of it, is not
\* read again.
OwnOrderUpserted(d, r) ==
  /\ <<d, r>> \in upserting
  /\ upserting' = upserting \ {<<d, r>>}
  /\ restaurantOwned' = [restaurantOwned EXCEPT ![d] = TRUE]
  /\ assignedRider' = [assignedRider EXCEPT ![d] = r]
  /\ IF assignedRider[d] = r /\ deliveryStatus[d] \in Active \cup {"delivered"}
       THEN UNCHANGED deliveryStatus
       ELSE deliveryStatus' = [deliveryStatus EXCEPT ![d] = "rider_assigned"]
  /\ UNCHANGED <<orderVars, request, availVars, earnings, offering, expiring>>

\* The statement fails, or its service stops.
OwnOrderDropped(d, r) ==
  /\ <<d, r>> \in upserting
  /\ upserting' = upserting \ {<<d, r>>}
  /\ UNCHANGED <<orderVars, deliveryVars, request, availVars, earnings, offering, expiring>>

UpsertRestaurantOwnedOrder(d, r) ==
  OwnOrderSelected(d, r) \/ OwnOrderUpserted(d, r) \/ OwnOrderDropped(d, r)

\* Mutant of UpsertRiderAvailability: going online makes a busy rider available.
UpsertAvailableWhileBusy(r, online, available) ==
  /\ isOnline' = [isOnline EXCEPT ![r] = online]
  /\ isAvailable' = [isAvailable EXCEPT ![r] = online /\ available]
  /\ UNCHANGED currentOrder
  /\ UNCHANGED <<orderVars, deliveryVars, request, earnings, statements>>

\* UpsertRiderAvailability: going online, offline, or pausing.
UpsertRiderAvailability(r, online, available) ==
  /\ isOnline' = [isOnline EXCEPT ![r] = online]
  /\ isAvailable' = [isAvailable EXCEPT
       ![r] = online /\ available /\ currentOrder[r] = NoOrder]
  /\ UNCHANGED currentOrder
  /\ UNCHANGED <<orderVars, deliveryVars, request, earnings, statements>>

-----------------------------------------------------------------------------
(* restaurant-service and time, which are not in this repository.          *)

\* The kitchen, the owner or the callback of a rider's step moves the order;
\* delivered_at is set when it is delivered, and completing an order that was
\* not delivered leaves it empty.
KitchenMoves(d, status) ==
  /\ <<orderStatus[d], status>> \in KitchenSteps
  /\ orderStatus' = [orderStatus EXCEPT ![d] = status]
  /\ deliveredAt' = [deliveredAt EXCEPT ![d] = @ \/ status = "delivered"]
  /\ UNCHANGED <<orderRider, inWindow, orderView>>
  /\ UNCHANGED <<deliveryVars, request, availVars, earnings, statements>>

\* The owner puts one of the restaurant's riders on an order that no platform
\* rider has.
KitchenAssignsOwnRider(d, r) ==
  /\ r \in OwnRiders
  /\ orderRider[d] \in (OwnRiders \cup {NoRider}) \ {r}
  /\ orderStatus[d] \in {"preparing", "ready", "out_for_delivery"}
  /\ orderRider' = [orderRider EXCEPT ![d] = r]
  /\ UNCHANGED <<orderStatus, deliveredAt, inWindow, orderView>>
  /\ UNCHANGED <<deliveryVars, request, availVars, earnings, statements>>

WindowCloses(d) ==
  /\ inWindow[d]
  /\ inWindow' = [inWindow EXCEPT ![d] = FALSE]
  /\ UNCHANGED <<orderStatus, orderRider, deliveredAt, orderView>>
  /\ UNCHANGED <<deliveryVars, request, availVars, earnings, statements>>

Kitchen ==
  \E d \in Food :
    \/ \E status \in OrderStatuses : KitchenMoves(d, status)
    \/ \E r \in OwnRiders : KitchenAssignsOwnRider(d, r)
    \/ WindowCloses(d)

-----------------------------------------------------------------------------
DispatchStep ==
  \/ \E d \in Deliveries :
       \/ CreateDeliveryOrder(d)
       \/ \E status \in Searching : SetSearchStatus(d, status)
       \/ \E r \in Riders :
            \/ OfferSelected(d, r)
            \/ OfferInserted(d, r)
            \/ RejectRequest(d, r)
            \/ AcceptRequest(d, r)
            \/ WithdrawFoodDelivery(d, r)
  \/ \E lapsed \in SUBSET (Deliveries \X Riders) : ExpirePendingRequests(lapsed)
  \/ \E lost \in SUBSET offering : OffersRolledBack(lost)
  \/ SearchesSelected
  \/ SearchesExpired

LifecycleStep ==
  \/ \E d \in Deliveries, r \in Riders :
       \/ \E next \in Active \cup {"delivered"} :
            AdvanceByRider(d, r, next) \/ AdvanceByRepair(d, r, next)
       \/ \E e \in Deliveries : ReleaseClosedDelivery(d, e, r)
       \/ UpsertRestaurantOwnedOrder(d, r)
  \/ \E r \in Riders, online, available \in BOOLEAN :
       UpsertRiderAvailability(r, online, available)

StoreNext == DispatchStep \/ LifecycleStep \/ Kitchen

StoreSpec == StoreInit /\ [][StoreNext]_storeVars

-----------------------------------------------------------------------------
(* Safety.                                                                 *)

\* The rider of the order, of a grocery delivery the rider of its row.
HasOrder(d, r) == IF d \in Food THEN orderRider[d] = r ELSE assignedRider[d] = r

\* The two tables that record the rider agree about a platform rider, since
\* accept and withdraw write both rows, but for one case: an upsert that read the
\* order before the restaurant's rider gave it back writes that rider over the
\* platform rider who accepted it since.  It happens to a row that is the
\* restaurant's, and the row never names a platform rider the order does not.
OneRiderOnBothRows ==
  \A d \in Food, r \in Platform :
    /\ assignedRider[d] = r => orderRider[d] = r
    /\ orderRider[d] = r =>
         \/ assignedRider[d] = r
         \/ restaurantOwned[d] /\ assignedRider[d] \in OwnRiders

\* The accepted offer is the record of the platform rider who has the order:
\* there is never a second one, withdrawing undoes it, and it outlives an upsert
\* that takes the delivery row from its rider.
AcceptedOfferIsTheHolder ==
  \A d \in Deliveries, r \in Riders :
    request[d][r] = "accepted" <=> r \in Platform /\ HasOrder(d, r)

\* A platform rider on an active delivery is busy with that order, so no search
\* offers to this rider.
HolderIsBusy ==
  \A d \in Deliveries :
    assignedRider[d] \in Platform /\ deliveryStatus[d] \in Active
      => /\ currentOrder[assignedRider[d]] = OrderId[d]
         /\ ~isAvailable[assignedRider[d]]

\* A platform rider has at most one active delivery, food or grocery.
OneDeliveryEach ==
  \A d, e \in Deliveries :
    /\ assignedRider[d] \in Platform /\ assignedRider[d] = assignedRider[e]
    /\ deliveryStatus[d] \in Active /\ deliveryStatus[e] \in Active
    => d = e

\* One earning for the rider who delivered, none for anyone else, for an
\* unfinished delivery, or for a restaurant's arrangement: whatever retries,
\* repairs and releases come in between.
PaidExactlyOnce ==
  \A d \in Deliveries, r \in Riders :
    earnings[d][r] =
      IF deliveryStatus[d] = "delivered" /\ assignedRider[d] = r /\ ~restaurantOwned[d]
        THEN 1 ELSE 0

\* The projection follows the canonical order and is never ahead of it; a food
\* delivery is cancelled only when its own order is closed.
CanonicalOrderFirst ==
  \A d \in Food :
    /\ deliveryStatus[d] \in {"picked_up", "on_the_way"}
         => orderStatus[d] \notin {"preparing", "ready"}
    /\ deliveryStatus[d] = "delivered" => Fulfilled(d)
    /\ deliveryStatus[d] = "cancelled" => Closed(d)

\* The status the customer reads on the order is the status of the delivery
\* while a platform rider has it: an expiring search never overwrites it.
CustomerSeesTheDelivery ==
  \A d \in Food :
    assignedRider[d] \in Platform /\ deliveryStatus[d] # "cancelled"
      => orderView[d] = deliveryStatus[d]

\* What the code says of a rider who declined or withdrew: the offer stays
\* rejected, so that the rider is not asked again for this order.  A later
\* withdrawal by someone else makes it cancelled, which may be opened again.
DeclineIsFinal ==
  [][\A d \in Deliveries, r \in Riders :
       request[d][r] = "rejected" => request'[d][r] = "rejected"]_storeVars

-----------------------------------------------------------------------------
(* The custody of a delivery, as Custody promises it.                      *)

Stage(d) ==
  CASE deliveryStatus[d] \in Active -> "held"
    [] deliveryStatus[d] \in {"delivered", "cancelled"} -> deliveryStatus[d]
    [] OTHER -> "open"

Promise == INSTANCE Custody WITH
  stage <- [d \in Deliveries |-> Stage(d)],
  holder <- [d \in Deliveries |-> assignedRider[d]],
  house <- restaurantOwned,
  credit <- earnings

CustodyKept == Promise!CustodySpec

=============================================================================
