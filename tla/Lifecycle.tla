----------------------------- MODULE Lifecycle ------------------------------
(***************************************************************************)
(* What happens to a delivery once a rider has it: service/                *)
(* delivery_lifecycle.go and the callers of AdvanceDelivery and            *)
(* ReleaseClosedDelivery, one step for each statement, transaction or HTTP *)
(* call.  What a step has read is kept until a later one uses it, and by   *)
(* then the tables may say something else.                                 *)
(*                                                                         *)
(* Everything dispatch does to the tables, restaurant-service and the      *)
(* riders' availability go on meanwhile: see Elsewhere.                    *)
(***************************************************************************)
EXTENDS DeliveryStore

CONSTANT Requests  \* status updates that can be in progress at a time

VARIABLES
  update,    \* request -> the UpdateDeliveryStatus it is running
  repairs,   \* rows FoodProgressRepairs listed, not yet repaired
  reloaded,  \* the row being repaired, as GetDeliveryOrderByID returned it
  closed     \* rows FindDeliveriesClosedByRestaurant listed, not yet released

lifecycleVars == <<update, repairs, reloaded, closed>>
vars == <<storeVars, lifecycleVars>>

Targets == {"rider_arrived_restaurant", "picked_up", "on_the_way", "delivered"}
NoUpdate == [at |-> "idle"]
NoRow == [at |-> "none"]

\* An update: its next step, what the rider asked for, and the row as read.
Update ==
  [at : {"snapshot", "release", "call", "advance"}, delivery : Deliveries, rider : Riders,
   next : Targets, from : DeliveryStatuses, owned : BOOLEAN]

Repair == [delivery : Food, rider : Riders, target : {"picked_up", "delivered"}]

\* A row to release: the delivery, the order seen closed, the rider to free.
ClosedRow == [delivery : Deliveries, order : Food, rider : Riders]

LifecycleTypeOK ==
  /\ TypeOK
  /\ update \in [Requests -> {NoUpdate} \cup Update]
  /\ repairs \subseteq Repair
  /\ reloaded \in {NoRow} \cup [row : Repair, from : DeliveryStatuses]
  /\ closed \subseteq ClosedRow

LifecycleInit ==
  /\ StoreInit
  /\ update = [q \in Requests |-> NoUpdate]
  /\ repairs = {} /\ reloaded = NoRow /\ closed = {}

-----------------------------------------------------------------------------
(* UpdateDeliveryStatus.                                                   *)

At(q, step) == update[q].at = step
Goto(q, step) == update' = [update EXCEPT ![q].at = step]
UpdateOnly == UNCHANGED <<repairs, reloaded, closed>>

\* The row is read; asking for the status it has already is answered at once.
ReadsRow(q, d, r, next) ==
  /\ At(q, "idle")
  /\ assignedRider[d] = r
  /\ deliveryStatus[d] # next
  /\ update' = [update EXCEPT ![q] =
       [at |-> "snapshot", delivery |-> d, rider |-> r, next |-> next,
        from |-> deliveryStatus[d], owned |-> restaurantOwned[d]]]
  /\ UNCHANGED storeVars /\ UpdateOnly

\* orderSnapshot: the order is read, unless it is a grocery order or the read
\* fails; seen says which.  A closed order is not looked at any further.
\* prepareRestaurantTransition wants it ready for a pickup, and the rider on it:
\* assign-rider is called for a rider who is not, and refused, since
\* ClaimFoodOrder has put the holder there.
ReadsOrder(q) ==
  LET d == update[q].delivery
      next == update[q].next
  IN /\ At(q, "snapshot")
     /\ \E seen \in BOOLEAN :
          /\ seen => d \in Food
          /\ IF seen /\ Closed(d)
               THEN Goto(q, "release")
               ELSE /\ RiderStep(update[q].from, next, update[q].owned)
                    /\ seen /\ next = "picked_up" => orderStatus[d] \in {"ready", "out_for_delivery"}
                    /\ (seen /\ next # "rider_arrived_restaurant" /\ ~update[q].owned)
                         => orderRider[d] = update[q].rider
                    /\ Goto(q, IF next = "rider_arrived_restaurant" THEN "advance" ELSE "call")
     /\ UNCHANGED storeVars /\ UpdateOnly

\* The rider of the request is freed, whoever has the delivery by now.
ReleasesClosed(q) ==
  /\ At(q, "release")
  /\ ReleaseClosedDelivery(update[q].delivery, update[q].delivery, update[q].rider)
  /\ update' = [update EXCEPT ![q] = NoUpdate] /\ UpdateOnly

CanonicalStatus(next) == IF next = "delivered" THEN "delivered" ELSE "out_for_delivery"
RiderMoves == {<<"ready", "out_for_delivery">>, <<"out_for_delivery", "delivered">>}

\* NotifyDeliveryStatusUpdate: restaurant-service moves the order for the rider
\* on it, or finds it moved already; so it does with a grocery order.
CallsRestaurant(q) ==
  LET d == update[q].delivery
      status == CanonicalStatus(update[q].next)
  IN /\ At(q, "call")
     /\ \/ d \in Grocery /\ UNCHANGED storeVars
        \/ /\ d \in Food
           /\ orderRider[d] = update[q].rider
           /\ \/ orderStatus[d] = status /\ UNCHANGED storeVars
              \/ <<orderStatus[d], status>> \in RiderMoves /\ KitchenMoves(d, status)
     /\ Goto(q, "advance") /\ UpdateOnly

\* AdvanceDelivery, if the row still has the status that was read.
Advances(q) ==
  /\ At(q, "advance")
  /\ deliveryStatus[update[q].delivery] = update[q].from
  /\ AdvanceTo(update[q].delivery, update[q].rider, update[q].next)
  /\ update' = [update EXCEPT ![q] = NoUpdate] /\ UpdateOnly

\* Refused, failed or cut off at any step, the answer of restaurant-service
\* lost or the service restarted: what was done stays done.
UpdateEnds(q) ==
  /\ ~At(q, "idle")
  /\ update' = [update EXCEPT ![q] = NoUpdate]
  /\ UNCHANGED storeVars /\ UpdateOnly

-----------------------------------------------------------------------------
(* ReconcileFoodDispatches: list, then reload and advance row by row.      *)

RepairOnly == UNCHANGED <<update, closed>>

\* Mutant of Behind: only a missed pickup is repaired.
BehindOnPickup(d) ==
  /\ assignedRider[d] # NoRider /\ assignedRider[d] = orderRider[d]
  /\ orderStatus[d] = "out_for_delivery"
  /\ deliveryStatus[d] \in {"rider_assigned", "rider_arrived_restaurant"}

\* Mutant of Behind: only a missed end is repaired.
BehindAtTheEnd(d) ==
  /\ assignedRider[d] # NoRider /\ assignedRider[d] = orderRider[d]
  /\ Fulfilled(d) /\ deliveryStatus[d] \in Active

\* The order has been picked up or delivered, and the delivery does not say so.
Behind(d) ==
  /\ assignedRider[d] # NoRider /\ assignedRider[d] = orderRider[d]
  /\ \/ /\ orderStatus[d] = "out_for_delivery"
        /\ deliveryStatus[d] \in {"rider_assigned", "rider_arrived_restaurant"}
     \/ Fulfilled(d) /\ deliveryStatus[d] \in Active

ListsRepairs ==
  /\ repairs = {} /\ reloaded = NoRow
  /\ repairs' = {[delivery |-> d, rider |-> assignedRider[d],
                  target |-> IF orderStatus[d] = "out_for_delivery"
                               THEN "picked_up" ELSE "delivered"] :
                   d \in {e \in Food : Behind(e)}}
  /\ repairs' # {}
  /\ UNCHANGED <<storeVars, reloaded>> /\ RepairOnly

ReloadsRow(x) ==
  /\ reloaded = NoRow
  /\ x \in repairs
  /\ repairs' = repairs \ {x}
  /\ reloaded' = [row |-> x, from |-> deliveryStatus[x.delivery]]
  /\ UNCHANGED storeVars /\ RepairOnly

\* AdvanceDelivery compares with the status just reloaded, and finds it
\* unchanged however far the delivery has come since it was listed.
RepairsRow ==
  /\ reloaded # NoRow
  /\ deliveryStatus[reloaded.row.delivery] = reloaded.from
  /\ AdvanceByRepair(reloaded.row.delivery, reloaded.row.rider, reloaded.row.target)
  /\ reloaded' = NoRow
  /\ UNCHANGED repairs /\ RepairOnly

\* The row is at its target by now, and still this rider's.
SkipsRow ==
  /\ reloaded # NoRow
  /\ LET x == reloaded.row IN
       /\ assignedRider[x.delivery] = x.rider /\ orderRider[x.delivery] = x.rider
       /\ OrderAllows(x.delivery, x.target)
       /\ deliveryStatus[x.delivery] = x.target
  /\ reloaded' = NoRow
  /\ UNCHANGED <<storeVars, repairs>> /\ RepairOnly

\* The first error ends the pass, and with it the rest of the list.
RepairFails ==
  /\ reloaded # NoRow \/ repairs # {}
  /\ reloaded' = NoRow /\ repairs' = {}
  /\ UNCHANGED storeVars /\ RepairOnly

-----------------------------------------------------------------------------
(* ClosedDeliveryWorker.                                                   *)

ClosedOnly == UNCHANGED <<update, repairs, reloaded>>

\* Mutant of Releasable: any delivery that has not ended.
ReleasableUnlessEnded(d) == deliveryStatus[d] \notin {"absent", "delivered", "cancelled"}

Releasable(d) == deliveryStatus[d] \in Active

\* Mutant of EndedByOwner: the worker looks for completed orders only.
CompletedByOwner(e) == orderStatus[e] = "completed" /\ ~deliveredAt[e]

EndedByOwner(e) == Closed(e) /\ ~Fulfilled(e)

\* FindDeliveriesClosedByRestaurant: the join is on the number alone.
ListsClosed ==
  /\ closed = {}
  /\ closed' = {x \in [delivery : Deliveries, order : Food, rider : Riders \cup {NoRider}] :
                  /\ Releasable(x.delivery)
                  /\ OrderId[x.delivery] = OrderId[x.order]
                  /\ EndedByOwner(x.order)
                  /\ x.rider = assignedRider[x.delivery]}
  /\ closed' # {}
  /\ UNCHANGED storeVars /\ ClosedOnly

\* Released, unless it moved on meanwhile or the transaction fails.
ReleasesListed(x) ==
  /\ x \in closed
  /\ ReleaseClosedDelivery(x.delivery, x.order, x.rider)
  /\ closed' = closed \ {x}
  /\ ClosedOnly

LeavesListed(x) ==
  /\ x \in closed
  /\ closed' = closed \ {x}
  /\ UNCHANGED storeVars /\ ClosedOnly

-----------------------------------------------------------------------------
\* Dispatch, kitchen and riders.  Nothing here depends on the end of the search
\* window, on whether a restaurant's rider is available, nor on whether a
\* platform rider who is not is offline or only pauses.
Elsewhere ==
  /\ \/ DispatchStep
     \/ \E d \in Food :
          \/ \E status \in OrderStatuses : KitchenMoves(d, status)
          \/ \E r \in OwnRiders :
               KitchenAssignsOwnRider(d, r) \/ UpsertRestaurantOwnedOrder(d, r)
     \/ \E r \in Platform, online \in BOOLEAN : UpsertRiderAvailability(r, online, online)
  /\ UNCHANGED lifecycleVars

UpdateStep(q) ==
  \/ \E d \in Deliveries, r \in Riders, next \in Targets : ReadsRow(q, d, r, next)
  \/ ReadsOrder(q) \/ ReleasesClosed(q) \/ CallsRestaurant(q) \/ Advances(q)
  \/ UpdateEnds(q)

RepairStep ==
  \/ ListsRepairs
  \/ \E x \in repairs : ReloadsRow(x)
  \/ RepairsRow \/ SkipsRow \/ RepairFails

ClosedStep ==
  \/ ListsClosed
  \/ \E x \in closed : ReleasesListed(x) \/ LeavesListed(x)

LifecycleNext ==
  \/ \E q \in Requests : UpdateStep(q)
  \/ RepairStep
  \/ ClosedStep
  \/ Elsewhere

LifecycleSpec == LifecycleInit /\ [][LifecycleNext]_vars

\* The two workers come back for ever and get on with their lists; a repair or
\* a release that is tried again and again goes through some time.  No rider is
\* assumed to tap, and no tap to be answered.
FairLifecycle ==
  /\ LifecycleSpec
  /\ SF_vars(ListsRepairs) /\ WF_vars(SkipsRow \/ RepairsRow \/ RepairFails)
  /\ SF_vars(\E x \in repairs : ReloadsRow(x)) /\ SF_vars(RepairsRow)
  /\ SF_vars(ListsClosed) /\ SF_vars(\E x \in closed : ReleasesListed(x))
  /\ WF_vars(\E x \in closed : LeavesListed(x))

-----------------------------------------------------------------------------
(* Properties.                                                             *)

\* A rider is busy with an order only while on an active delivery of that
\* number.  One who stays busy without it is offered nothing ever again, and no
\* worker looks for such riders.
BusyIsOnDelivery ==
  \A r \in Riders : currentOrder[r] # NoOrder =>
    \E d \in Deliveries :
      /\ OrderId[d] = currentOrder[r]
      /\ assignedRider[d] = r /\ deliveryStatus[d] \in Active

\* A lost answer, a restart between the two commits or a failed write is made up
\* for: an order on its way is not shown at the restaurant for ever.
PickupsAreRepaired ==
  \A d \in Food :
    []<>~(/\ orderStatus[d] = "out_for_delivery"
          /\ assignedRider[d] = orderRider[d]
          /\ deliveryStatus[d] \in {"rider_assigned", "rider_arrived_restaurant"})

\* A platform rider whose order was delivered is paid for it, whatever was lost
\* in between and whoever closes the order afterwards.  A row that was ever the
\* restaurant's own arrangement is paid by nobody here.
DeliveredIsPaid ==
  \A d \in Food, r \in Platform :
    (Fulfilled(d) /\ assignedRider[d] = r /\ ~restaurantOwned[d]) ~> (earnings[d][r] = 1)

\* When the owner ends an order the delivery ends too, and its rider is free.
ClosedOrderFreesRider ==
  \A d \in Food, r \in Riders :
    []<>~(/\ Closed(d) /\ ~Fulfilled(d)
          /\ assignedRider[d] = r /\ deliveryStatus[d] \in Active)

Progress ==
  <<"rider_assigned", "rider_arrived_restaurant", "picked_up", "on_the_way", "delivered">>
Rank(status) == CHOOSE i \in DOMAIN Progress : Progress[i] = status

\* While a rider has a delivery its status only ever moves forward.
StatusNeverGoesBack ==
  [][\A d \in Deliveries :
       /\ deliveryStatus[d] \in Active /\ deliveryStatus'[d] \in Active \cup {"delivered"}
       /\ assignedRider'[d] = assignedRider[d]
       => Rank(deliveryStatus[d]) <= Rank(deliveryStatus'[d])]_vars
=============================================================================
