-------------------------- MODULE Lifecycle_proofs --------------------------
(***************************************************************************)
(* Theorems about Lifecycle: updates, repairs and releases, each acting on *)
(* what it read some steps before, only ever do what DeliveryStore allows, *)
(* so what is proved of the tables holds with them as well.                *)
(***************************************************************************)
EXTENDS Lifecycle, DeliveryStore_proofs

\* What an update has checked is still so when it acts on it: a row that was
\* the restaurant's stays the restaurant's, and the step asked for is one that
\* the status read allows.
UpdatesValid ==
  \A q \in Requests : update[q].at # "idle" =>
    /\ update[q].owned => restaurantOwned[update[q].delivery]
    /\ update[q].at \in {"call", "advance"} =>
         RiderStep(update[q].from, update[q].next, update[q].owned)

LifecycleInv == LifecycleTypeOK /\ Agreement /\ UpdatesValid

-----------------------------------------------------------------------------
(* The steps of an update.                                                 *)

\* An update that is not idle is a record of all its fields.
LEMMA OpenUpdate ==
  ASSUME LifecycleTypeOK, NEW q \in Requests, update[q].at # "idle"
  PROVE  update[q] \in Update
BY DEF LifecycleTypeOK, NoUpdate

\* Moving an update to another step changes nothing else of it.
LEMMA UpdateGoes ==
  ASSUME LifecycleTypeOK, NEW q \in Requests, update[q].at # "idle",
         NEW step \in {"release", "call", "advance"}, Goto(q, step)
  PROVE  /\ update' \in [Requests -> {NoUpdate} \cup Update]
         /\ update' = [update EXCEPT ![q] = [update[q] EXCEPT !.at = step]]
<1>1. [update[q] EXCEPT !.at = step] \in Update
  BY OpenUpdate DEF Update
<1>2. update' = [update EXCEPT ![q] = [update[q] EXCEPT !.at = step]]
  BY DEF Goto, LifecycleTypeOK
<1> QED
  BY <1>1, <1>2 DEF LifecycleTypeOK

\* Every step of an update leaves it well typed.
LEMMA UpdateTypes ==
  ASSUME LifecycleTypeOK, NEW q \in Requests, UpdateStep(q)
  PROVE  update' \in [Requests -> {NoUpdate} \cup Update]
<1>1. ASSUME NEW d \in Deliveries, NEW r \in Riders, NEW next \in Targets,
             ReadsRow(q, d, r, next)
      PROVE  update' \in [Requests -> {NoUpdate} \cup Update]
  <2>1. [at |-> "snapshot", delivery |-> d, rider |-> r, next |-> next,
         from |-> deliveryStatus[d], owned |-> restaurantOwned[d]] \in Update
    BY DEF LifecycleTypeOK, TypeOK, Update
  <2> QED
    BY <1>1, <2>1 DEF ReadsRow, LifecycleTypeOK
<1>2. CASE ReadsOrder(q)
  <2>1. update[q].at # "idle"
    BY <1>2 DEF ReadsOrder, At
  <2>2. Goto(q, "release") \/ Goto(q, "call") \/ Goto(q, "advance")
    BY <1>2 DEF ReadsOrder
  <2> QED
    BY <2>1, <2>2, UpdateGoes
<1>3. CASE CallsRestaurant(q)
  BY <1>3, UpdateGoes DEF CallsRestaurant, At
<1>4. CASE ReleasesClosed(q) \/ Advances(q) \/ UpdateEnds(q)
  BY <1>4 DEF ReleasesClosed, Advances, UpdateEnds, LifecycleTypeOK
<1> QED
  BY <1>1, <1>2, <1>3, <1>4 DEF UpdateStep

\* A step of an update changes the tables as one transaction does, or as
\* restaurant-service does, or not at all.
LEMMA UpdateStoreStep ==
  ASSUME LifecycleInv, NEW q \in Requests, UpdateStep(q)
  PROVE  [StoreNext]_storeVars
<1> DEFINE d == update[q].delivery
           r == update[q].rider
<1>0. LifecycleTypeOK /\ TypeOK
  BY DEF LifecycleInv, LifecycleTypeOK
<1>1. ASSUME update[q].at # "idle"
      PROVE  /\ d \in Deliveries /\ r \in Riders
             /\ update[q].next \in Targets
  BY <1>0, <1>1, OpenUpdate DEF Update
<1>2. CASE ReleasesClosed(q)
  <2>1. d \in Deliveries /\ r \in Riders /\ ReleaseClosedDelivery(d, d, r)
    BY <1>1, <1>2 DEF ReleasesClosed, At
  <2> QED
    BY <2>1 DEF StoreNext, LifecycleStep
<1>3. CASE CallsRestaurant(q)
  <2>1. \/ UNCHANGED storeVars
        \/ d \in Food /\ KitchenMoves(d, CanonicalStatus(update[q].next))
    BY <1>3 DEF CallsRestaurant
  <2>2. CanonicalStatus(update[q].next) \in OrderStatuses
    BY DEF CanonicalStatus, OrderStatuses
  <2> QED
    BY <2>1, <2>2 DEF StoreNext, Kitchen
<1>4. CASE Advances(q)
  <2>1. /\ update[q].at = "advance"
        /\ deliveryStatus[d] = update[q].from
        /\ AdvanceTo(d, r, update[q].next)
    BY <1>4 DEF Advances, At
  <2>2. RiderStep(deliveryStatus[d], update[q].next, restaurantOwned[d])
    <3>1. /\ RiderStep(update[q].from, update[q].next, update[q].owned)
          /\ update[q].owned => restaurantOwned[d]
      BY <2>1 DEF LifecycleInv, UpdatesValid
    <3> QED
      BY <2>1, <3>1 DEF RiderStep
  <2>3. /\ d \in Deliveries /\ r \in Riders
        /\ update[q].next \in Active \cup {"delivered"}
    BY <1>1, <2>1 DEF Targets, Active
  <2>4. AdvanceByRider(d, r, update[q].next)
    BY <2>1, <2>2 DEF AdvanceByRider
  <2> QED
    BY <2>3, <2>4 DEF StoreNext, LifecycleStep
<1>5. CASE \/ ReadsOrder(q) \/ UpdateEnds(q)
           \/ \E e \in Deliveries, p \in Riders, next \in Targets : ReadsRow(q, e, p, next)
  BY <1>5 DEF ReadsOrder, UpdateEnds, ReadsRow
<1> QED
  BY <1>2, <1>3, <1>4, <1>5 DEF UpdateStep

-----------------------------------------------------------------------------
(* The steps of the two workers.                                           *)

\* The lists stay well typed: a delivery that is listed is one that somebody
\* has, since a row nobody has is not active.
LEMMA WorkerTypes ==
  ASSUME LifecycleInv, RepairStep \/ ClosedStep
  PROVE  /\ repairs' \subseteq Repair
         /\ reloaded' \in {NoRow} \cup [row : Repair, from : DeliveryStatuses]
         /\ closed' \subseteq ClosedRow
<1> USE DEF LifecycleInv, LifecycleTypeOK, RepairOnly, ClosedOnly
<1>1. CASE ListsRepairs
  <2>1. ASSUME NEW d \in Food, Behind(d)
        PROVE  [delivery |-> d, rider |-> assignedRider[d],
                target |-> IF orderStatus[d] = "out_for_delivery"
                             THEN "picked_up" ELSE "delivered"] \in Repair
    <3>1. assignedRider[d] \in Riders
      BY <2>1 DEF Behind, TypeOK, Food
    <3> QED
      BY <3>1 DEF Repair
  <2> QED
    BY <1>1, <2>1 DEF ListsRepairs
<1>2. ASSUME NEW x \in repairs, ReloadsRow(x)
      PROVE  /\ repairs' \subseteq Repair
             /\ reloaded' \in {NoRow} \cup [row : Repair, from : DeliveryStatuses]
             /\ closed' \subseteq ClosedRow
  <2>1. x \in Repair /\ deliveryStatus[x.delivery] \in DeliveryStatuses
    BY DEF Repair, TypeOK, Food
  <2> QED
    BY <1>2, <2>1 DEF ReloadsRow
<1>3. CASE RepairsRow \/ SkipsRow \/ RepairFails
  BY <1>3 DEF RepairsRow, SkipsRow, RepairFails
<1>4. CASE ListsClosed
  <2>1. ASSUME NEW x \in closed'
        PROVE  x \in ClosedRow
    <3>1. /\ x \in [delivery : Deliveries, order : Food, rider : Riders \cup {NoRider}]
          /\ Releasable(x.delivery)
          /\ x.rider = assignedRider[x.delivery]
      BY <1>4, <2>1 DEF ListsClosed
    <3>2. assignedRider[x.delivery] # NoRider
      BY <3>1 DEF Releasable, Agreement, Matching, UnassignedRowsSearch, Active, Searching
    <3> QED
      BY <3>1, <3>2 DEF ClosedRow
  <2> QED
    BY <1>4, <2>1 DEF ListsClosed
<1>5. ASSUME NEW x \in closed, ReleasesListed(x) \/ LeavesListed(x)
      PROVE  /\ repairs' \subseteq Repair
             /\ reloaded' \in {NoRow} \cup [row : Repair, from : DeliveryStatuses]
             /\ closed' \subseteq ClosedRow
  BY <1>5 DEF ReleasesListed, LeavesListed
<1> QED
  BY <1>1, <1>2, <1>3, <1>4, <1>5 DEF RepairStep, ClosedStep

\* A step of a worker changes the tables as one transaction does, or not at all.
LEMMA WorkerStoreStep ==
  ASSUME LifecycleTypeOK, RepairStep \/ ClosedStep
  PROVE  [StoreNext]_storeVars
<1>1. CASE RepairsRow
  <2>1. reloaded.row \in Repair
    BY <1>1 DEF RepairsRow, LifecycleTypeOK
  <2>2. /\ reloaded.row.delivery \in Deliveries /\ reloaded.row.rider \in Riders
        /\ reloaded.row.target \in Active \cup {"delivered"}
    BY <2>1 DEF Repair, Food, Active
  <2> QED
    BY <1>1, <2>2 DEF RepairsRow, StoreNext, LifecycleStep
<1>2. ASSUME NEW x \in closed, ReleasesListed(x)
      PROVE  [StoreNext]_storeVars
  <2>1. x.delivery \in Deliveries /\ x.order \in Deliveries /\ x.rider \in Riders
    BY DEF LifecycleTypeOK, ClosedRow, Food
  <2> QED
    BY <1>2, <2>1 DEF ReleasesListed, StoreNext, LifecycleStep
<1>3. ASSUME \/ ListsRepairs \/ SkipsRow \/ RepairFails \/ ListsClosed
             \/ \E x \in repairs : ReloadsRow(x)
             \/ \E x \in closed : LeavesListed(x)
      PROVE  UNCHANGED storeVars
  BY <1>3 DEF ListsRepairs, SkipsRow, RepairFails, ListsClosed, ReloadsRow, LeavesListed
<1> QED
  BY <1>1, <1>2, <1>3 DEF RepairStep, ClosedStep

-----------------------------------------------------------------------------
(* All steps.                                                              *)

\* Every step of LifecycleSpec is one DeliveryStore allows, or leaves the
\* tables alone.
LEMMA LifecycleStoreStep ==
  ASSUME LifecycleInv, [LifecycleNext]_vars
  PROVE  [StoreNext]_storeVars
<1>1. CASE Elsewhere
  <2>1. CASE DispatchStep
    BY <2>1 DEF StoreNext
  <2>2. ASSUME NEW d \in Food,
               \/ \E status \in OrderStatuses : KitchenMoves(d, status)
               \/ \E r \in OwnRiders : KitchenAssignsOwnRider(d, r)
        PROVE  StoreNext
    BY <2>2 DEF StoreNext, Kitchen
  <2>3. ASSUME NEW d \in Food, NEW r \in OwnRiders, UpsertRestaurantOwnedOrder(d, r)
        PROVE  StoreNext
    BY <2>3, StoreAssumption DEF StoreNext, LifecycleStep, StoreAssumption, Food
  <2>4. ASSUME NEW r \in Platform, NEW online \in BOOLEAN,
               UpsertRiderAvailability(r, online, online)
        PROVE  StoreNext
    BY <2>4 DEF StoreNext, LifecycleStep, Platform
  <2> QED
    BY <1>1, <2>1, <2>2, <2>3, <2>4 DEF Elsewhere
<1>2. CASE UNCHANGED vars
  BY <1>2 DEF vars
<1> QED
  BY <1>1, <1>2, UpdateStoreStep, WorkerStoreStep DEF LifecycleNext, LifecycleInv

\* Nothing takes restaurant_owned back.
LEMMA OwnedForEver ==
  ASSUME TypeOK, [StoreNext]_storeVars, NEW d \in Deliveries, restaurantOwned[d]
  PROVE  restaurantOwned'[d]
<1> USE DEF deliveryVars
<1>1. CASE UNCHANGED storeVars
  BY <1>1 DEF storeVars
<1>2. CASE DispatchStep
  <2>1. ASSUME NEW e \in Deliveries,
               CreateDeliveryOrder(e) \/ \E s \in Searching : SetSearchStatus(e, s)
        PROVE  restaurantOwned' = restaurantOwned
    BY <2>1 DEF CreateDeliveryOrder, SetSearchStatus
  <2>2. ASSUME NEW e \in Deliveries, NEW r \in Riders,
               \/ OfferSelected(e, r) \/ OfferInserted(e, r) \/ RejectRequest(e, r)
               \/ AcceptRequest(e, r) \/ WithdrawFoodDelivery(e, r)
        PROVE  restaurantOwned' = restaurantOwned
    BY <2>2 DEF OfferSelected, OfferInserted, RejectRequest, AcceptRequest,
                WithdrawFoodDelivery
  <2>3. ASSUME NEW pairs,
               \/ ExpirePendingRequests(pairs) \/ OffersRolledBack(pairs)
               \/ SearchesSelected \/ SearchesExpired
        PROVE  restaurantOwned' = restaurantOwned
    BY <2>3 DEF ExpirePendingRequests, OffersRolledBack, SearchesSelected, SearchesExpired
  <2> QED
    BY <1>2, <2>1, <2>2, <2>3 DEF DispatchStep
<1>3. CASE LifecycleStep
  <2>1. ASSUME NEW e \in Deliveries, NEW r \in Riders, UpsertRestaurantOwnedOrder(e, r)
        PROVE  restaurantOwned'[d]
    BY <2>1 DEF UpsertRestaurantOwnedOrder, OwnOrderSelected, OwnOrderUpserted,
                OwnOrderDropped, TypeOK
  <2>2. ASSUME NEW e \in Deliveries, NEW r \in Riders, NEW next, AdvanceTo(e, r, next)
        PROVE  restaurantOwned' = restaurantOwned
    BY <2>2 DEF AdvanceTo
  <2>3. ASSUME NEW e \in Deliveries, NEW f \in Deliveries, NEW r \in Riders,
               ReleaseClosedDelivery(e, f, r)
        PROVE  restaurantOwned' = restaurantOwned
    BY <2>3 DEF ReleaseClosedDelivery
  <2>4. ASSUME NEW r \in Riders, NEW on \in BOOLEAN, NEW av \in BOOLEAN,
               UpsertRiderAvailability(r, on, av)
        PROVE  restaurantOwned' = restaurantOwned
    BY <2>4 DEF UpsertRiderAvailability
  <2> QED
    BY <1>3, <2>1, <2>2, <2>3, <2>4 DEF LifecycleStep, AdvanceByRider, AdvanceByRepair
<1>4. CASE Kitchen
  BY <1>4 DEF Kitchen, KitchenMoves, KitchenAssignsOwnRider, WindowCloses
<1> QED
  BY <1>1, <1>2, <1>3, <1>4 DEF StoreNext

\* An update reads the row as it is, asks for a step the row allows, and the row
\* may become the restaurant's meanwhile but not cease to be.
LEMMA UpdatesStayValid ==
  ASSUME LifecycleInv, [LifecycleNext]_vars
  PROVE  UpdatesValid'
<1>0. LifecycleTypeOK /\ TypeOK /\ UpdatesValid /\ [StoreNext]_storeVars
  BY LifecycleStoreStep DEF LifecycleInv, LifecycleTypeOK
<1>1. ASSUME NEW p \in Requests, update'[p] = update[p], update'[p].at # "idle"
      PROVE  /\ update'[p].owned => restaurantOwned'[update'[p].delivery]
             /\ update'[p].at \in {"call", "advance"} =>
                  RiderStep(update'[p].from, update'[p].next, update'[p].owned)
  <2>1. update[p].delivery \in Deliveries
    BY <1>0, <1>1, OpenUpdate DEF Update
  <2> QED
    BY <1>0, <1>1, <2>1, OwnedForEver DEF UpdatesValid
<1>2. ASSUME UNCHANGED update
      PROVE  UpdatesValid'
  BY <1>1, <1>2 DEF UpdatesValid
<1>3. ASSUME NEW q \in Requests, UpdateStep(q)
      PROVE  UpdatesValid'
  <2>1. ASSUME NEW d \in Deliveries, NEW r \in Riders, NEW next \in Targets,
               ReadsRow(q, d, r, next)
        PROVE  UpdatesValid'
    <3>1. /\ update' = [update EXCEPT ![q] =
               [at |-> "snapshot", delivery |-> d, rider |-> r, next |-> next,
                from |-> deliveryStatus[d], owned |-> restaurantOwned[d]]]
          /\ restaurantOwned' = restaurantOwned
      BY <2>1 DEF ReadsRow, storeVars, deliveryVars
    <3>2. ASSUME NEW p \in Requests, p # q
          PROVE  update'[p] = update[p]
      BY <1>0, <3>1, <3>2 DEF LifecycleTypeOK
    <3>3. update'[q] = [at |-> "snapshot", delivery |-> d, rider |-> r, next |-> next,
                        from |-> deliveryStatus[d], owned |-> restaurantOwned[d]]
      BY <1>0, <3>1 DEF LifecycleTypeOK
    <3> QED
      BY <1>1, <3>1, <3>2, <3>3 DEF UpdatesValid
  <2>2. ASSUME NEW step \in {"release", "call", "advance"}, Goto(q, step),
               update[q].at # "idle",
               step \in {"call", "advance"} =>
                 RiderStep(update[q].from, update[q].next, update[q].owned)
        PROVE  UpdatesValid'
    <3>1. update' = [update EXCEPT ![q] = [update[q] EXCEPT !.at = step]]
      BY <1>0, <2>2, UpdateGoes
    <3>2. ASSUME NEW p \in Requests, p # q
          PROVE  update'[p] = update[p]
      BY <1>0, <3>1, <3>2 DEF LifecycleTypeOK
    <3>3. update[q] \in Update
      BY <1>0, <2>2, OpenUpdate
    <3>4. /\ update'[q].at = step
          /\ update'[q].delivery = update[q].delivery
          /\ update'[q].from = update[q].from
          /\ update'[q].next = update[q].next
          /\ update'[q].owned = update[q].owned
      BY <1>0, <3>1, <3>3 DEF LifecycleTypeOK, Update
    <3>5. update[q].owned => restaurantOwned'[update[q].delivery]
      BY <1>0, <2>2, <3>3, OwnedForEver DEF UpdatesValid, Update
    <3> QED
      BY <1>1, <2>2, <3>2, <3>4, <3>5 DEF UpdatesValid
  <2>3. CASE ReadsOrder(q)
    <3>1. update[q].at # "idle"
      BY <2>3 DEF ReadsOrder, At
    <3>2. \/ Goto(q, "release")
          \/ /\ RiderStep(update[q].from, update[q].next, update[q].owned)
             /\ Goto(q, "call") \/ Goto(q, "advance")
      BY <2>3 DEF ReadsOrder
    <3> QED
      BY <2>2, <3>1, <3>2
  <2>4. CASE CallsRestaurant(q)
    <3>1. update[q].at = "call" /\ Goto(q, "advance")
      BY <2>4 DEF CallsRestaurant, At
    <3>2. RiderStep(update[q].from, update[q].next, update[q].owned)
      BY <1>0, <3>1 DEF UpdatesValid
    <3> QED
      BY <2>2, <3>1, <3>2
  <2>5. CASE ReleasesClosed(q) \/ Advances(q) \/ UpdateEnds(q)
    <3>1. update' = [update EXCEPT ![q] = NoUpdate]
      BY <2>5 DEF ReleasesClosed, Advances, UpdateEnds
    <3>2. ASSUME NEW p \in Requests, p # q
          PROVE  update'[p] = update[p]
      BY <1>0, <3>1, <3>2 DEF LifecycleTypeOK
    <3>3. update'[q].at = "idle"
      BY <1>0, <3>1 DEF LifecycleTypeOK, NoUpdate
    <3> QED
      BY <1>1, <3>2, <3>3 DEF UpdatesValid
  <2> QED
    BY <1>3, <2>1, <2>3, <2>4, <2>5 DEF UpdateStep
<1>4. RepairStep \/ ClosedStep \/ Elsewhere \/ UNCHANGED vars => UNCHANGED update
  BY DEF RepairStep, ListsRepairs, ReloadsRow, RepairsRow, SkipsRow, RepairFails, RepairOnly,
         ClosedStep, ListsClosed, ReleasesListed, LeavesListed, ClosedOnly,
         Elsewhere, vars, lifecycleVars
<1> QED
  BY <1>2, <1>3, <1>4 DEF LifecycleNext

\* The invariant on which the theorems below rest.
LEMMA LifecycleInvariant == LifecycleSpec => []LifecycleInv
<1>1. LifecycleInit => LifecycleInv
  <2> SUFFICES ASSUME LifecycleInit PROVE LifecycleInv
    OBVIOUS
  <2>1. TypeOK /\ Agreement
    BY TypeInit, AgreementInit DEF LifecycleInit
  <2>2. UpdatesValid
    BY DEF LifecycleInit, UpdatesValid, NoUpdate
  <2> QED
    BY <2>1, <2>2 DEF LifecycleInit, LifecycleInv, LifecycleTypeOK
<1>2. LifecycleInv /\ [LifecycleNext]_vars => LifecycleInv'
  <2> SUFFICES ASSUME LifecycleInv, [LifecycleNext]_vars PROVE LifecycleInv'
    OBVIOUS
  <2>1. TypeOK' /\ Agreement'
    BY LifecycleStoreStep, StoreTypes, AgreementKept DEF LifecycleInv, LifecycleTypeOK
  <2>2. CASE RepairStep \/ ClosedStep
    <3>1. UNCHANGED update
      BY <2>2 DEF RepairStep, ListsRepairs, ReloadsRow, RepairsRow, SkipsRow, RepairFails,
                  RepairOnly, ClosedStep, ListsClosed, ReleasesListed, LeavesListed, ClosedOnly
    <3> QED
      BY <2>1, <2>2, <3>1, WorkerTypes, UpdatesStayValid DEF LifecycleInv, LifecycleTypeOK
  <2>3. ASSUME NEW q \in Requests, UpdateStep(q)
        PROVE  LifecycleInv'
    <3>1. UNCHANGED <<repairs, reloaded, closed>>
      BY <2>3 DEF UpdateStep, UpdateOnly, ReadsRow, ReadsOrder, ReleasesClosed,
                  CallsRestaurant, Advances, UpdateEnds
    <3> QED
      BY <2>1, <2>3, <3>1, UpdateTypes, UpdatesStayValid DEF LifecycleInv, LifecycleTypeOK
  <2>4. CASE Elsewhere \/ UNCHANGED vars
    <3>1. UNCHANGED lifecycleVars
      BY <2>4 DEF Elsewhere, vars
    <3> QED
      BY <2>1, <3>1, UpdatesStayValid DEF LifecycleInv, LifecycleTypeOK, lifecycleVars
  <2> QED
    BY <2>2, <2>3, <2>4 DEF LifecycleNext
<1> QED
  BY <1>1, <1>2, PTL DEF LifecycleSpec

-----------------------------------------------------------------------------
\* Updates, lists and tables are well typed, for any number of requests; in
\* particular, what a worker lists always has a rider to free or to advance.
THEOREM LifecycleTyping == LifecycleSpec => []LifecycleTypeOK
<1>1. LifecycleInv => LifecycleTypeOK
  BY DEF LifecycleInv
<1> QED
  BY <1>1, LifecycleInvariant, PTL

\* Whatever has become of what they read: every update, repair and release is a
\* transaction that DeliveryStore allows at the moment it commits.
THEOREM LifecycleImplements == LifecycleSpec => StoreSpec
<1>1. LifecycleInit => StoreInit
  BY DEF LifecycleInit
<1>2. LifecycleInv /\ [LifecycleNext]_vars => [StoreNext]_storeVars
  BY LifecycleStoreStep
<1> QED
  BY <1>1, <1>2, LifecycleInvariant, PTL DEF LifecycleSpec, StoreSpec

\* With any number of updates, repairs and releases under way, the two rows name
\* the same platform rider, unless a late upsert put the restaurant's on its own
\* row; the accepted offer is that of the platform rider on the order, and the
\* customer reads the status of the delivery of the one on the row.
THEOREM ProgressAgrees ==
  LifecycleSpec => [](/\ OneRiderOnBothRows
                      /\ AcceptedOfferIsTheHolder
                      /\ CustomerSeesTheDelivery)
BY LifecycleImplements, RidersAgree, PTL

\* With any number of updates, repairs and releases under way, each acting on
\* what it read some steps before, the tables keep the promise of Custody: no
\* delivery is ahead of its order, and what was delivered is paid once.
THEOREM ProgressKeepsCustody ==
  ASSUME OrdersMoveForward, NoSharedIds
  PROVE  LifecycleSpec => /\ CustodyKept
                          /\ [](HolderIsBusy /\ OneDeliveryEach)
                          /\ [](PaidExactlyOnce /\ CanonicalOrderFirst)
BY LifecycleImplements, KeepsCustody, HoldersBusy, OneDelivery, EarningsExact,
   OrderComesFirst, OrdersMoveForward, NoSharedIds, PTL
=============================================================================
