# TLA+ models of rider-service

rider-service gives delivery orders to riders: it learns of an order from a
queue, rings riders nearby, lets one of them accept, follows the delivery to its
end and books the rider's earning. It shares its PostgreSQL tables with
restaurant-service, which owns the canonical order, and keeps a lock and an
index in Redis. Around that core it keeps the riders' wallets and contracts, says
who may work for whom, computes routes, carries chat, sockets and pushes, and
shows customers where their rider is. This directory holds the models of the core
and of the components around it, the instances TLC checks and the theorems TLAPS
proves about them.

Paths below are under `src/internal/` of the repository.

## Inventory

| component | state | operations | talks to |
|---|---|---|---|
| dispatch tables (`repository/delivery_repo.go`, `online_dispatch.go`, `delivery_transition.go`, `rider_membership.go`) | `orders`, `delivery_orders`, `delivery_order_requests`, `rider_availability`, `rider_earnings` | create, offer, accept, decline, expire, withdraw, advance, release, own-rider upsert, availability, search expiry | everything, through transactions |
| dispatch service (`service/delivery_service.go`) | what each request or job has read so far | events, search, offers, accept, decline, withdraw, status updates | tables, Redis, restaurant-service over HTTP, hub, push |
| workers (`worker/`) | one goroutine each | SQS consumer, redispatch sweep, offer expiry, release of closed deliveries | dispatch service, tables |
| Redis cache (`cache/redis_dispatch.go`) | `lock:order:<n>`, rider index | take and release the acceptance lock, propose candidates | dispatch service |
| lifecycle (`service/delivery_lifecycle.go`) | snapshots of orders, background callbacks | rider's progress, repair, release, assignment callback | tables, restaurant-service |
| restaurant-service (external) | `order_status`, `delivered_at`, `assigned_rider_user_id` | kitchen and owner moves, own-rider assignment | shared rows, SQS, HTTP |
| own-rider events (`ProcessRiderAssignedEvent`, `worker/sqs_consumer.go`) | `processed_events` | check, look up, upsert, mark, delete the message | restaurant-service, tables |
| membership and access (`rider_membership.go`, handlers, SQL triggers) | `restaurant_riders`, invitations, `rider_platform_access` | invite, join, decline, remove, reapply, admit | offers, accepts and availability, by two row locks |
| wallet (`repository/rider_wallet_repo.go`) | balances, ledger, settlements | post, settle, adjust | advance (same transaction) |
| contracts and pay (`riderpay/`, `rider_contract_pay.go`, `handler/rider_salary.go`) | contracts, audit, accruals, pay frozen with offers and assignments, reviews | save, accrue, quote, freeze, pay, review | offers, accepts, wallet |
| route service (`service/delivery_route_service.go`, `maps/`) | sessions, calls in flight, cooldowns, budgets, slots | get route, refresh, sweep | Google Routes |
| hub (`ws/`) | slices of clients per rider, order and chat; send buffers | join, leave, send | phones |
| push (`push/`) | slots, access token, device tokens | dispatch, mint, post, forget | FCM |
| chat (`service/chat_service.go`, `repository/chat_repo.go`) | messages, read marks | authorise, insert, list, mark read | tables, hub, push |
| locations and tracking (`location_service.go`, `customer_tracking_service.go`) | `users`, `rider_locations`, the index | upload, tell the customer, snapshot, tracking endpoint | tables, Redis, hub, restaurant-service |
| legacy order endpoints (`service/order_service.go`) | `rider_earnings`, `users.on_trip`, history | taps of older apps | restaurant-service |
| earnings, administration, HTTP layer, configuration | rows, settings | queries and single-row writes | tables |

What is hard here is interleaving. Five kinds of process and restaurant-service change
the same four rows, in transactions that read before they lock; READ COMMITTED lets a
statement write a row that changed while it waited, because of another that it read
before and does not look at again; the service carries what it read across HTTP calls;
the lock in Redis is no part of any transaction; and everything is repaired by sweeps
that may run at any moment. What has to be true all the same:

- tables: both rows name the same platform rider, but for one late write (see Runs);
  one accepted offer, that of the rider on the order; a rider carries one delivery and
  is paid once for it; the projection is never ahead of the canonical order;
- dispatch: an open order is offered again as long as somebody can take it, an expired
  search is shown as such, Redis never decides against PostgreSQL, an answer is final;
- lifecycle: a lost response is repaired, a status never goes back, a closed order
  frees its rider, a delivered order is paid;
- own-rider events: whom the owner assigns comes to stand on the delivery, unless
  platform dispatch had it first;
- access: a rider works for one master;
- wallet: entries chain, fractions of a coin notwithstanding, settlements match them;
  contracts: no save is lost, no day is paid twice, a rider is paid what the offer
  said, once;
- routes: one call per order and destination, within the budgets, leading where the
  client asked; an encoded route is decoded as it was;
- hub: a message is tried on every listener once and waits for none; push: no slot is
  lost; chat: nobody reads another rider's thread, no message is doubled or skipped;
- tracking: an order's channel and the snapshot show where a rider is only while he
  carries the order; the tracking endpoint shows whoever is on record for it, also
  when it has ended, and nobody else;
- search: no rider nearby is hidden by the index; legacy: no fee without delivery.

## Modules

| module | what it is |
|---|---|
| `Custody` | abstract: a delivery is open, held, cancelled or delivered; who holds it and who is credited |
| `DeliveryStore` | the tables, one action per transaction of `repository/` and per move of restaurant-service; implements `Custody` (`CustodyKept`) |
| `DeliveryStore_proofs` | theorems about `DeliveryStore` |
| `Dispatch` | extends `DeliveryStore`: consumers, sweeper, expiry worker, accept requests and the Redis lock, one step per statement or transaction |
| `Dispatch_proofs` | theorems about `Dispatch` |
| `Lifecycle` | extends `DeliveryStore`: status updates of riders, the repair sweep and the closed-delivery worker, one step per statement, transaction or HTTP call |
| `Lifecycle_proofs` | theorems about `Lifecycle` |
| `OwnEvents` | the path of an own-rider assignment from restaurant-service to `delivery_orders` |
| `Access` | membership, admission and platform work of a rider, under two row locks |
| `Access_proofs` | theorems about `Access` and `OwnEvents` |
| `Wallet` | the ledger under concurrent transactions |
| `Policy` | the arithmetic of a contract: validity, quote, cancellation pay |
| `Contracts` | contract saves by version and salary accruals |
| `OfferPay` | pay frozen with an offer, copied at the accept, booked at the end or reviewed |
| `Money_proofs` | theorems about `Wallet`, `LegacyOrders`, `Contracts` and `OfferPay` |
| `Routes` | the route session, shared calls, cooldowns, budgets and slots |
| `Polyline` | the codec of routes, a character at a time |
| `Hub` | the lists of websocket clients, as the arrays they are |
| `Services_proofs` | theorems about `Routes`, `Chat`, `Hub` and `Push` |
| `Push` | the notifier, the access token and FCM's answers |
| `Chat` | sending, listing and marking messages read while the delivery changes hands |
| `Tracking` | uploads of positions and snapshots of customers |
| `NearbySearch` | the search for riders that `Dispatch` takes in one step |
| `Tracking_proofs` | theorems about `Tracking`, `NearbySearch` and `Polyline` |
| `LegacyOrders` | taps of older apps on orders without a row in `delivery_orders` |
| `MCDeliveryStore`, `MCDispatch`, `MCLifecycle`, `MCServices` | constants for TLC; `MCServices` also puts the thirteen components around the store into one specification |
| `MCServices_proofs` | the theorem about that specification |

### DeliveryStore

Each column that a guard reads is a variable: of `orders` the status
(`orderStatus`), the rider, whether `delivered_at` is set, whether the search
window is still open and the `delivery_status` the customer app reads
(`orderView`); of `delivery_orders` the status, the rider and `restaurant_owned`;
the status of each offer; a rider's `is_online`, `is_available` and
`current_order_id`; and the earnings booked. An action is a whole transaction at
its commit, with the guards of its `WHERE` clauses, and may be called at any time
with any argument its callers can pass. Three statements are split, because
READ COMMITTED lets others commit between the rows they select and the rows they
write: the `INSERT ... SELECT` of `CreateRequest` (`OfferSelected`,
`OfferInserted`), the `UPDATE ... WHERE order_id IN (SELECT ...)` of
`ExpireFoodSearches` (`SearchesSelected`, `SearchesExpired`) and the
`INSERT ... SELECT ... ON CONFLICT DO UPDATE` of `UpsertRestaurantOwnedOrder`
(`OwnOrderSelected`, `OwnOrderUpserted`, `OwnOrderDropped` when it fails). The
first two look again at what they write; the third does not look at the order
again, so `upserting` holds the statements that have read it, and each may write
at any later time. `OwnAssignmentEventCurrent` is a statement of its own before,
and what it found need not hold any more: it is no guard of the upsert.

The three rider columns of `orders` are one variable, as are `assigned_rider_id`
and `rider_user_id` of `delivery_orders`: every statement writes them together.
`pending`, which no row has after creation, and `rejected`, which is treated like
`cancelled` everywhere, are left out. `AdvanceDelivery` takes `restaurant_owned`
from the row its caller read; the action reads it at the commit. The two differ
only for a delivery that goes from a platform rider to the restaurant's and back
to the same platform rider while one request is open.

`KitchenSteps` says which moves restaurant-service makes. The runs use
`ForwardSteps`: an order goes forward, completing skips steps, and an order that
was delivered is not cancelled any more. `StoreAssumption` lets a food and a
grocery order have the same number; the runs number them apart, and the
consequences of a shared number are left to a later run.

### Dispatch

A job is one run of `ProcessOrderPlacedEvent` or `RedispatchOrder`; its steps are
those of the source, with everything else free to happen in between. Accepting
is three steps: `AcceptBegin` up to the row locks, `TakeLock` (SETNX) and
`AcceptCommit` or `AcceptFails`. While an accept is open, its rows are locked:
other writers of that delivery, of its order and of the rider's profile wait. A
withdrawal commits first and releases the Redis lock in a later step. A decline
or an expiry leaves a check for remaining offers behind, which counts
(`Recount`) and then writes `no_rider_found` (`CloseSearch`).

Distance, freshness of locations and ranking are abstracted to a choice: a rider who
qualifies is near, and of more than `MaxRiders` any `MaxRiders` are taken. The Redis
index proposes candidates that PostgreSQL checks again, so it changes nothing here.
The own-rider hold of `ProcessOrderPlacedEvent` cannot be reached (food events are set
to `platform`, grocery events skip it). The lock's TTL of 24 hours is longer than the
window of an order, so it does not expire. `rider_work_profiles` is taken to be
deployed: `LockPlatformRider` locks.

Faults, at most `MaxFaults`: the process stops (`Crash`), Redis is flushed, SETNX
returns an error before or after its effect, a job runs into its deadline or its
search fails.

Fairness (`FairDispatch`): the ticker of the sweeper comes back to every order
(strong: it may be busy with another); started jobs run on, since each has a
deadline; accept transactions, the checks after declines and expiries and the
release after a withdrawal run on; and search expiry gets its row locks, which
PostgreSQL queues (strong: accepts come and go). Events, riders, kitchen and the
expiry of offers are not assumed to do anything.

### Lifecycle

A status update reads the row (`ReadsRow`), then the order (`ReadsOrder`, where
the read may also fail, in which case the code goes on without it), then
releases the delivery of a closed order (`ReleasesClosed`) or calls
restaurant-service (`CallsRestaurant`, for all but the arrival) and advances the
projection if it still has the status read (`Advances`). `update` holds what was
read. `UpdateEnds` stands for every refusal, the cash check among them, for lost
answers and for restarts. The legacy routes reach the same function, in one or
two calls.

The repair half of a sweep lists rows (`ListsRepairs`), and for each reloads the
row (`ReloadsRow`) and advances it (`RepairsRow`) or finds nothing to do
(`SkipsRow`); the first error ends the pass (`RepairFails`). The closed-delivery
worker lists (`ListsClosed`) and releases row by row (`ReleasesListed`), leaving
what has moved on or failed for its next pass (`LeavesListed`). The batches of 50
are longer than the lists of the instances.

`Elsewhere` is the rest of the system: any transaction of dispatch, the kitchen,
own-rider assignments, platform riders going online and offline. It leaves out the end
of the search window and the availability of own riders, which nothing here reads. The
call records nothing but a move of the order; assign-rider, which is called for a
rider missing from the order, is taken to be refused when the order has another rider:
`ClaimFoodOrder` has recorded the holder, so the caller has lost the delivery by then,
or has only a row that a late upsert gave him. An owner does not reopen a closed
order.

Fairness (`FairLifecycle`): both workers run on a ticker for as long as the
service does and bound their passes by a deadline, so they list again and again
and get on with their lists. A repair or a release may fail, but does not fail
every time (strong fairness of `RepairsRow` and `ReleasesListed`): a model where
the database refuses one transaction for ever would refute every promise. No
rider is assumed to tap, and no tap to get anywhere.

### The components around the store

Each is a module of its own that shares no variable with the others; what it
needs of the deliveries (who carries one, when it ends) it has as actions that
may happen at any time.

`OwnEvents` — a consumer is a process: receive, check whether the assignment is
current, look it up in `processed_events`, upsert, mark, delete. SQS keeps a message
until it is deleted, in any order. The check looks at the order and at the row: one
that platform dispatch created (`dispatched`, and not `owned` since) makes the event
not current, and it is dropped for good, as the code says. Platform dispatch may
create it at any time, also behind the check. The upsert looks at the order only, and
is split here too. A mark whose error is ignored, a delete that fails, an error and a
crash are faults, at most `MaxLost`. The key has no version: assigned to X, to Y and
to X again, the second X may look like a repetition, so `AssignmentArrives` promises
that a rider assigned now has stood on the row, not that he still does, and nothing
once platform dispatch has created the row. That such an event is dropped is meant:
the order is the platform's then.

`Access` — a transaction is a kind with the list of row locks it takes, in the
order of its statements and triggers, the test it makes under the profile lock and
what it writes at its commit. Two transactions that take the locks in opposite
order end with PostgreSQL rolling one back (`RollsBackTx`). The restaurant's own
work of a rider and `users.is_available` are left out.

`Wallet` — a posting locks the balance row, writes its one or two entries and commits
or is rolled back. Amounts are float64 (`admin_rider_handler.go` accepts fractions of
a coin), the columns NUMERIC(12,2): an amount is a number of quarters of a coin, of
which a column keeps the nearest whole coin (`Nearest`; at a half either neighbour,
since float64 may lie on either side of it). The amount and the balance after it are
rounded each by itself, so from 10.00 a penalty of 2.505 leaves 7.50 with an amount of
-2.51. `Contracts` — a page holds the version it was loaded with; a salary transaction
holds the contract row from its checks to its commit. Dates are weeks. `OfferPay` —
the rollout switch may change at any time, since a restart reads it anew; the contract
a rider has when an offer is opened is a choice. `Policy` is exact, rounding included.

`Routes` — a request is a process with the steps between which the service's lock is
given back. Time is counted in units of the shortest cooldown; a sample on or off the
route is a choice, so the geometry that decides it is left out; of the two budget
windows (a minute, a day) one is modelled, and the pruning of counters of orders long
gone is not. The table's limit of 5000 routes may hit any order. The route cache in
Redis is left out because it never serves: `google_routes.go:155` needs legs, which
the field mask does not request. A call is tried again after an answer of 429, 500,
502, 503 or 504, keeping its slot and its entry in flight (`TriesAgain`); anything
else that is not a route ends it for all who wait, an answer lost on the way and the
end of the first requester's context among it (`Calls` with "refused"). Budgets count
calls, not tries, and what Google charges for a try is in no model: the code does not
know it.

`Hub` — a Go slice is a length and an array in `memory`; removal moves elements one
store at a time while a send to an order channel, which kept only the slice
header, may read them. `Push` — the mutex around minting is held through the HTTP
call. Any 404 of FCM (`fcm.go:296`) counts as a retired device.

`Chat` — the id is taken when the statement runs, the row seen when it commits. The
rate limit and the unread count are left out. `Tracking` — an upload writes the
profile, then `rider_locations`, looks up the order, sends. A position is read on two
paths (`Paths`), on both the row first, then the position: the snapshot that
restaurant-service asks for, which tests the status between the two (`ReadsDelivery`),
and `GetDeliveryTracking`, which does not and so shows the rider on record of an order
that has ended, wherever he is by then (`ReadsTrackedDelivery`). Who may ask is
`TrackingAccess`, which lets in the customer, the rider, the delivery partner and the
owner of the order's restaurant, and is left out. `held` remembers which orders the
rider carried meanwhile, or which riders a request could show on its path: history for
the property, which no action reads; so are `eligible` in `NearbySearch`, `served` in
`OwnEvents`, `present` and `disturbed` in `Hub` and `held` in `Chat`. `NearbySearch` —
near or far is all there is of a place, and of more riders than asked for any are
taken. `LegacyOrders` — what restaurant-service makes of a callback is external and
includes an answer that is lost. The order's status belongs to restaurant-service; a
tap that is refused writes nothing.

Fairness: consumers poll for ever and SQS hands out what it keeps
(`OwnEventsFairness`); sends and removals are goroutines, and the deadlines of
60 s and 10 s end a connection whose peer is silent (`HubFairness`); every push and
every route request has a goroutine, and each call out a timeout (`PushFairness`,
`RoutesFairness`). Nothing is assumed of riders, customers, owners, FCM or Google.
The four liveness properties have the form `[]<>P`: since nothing new has to begin,
P comes back after whatever has begun, so each of it ends.

## Runs

| run | instance | checks |
|---|---|---|
| `store_races` | one food delivery, platform riders a and b, own rider | `OneRiderOnBothRows`, `AcceptedOfferIsTheHolder`, `CustomerSeesTheDelivery`, `CustodyKept` |
| `store_workload` | a food and a grocery delivery, a and own | `TypeOK`, `HolderIsBusy`, `OneDeliveryEach`, `PaidExactlyOnce`, `CanonicalOrderFirst` |
| `store_declines` | one food delivery, a and b | `DeclineIsFinal`: violated |
| `dispatch_search` | one food delivery, a, b and own, sweeper, no fault, the owner does not cancel | `LockFollowsTheRow`, `DispatchTypeOK`, `PostgresDecides` |
| `dispatch_recovers` | one food delivery, a, consumer and sweeper, one fault; the owner may cancel | `NoOrderStranded`, `SearchEndIsShown` |
| `dispatch_lock_leaks` | one food delivery, a and b, sweeper, one fault | `PostgresDecides`: violated |
| `dispatch_own_rider_withdraws` | one food delivery, a and own, sweeper | `WithdrawnIsSearched`: violated |
| `lifecycle_repairs` | one food delivery, a and own, one update at a time; the owner cancels | `LifecycleTypeOK`, `PickupsAreRepaired`, `DeliveredIsPaid`, `ClosedOrderFreesRider` |
| `lifecycle_payout` | as `lifecycle_repairs`, with a alone; the owner completes too | `DeliveredIsPaid`: violated |
| `lifecycle_stale_release` | one food delivery, a and b | `BusyIsOnDelivery`: violated |
| `lifecycle_goes_back` | one food delivery, a | `StatusNeverGoesBack`: violated |
| `services` | the thirteen components around the store, one at a time | `ServicesTypeOK` and those below |

| component in `services` | instance | checks |
|---|---|---|
| wallet | one rider, two transactions, amounts of 0 and of 5 quarters of a coin | `LedgerChains`, `SettlementsClose` |
| contracts | one rider, two administrators, five contracts, three versions, two accruals | `NoSaveLost`, `SalariesDisjoint` |
| offer pay | one delivery, two riders, a salary and a per-delivery contract, three offers | `PaidAsShown`, `CreditedOnce` |
| access | one rider, two restaurants, two transactions | `OneMaster` |
| legacy | one order, one rider, two taps | `FeeFollowsTheOrder` |
| own events | two riders, two consumers, three assignments, one fault; platform dispatch may create the row | `AssignmentArrives` |
| chat | two riders, two requests of one client id, pages of one message | `ThreadsKeptApart`, `ThreadComplete` |
| hub | one rider channel, one order channel, three connections, one send, buffers of one | `EveryListenerOnce`, `NobodyWaits` |
| push | one device, three pushes, two slots | `ServicesTypeOK` (no slot is lost), `PushesEnd` |
| routes | one order, three requests, two units of time | `CallsAccounted`, `LeadsWhereAsked`, `EveryAskAnswered` |
| polyline | routes of up to four points where three are allowed, poles and date line among them | `RouteSurvives` |
| tracking | two riders, one order, one upload, one request on either path | `SeenByTheRightCustomer` |
| nearby | two riders, one upload at a time, lists of two | `NobodyNearbyMissed` |

Why these bounds are enough: what goes wrong on a delivery goes wrong between two
riders or between a rider and the restaurant, so two platform riders and an own
rider show every race about one delivery; what a rider carries over from one
delivery to another needs two deliveries and one platform rider. No counter is
bounded in `DeliveryStore`: its state space is finite. In `Dispatch` only the
number of faults is. In `Lifecycle` one update runs at a time: what another tap
could do to it in between, a repair, a release or another rider does too.
`dispatch_search` leaves out the owner's cancellation, which closes the search of
either rider the same way; `store_races` has it with the same riders, and
`dispatch_recovers` with the processes.

In `services` the variable `part` says which component moves, the others stay as they
began: composing them would only multiply states that cannot meet. Rows of different
riders are never locked or read together by wallet, contracts, access and legacy taps,
so one rider is enough, and two transactions show every conflict about one row. Two
units of time pass a cooldown and the hold limit; three route requests are one that
calls, one that waits and one that comes after. One fix is enough for tracking, whose
property relates a fix to the orders of its own upload; that it holds for any number
is proved. Five quarters of a coin are stored as one coin, and two such amounts (a
settlement with a correction) end in a half, where the two columns may differ. Bounds
count what an environment does (assignments, offers, pushes, messages, versions); none
of them is a guard of the code, except those named after a limit of its.

The six violations are findings of `PROJECT.json`:

- *a decline is forgotten*: a declines, b accepts and withdraws, and the
  withdrawal turns a's `rejected` into `cancelled`, which a later offer opens
  again;
- *a leaked lock*: the process stops between SETNX and the end of the accept,
  and the key turns away everybody, its own rider included, for 24 hours;
- *nobody searches*: after the restaurant's own rider withdraws, the row stays
  `restaurant_owned`, which every search skips;
- *a lost payout*: the order was delivered, the projection is behind, the owner
  completes the order, and before the repair sweep comes round the rider taps
  again: the tap sees a completed order and cancels the delivery, which the sweep
  no longer lists. Without completion by the owner every delivered order is paid
  (`lifecycle_repairs`);
- *a release for the wrong rider*: a tap of a is under way when a withdraws, b
  accepts and the owner cancels; the tap cancels the delivery and frees a, and b
  stays busy with it;
- *a status that goes back*: the sweep lists a delivery as not picked up, its
  rider taps on to `on_the_way`, and the sweep, having reloaded the row, advances
  it to `picked_up`.

`OneRiderOnBothRows` and `Custody` make one exception, which the code does not
intend and no document speaks of: a late `UpsertRestaurantOwnedOrder`, for instance
of an event SQS delivered twice. Two traces of `store_races` need it:

- the own rider is on the order and on the row; a second upsert reads the order and
  waits; the own rider withdraws; a platform rider is offered the delivery by a job
  that had passed its checks, and accepts; the upsert writes. Now the order names the
  platform rider, whose offer is accepted and who is busy, and the row names the own
  rider;
- a second upsert reads the order and waits; the owner cancels the order and
  `ReleaseClosedDelivery` cancels the row; the upsert writes `rider_assigned` over it.

Both happen only to a row that is the restaurant's already, since before the first
upsert nobody but an own rider is on the order. So the accepted offer stays that of
the rider on the order, no earning is booked twice or lost, and in `Custody` a
delivery of the house (`house`) may be taken by the house again at any stage.

A row that was ever the restaurant's keeps `restaurant_owned`, also when a
platform rider takes it after the own rider withdrew; nobody is paid for it
here. No document says who should be, so `DeliveredIsPaid` leaves such rows out.

## Proofs

Every theorem holds for any number of deliveries, riders, processes, requests and
versions; the assumption of its module is all it uses, but for the hypotheses named
in the third column.

| theorem | says | under |
|---|---|---|
| `Typing`, `DispatchTyping`, `LifecycleTyping`, `WalletTyping` | the type invariants | |
| `RoutesTyping`, `ChatTyping`, `HubTyping`, `PushTyping`, `ContractsTyping`, `NearbyTyping`, `EventsTyping` | the same, with the limits of each: budgets, slots, buffers, the mutex of the token | |
| `ServicesTyped` | `ServicesTypeOK`: the thirteen components in one | |
| `Implements`, `LifecycleImplements` | `DispatchSpec => StoreSpec`, `LifecycleSpec => StoreSpec` | |
| `RidersAgree`, `AcceptedOfferHolds`, `CustomerSees` | `StoreSpec` keeps `OneRiderOnBothRows`, `AcceptedOfferIsTheHolder`, `CustomerSeesTheDelivery` | |
| `SearchAgrees`, `ProgressAgrees` | so do `DispatchSpec` and `LifecycleSpec` | |
| `OrderComesFirst`, `EarningsExact` | `CanonicalOrderFirst`, `PaidExactlyOnce` | `OrdersMoveForward` |
| `HoldersBusy`, `OneDelivery` | `HolderIsBusy`, `OneDeliveryEach` | `OrdersMoveForward`, `NoSharedIds` |
| `KeepsCustody` | `StoreSpec => CustodyKept`: the tables implement `Custody` | the same |
| `SearchKeepsCustody`, `ProgressKeepsCustody` | `DispatchSpec` and `LifecycleSpec` imply `CustodyKept` and the four invariants above | the same |
| `LockSafe` | `LockFollowsTheRow` | |
| `DecidesUntilAFault` | what `PostgresDecides` says, of every step before the first fault | `NoSharedIds` |
| `TablesDecide` | `PostgresDecides` | `MaxFaults = 0`, `NoSharedIds` |
| `LedgerSound`, `SettlementsSound` | `LedgerChains`, `SettlementsClose` | |
| `FeesFollow` | `FeeFollowsTheOrder` | |
| `SavesKept`, `SalariesSound` | `NoSaveLost`, `SalariesDisjoint` | |
| `PayKeepsItsWord`, `NoCreditTwice` | `PaidAsShown`, `CreditedOnce` | |
| `WorksForOne` | `OneMaster` | |
| `TrackingPrivate` | `SeenByTheRightCustomer` | |
| `SearchMissesNobody` | `NobodyNearbyMissed` | |
| `SlotsReturned`, `RoutesLeadRight` | `CallsAccounted`, `LeadsWhereAsked` | |
| `ThreadsApart`, `ThreadWhole` | `ThreadsKeptApart`, `ThreadComplete` | |
| `ListenersReached` | `EveryListenerOnce` | |
| `AssignmentsKept` | `EventKept`: the message of an assignment that stands is not deleted before its rider was on the row, unless platform dispatch created the row | |
| `OnlyRetiredGo` | `OnlyRetiredForgotten` | |
| `PolylineCodec` | `RouteSurvives` | |

`RouteSurvives`, `EventKept` and `OnlyRetiredForgotten` are stated in `Polyline`,
`OwnEvents` and `Push`; the run `services` checks the first by itself and the other
two within `ServicesTypeOK`.

Two hypotheses name what the code does not enforce, and the runs satisfy both.
`OrdersMoveForward`: an owner may override a status, and then a delivered order
stands before a delivery that was paid; nothing in this repository hinders him.
`NoSharedIds`: food and grocery orders have two sequences, and `rider_availability`
has the number of an order and not its type, so with a shared number freeing a rider
from one delivery could free him from the other. `TablesDecide` wants no fault,
since a crash in an accept leaks the lock: that is the finding of
`dispatch_lock_leaks`. `LockSafe` and `DecidesUntilAFault` hold for any number of
faults, of the states and steps before the first.

### Assumptions on constants

Null values (`NoRider`, `NoOrder`, `NoPay`, ...) are none of the values they stand
beside, and two kinds of process have different names; this is the choice of the
model. Limits and bounds are natural numbers. What says more:

- `StoreAssumption`: numbers are unique within food and within grocery, by the unique
  index on type and number;
- limits above zero: `DispatchAssumption` (`MaxRiders`), `NearbyAssumption`
  (`ListSize`), `ChatAssumption` (`ChatPage`), `RoutesAssumption` (`HoldLimit`, the
  call limits), which are constants or have positive defaults in the code;
- `OfferPayAssumption`: contracts that are offered are `Valid`, as a save demands, and
  amounts are not negative;
- `HubAssumption`: no channel is a rider's and an order's at once: the hub has a map
  for each;
- `LegacyAssumption` and `NearbyAssumption`: orders and riders are finitely many, so
  that fees can be added and lists counted.

### The core

`RidersAgree` rests on `Agreement`: the three invariants with `UnassignedRowsSearch`,
a rider column is NULL exactly while the row searches or does not exist, and
`HouseRows`, a row with an own rider is marked as the restaurant's, and so is one that
an upsert in progress will find, unless the order still has an own rider. Without the
first an accept could not know that no offer of the delivery is accepted already, nor
a search status that no platform rider has the row. The second says what a late upsert
may meet (`UpsertFinds`): a row nobody has, or one that is the restaurant's, whoever
has it by then. Each kind of transaction has a lemma of its own: an accept moves all
four records from nobody to the rider, a withdrawal moves them back, an upsert changes
the row alone, so the accepted offer is tied to the order (`HasOrder`) and not to the
row.

`OrderComesFirst` and `EarningsExact` rest on `OrderLeads`: the projection is not
ahead of the order, and an order in status `delivered` has its `delivered_at`.
The second is what keeps a completed order delivered. A kitchen step that goes
forward undoes neither; a rider's step, a repair and a release read the order at
their commit. So a delivered row stays delivered and is booked by the step that made
it so; no release cancels one that was paid, and an upsert that comes late finds a row
of the restaurant's, for which nothing is paid, or one that nobody has (`UpsertFinds`).

`HoldersBusy` and `OneDelivery` rest on `Workload`: `current_order_id` of a platform
rider is the number of the delivery he carries, and who is available has none. A
release frees the rider of the row its caller had read, and only if he still
points to that order's number: with shared numbers this would be another delivery.

`KeepsCustody` takes the transactions one by one: an accept takes an open delivery for
a rider with empty hands (this is `Workload`), a withdrawal gives back, a release
cancels, an advance delivers with the credit or keeps the delivery held, the owner's
rider is put on an open delivery or on one of the house (`UpsertFinds` again);
anything else leaves every delivery in its stage. `SearchKeepsCustody` and
`ProgressKeepsCustody` then follow from the refinements below, so that all of it holds
whatever the processes do between their statements.

`Implements` needs the types of the processes, which say that a job in hand names
a delivery and an open offer a platform rider; the tables under `Dispatch` are
typed because `StoreTypes` holds of any step of `DeliveryStore`, so
`DispatchTyping` is one induction over both.

`LockSafe` is about the states before the first fault, and inductive under the types:
a lock passes from the accept that took it to the order at the commit, from the order
to the pending release at a withdrawal, and ends with that release or with the accept
that failed. It is the rider of the order who has it (`HasOrder`), of a grocery
delivery the rider of its row: an upsert may take the row from him, but leaves the
order (`ElsewhereKeepsLock`). `FaultsCount` says that a step which is not a fault
leaves their number alone, so that before the first nothing has gone wrong.

`DecidesUntilAFault` is an action property and follows from `LockSafe` and the types: an
accept ends at the lock only if somebody has it; that is an open accept or a release,
which `LockInUse` allows, or the rider on a row of that number, and with
`NoSharedIds` this row is the very one asked for, which the tables would not give
away. `TablesDecide` is its corollary for instances without faults.

The theorems about `Lifecycle` rest on `LifecycleInv`: the types, `Agreement` and
`UpdatesValid`, which says that a row read as the restaurant's still is, and that
an update past its checks asks for a step the status it read allows. So when it
commits, having found that status again, `DeliveryStore` allows the step too,
whatever happened in between. `Agreement` is needed for the types: a listed row
is active, hence somebody's, hence there is a rider to free.

### Money

`LedgerChains` and `SettlementsClose` are inductive with `PostingsHonest`: a posting
past its lock holds it, remembers the balance that is still committed, and its entries
chain from there, each stating and moving what was posted to within half a coin
(`Truthful`), which is what rounding to the nearest does; a settlement has one entry,
written or due. At the commit two chains are put end to end. Without the lock's holder
a second posting could start from the same balance, which is what the mutant does.

`SalariesDisjoint` needs `AccrualsLocked`: whoever has an open accrual holds the
contract row, and his period is clear of the committed ones, so nobody else can add
one before he does. The unique index on the start of a period is not needed for
it. `NoSaveLost` needs nothing but types: the guard compares with the row itself.
`ContractsFit` adds what the types of the rows say: a contract in force passed the
validation, and a salary is for one of the periods contracts have.

`PayInv` follows the pay of an offer: what the rider was shown is what is frozen, and
the job's pay, if it has one, is that (`AsFrozen`), even if the offer was closed and
opened again; who carries a delivery was offered it; a review is of the carrier of
a cancelled delivery, and a credit is of how its delivery ended (`CreditedAtEnd`). A
delivery ends once, so no two credits can be of it.

`LegacyInv`: a fee, and a tap about to book one, belong to an order delivered by that
rider, which stays so, and `total_deliveries` is the sum of the fees. That a sum over
a finite set grows by what one summand grows is proved by induction in the form of
sets of numbers, from `WFMin` and the well-foundedness of `<`: the induction
theorems of the library take an operator, which the provers here cannot instantiate.

### Who may, and who sees

`WorksForOne` rests on `StillPermitted`: a transaction past its guard holds the lock of
the profile, and what its guard read is still so, since whoever could change it needs
that lock. The order in which the two row locks are taken does not matter for it, so
rollbacks of deadlocks do no harm either.

`TrackingPrivate` rests on `TrackingInv`: as long as an upload or a request is under
way, its `held` has every order the rider carries, or everybody its path could show
(`Sees`: a carrier on the one, whoever is on record on the other), and what it is
about to send or show was found so. Assigning is the only step that adds somebody to
either, and extends `held` with it.

`OwnEventsInv`: the message of an assignment that stands and was not served is in the
queue (`EventKept`), as long as platform dispatch did not create the row, because a
consumer deletes one only after he found it superseded, found its rider marked, which
is written after the upsert only, or upserted himself; `InHand` says of each consumer
which of these he has seen. The marks have no version, so what is kept is that the
rider has been on the row, and not that he is.

`SearchInv`: a rider left out of what the search holds so far was declined, not ready
or squeezed out of a full list. The index may lose or keep anybody: when it fills
less than the list, the database is asked for the rest.

### Routes, chat, hub

`RoutesInv`: as many slots are in use as there are callers; `inflight` names a request
exactly while it is calling or storing for that order and destination; a request
falls back only on a route that was good when it began, the route kept meanwhile is
that one or younger than the request, and who waits asked for the leg of the call he
waits for (`Sound`, `Younger`, `Shares`, `Leads`). `HoldLimit` must be positive: with
zero no route could be held at all. `RoutesBounded` has the budgets: a call is counted
for its order and its window before it is made, and only if neither is used up, so no
retry and no sweep goes past them; with `RoutesInv` it is `RoutesTypeOK`.

`ChatInv`: a number is handed out once and told to nobody before its turn
(`NumbersTaken`); the client's key of an insert in progress is neither stored nor in
progress twice (`KeysTaken`, the unique index at work); what is about to be told is
stored. A reader's next page holds the lowest numbers behind his cursor, so what he
skips was stored out of order, with a number below one that he had already seen; this
is the exception `ThreadComplete` makes.

`HubInv` is about arrays: two channels never show parts of one array; the first
`len` places of a channel are its connections, each once (`Roster`); during a removal
the elements behind the leaver move up one by one, and this is the state between
(`MovedBehind`); a send that copied, or ranges over an array that nobody shortened
meanwhile, tries the places it has passed once and the others not yet
(`GoesThrough`, `KeptApart`). Joining appends behind what a send reads or to a new
array. TLC checked `HubInv` with two sends besides (2,157,761 states), a case the
run leaves out for its size. `HubBounded`: a send to a full buffer drops the message,
so no buffer holds more than its size.

`PushInv`: the slots taken are as many as pushes are under way (a cardinality, so each
step must add or remove one of a finite set); the mutex of the token is held exactly by
the push that mints, panics included (`HeldBy`); a device about to be forgotten is one
that FCM has retired (`ForgetRetired`), and a retired device stays so.

### The codec

`PolylineCodec` is about functions defined by recursion: the characters of a number,
the code of a route, the states of the reader. That such functions exist and obey
their equations is proved first (`Iterates`, from functions that take their first n
steps), by induction in the form of sets of numbers (`CountingUp`), since the
library's theorems about recursion take operators. Then the reader is followed: what
is left of a number weighs what its five bits and the rest do (`Weighs`, `ReadsOn`,
`ReadsLast`), so a number that stands in the code is read as it was (`ReadsNumber`);
two valid points are never so far apart that a number needs more bits than the reader
takes (`Near`, `SignedBack`), so two numbers lead from a point to the next
(`ReadsPoint`), and the reader follows the route (`ReadsRoute`) up to the most points
a polyline may have, where it refuses. What is read of a beginning of the code does
not depend on its end (`ReadsBeginning`), hence the second half.

### The services together

`ServicesTyped` joins the invariants above, each for the component that moves
(`MoneyInv`, `PeopleInv`, `TalkInv`, `PlacesInv`): a step of `ServicesNext` is a step of
that component, which keeps its own, and leaves the others as they began. It is stated
for constants of any size, not for those of the run.

## Only model-checked

Every invariant that a passing run checks is also a theorem, and so are the two action
properties, `CustodyKept` and `PostgresDecides`. This is left:

- Liveness and everything under fairness, which is beyond the prover:
  `NoOrderStranded`, `SearchEndIsShown`, `PickupsAreRepaired`, `DeliveredIsPaid`,
  `ClosedOrderFreesRider`, `AssignmentArrives`, `NobodyWaits`, `PushesEnd`,
  `EveryAskAnswered`. What is proved of own-rider events and pushes is the safety these
  rest on: the message is still there, the slot is given back by who has it.
- The six violated claims, which are false.

## Not modelled

Contents and wording of messages, event rows, distances, authentication,
configuration and the HTTP layer; reads that no decision depends on; and the
administration and earnings reports. Inside modelled components:

- the connection pool: `acceptRequest` reads through the pool while its transaction
  holds a connection, so that enough accepts at once may wait for each other;
- batches of 50 over many orders, and food and grocery orders with one number;
- the assignment callback in the background of `delivery_lifecycle.go`;
- of tracking: location history, who may ask for it, and that concurrent uploads may leave
  `users`, `rider_locations` and the index with different positions; of several
  active orders only the newest order's customer is told, as in the code;
- of the legacy endpoints: `AcceptAssignment` (`order_service.go:242`), which
  production does not reach. Two taps of "delivered" at once may book the fee
  twice, and a crash between callback and transaction loses it: `LegacyOrders`
  allows both, and no document says otherwise;
- ping timing and the upgrade of sockets; chat's rate limit and unread counts.

## Plan

The safety properties the runs check are proved; what is left to prove is
safety of what is not modelled yet.

To model: a sweep over several orders with its batch and its first error, orders that
share a number, and the connection pool of the accept.

The instances stay few. `services` is near what one run can take, so a further
component needs an instance smaller than those it joins.
