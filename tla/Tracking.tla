------------------------------ MODULE Tracking ------------------------------
(***************************************************************************)
(* Where a rider is, and which customers learn of it.  An upload writes    *)
(* the profile, then rider_locations, and last tells the customer of the   *)
(* rider's active order, on the order's websocket channel and by a         *)
(* callback that nobody waits for.  Meanwhile deliveries are assigned,     *)
(* handed back and ended, and customers ask where their rider is: for the  *)
(* snapshot restaurant-service passes on to them, or at the tracking       *)
(* endpoint, which also serves the others who have to do with the order.   *)
(* A fix is named by its upload.  The index of the search for riders,      *)
(* which an upload writes in between, is left to NearbySearch.             *)
(***************************************************************************)
EXTENDS Naturals, FiniteSets

CONSTANTS
  TrackedRiders, TrackedOrders,
  Fixes,           \* uploads, a bound on what is uploaded
  Glances,         \* requests for a delivery's tracking, likewise
  NoFix, NoRider,
  LiveTracking,    \* customerLiveTrackingEnabled
  MaxAssignments   \* a bound on how often orders are assigned

ASSUME TrackingAssumption ==
  /\ NoRider \notin TrackedRiders /\ NoFix \notin Fixes
  /\ LiveTracking \in BOOLEAN /\ MaxAssignments \in Nat

VARIABLES
  delivering,   \* delivery_orders: status, rider and when he was assigned
  assignments,  \* assignments so far, the clock of assigned_at
  profileFix,   \* users.current_lat and current_lng
  fix,          \* rider_locations
  upload,       \* what each upload is doing
  sent,         \* RIDER_LOCATION_UPDATED messages
  callbacks,    \* location callbacks on their way
  glance        \* what each request for tracking is doing

trackingVars == <<delivering, assignments, profileFix, fix, upload, sent, callbacks, glance>>

deliveries == <<delivering, assignments>>
Statuses == {"rider_searching", "rider_assigned", "picked_up", "delivered"}
PreciseLocation == {"rider_assigned", "picked_up"}
Paths == {"snapshot", "tracking"}
UploadSteps == {"profile", "store", "look up", "send", "done"}
NoUpload == [step |-> "idle"]
NoGlance == [step |-> "idle"]

\* An upload and a glance remember what their rider, or their order, has held
\* since they began: history for the properties, which no action reads.
TrackingTypeOK ==
  /\ delivering \in [TrackedOrders ->
       [status : Statuses, rider : TrackedRiders \cup {NoRider}, since : 0..MaxAssignments]]
  /\ assignments \in 0..MaxAssignments
  /\ {profileFix, fix} \subseteq [TrackedRiders -> Fixes \cup {NoFix}]
  /\ upload \in [Fixes -> {NoUpload} \cup
       [step : UploadSteps, rider : TrackedRiders,
        orders : SUBSET TrackedOrders, held : SUBSET TrackedOrders]]
  /\ sent \subseteq [order : TrackedOrders, fix : Fixes]
  /\ callbacks \subseteq sent
  /\ glance \in [Glances -> {NoGlance} \cup
       [step : {"row", "location", "done"}, path : Paths, order : TrackedOrders,
        rider : TrackedRiders \cup {NoRider}, shown : Fixes \cup {NoFix},
        held : SUBSET TrackedRiders]]

TrackingInit ==
  /\ delivering = [o \in TrackedOrders |->
                     [status |-> "rider_searching", rider |-> NoRider, since |-> 0]]
  /\ assignments = 0
  /\ profileFix = [r \in TrackedRiders |-> NoFix]
  /\ fix = profileFix
  /\ upload = [u \in Fixes |-> NoUpload]
  /\ sent = {} /\ callbacks = {}
  /\ glance = [g \in Glances |-> NoGlance]

-----------------------------------------------------------------------------
(* Deliveries, as the rest of the service assigns and ends them.           *)

Carries(r, o) == delivering[o].rider = r /\ delivering[o].status \in PreciseLocation

Assigns(o, r) ==
  /\ delivering[o].status \in {"rider_searching", "rider_assigned"}
  /\ assignments < MaxAssignments
  /\ assignments' = assignments + 1
  /\ delivering' = [delivering EXCEPT ![o] =
       [status |-> "rider_assigned", rider |-> r, since |-> assignments + 1]]
  /\ upload' = [u \in Fixes |->
       IF upload[u].step \notin {"idle", "done"} /\ upload[u].rider = r
         THEN [upload[u] EXCEPT !.held = @ \cup {o}] ELSE upload[u]]
  /\ glance' = [g \in Glances |->
       IF glance[g].step \in {"row", "location"} /\ glance[g].order = o
         THEN [glance[g] EXCEPT !.held = @ \cup {r}] ELSE glance[g]]
  /\ UNCHANGED <<profileFix, fix, sent, callbacks>>

HandsBack(o) ==
  /\ delivering[o].status = "rider_assigned"
  /\ delivering' = [delivering EXCEPT ![o].status = "rider_searching", ![o].rider = NoRider]
  /\ UNCHANGED <<assignments, profileFix, fix, upload, sent, callbacks, glance>>

\* A delivered order keeps its rider, and so does a cancelled one.
Progresses(o) ==
  /\ delivering[o].status \in PreciseLocation
  /\ delivering' = [delivering EXCEPT ![o].status =
       IF @ = "rider_assigned" THEN "picked_up" ELSE "delivered"]
  /\ UNCHANGED <<assignments, profileFix, fix, upload, sent, callbacks, glance>>

-----------------------------------------------------------------------------
(* An upload of coordinates that are some.  A failed write of either table *)
(* ends it with an error.                                                  *)

Uploading(u, step) == upload[u].step = step
Continues(u, step) == upload' = [upload EXCEPT ![u].step = step]

Uploads(u, r) ==
  /\ upload[u] = NoUpload
  /\ upload' = [upload EXCEPT ![u] =
       [step |-> "profile", rider |-> r, orders |-> {},
        held |-> {o \in TrackedOrders : Carries(r, o)}]]
  /\ UNCHANGED <<deliveries, profileFix, fix, sent, callbacks, glance>>

UpdatesProfile(u) ==
  /\ Uploading(u, "profile")
  /\ profileFix' = [profileFix EXCEPT ![upload[u].rider] = u]
  /\ Continues(u, "store")
  /\ UNCHANGED <<deliveries, fix, sent, callbacks, glance>>

StoresFix(u) ==
  /\ Uploading(u, "store")
  /\ fix' = [fix EXCEPT ![upload[u].rider] = u]
  /\ Continues(u, "look up")
  /\ UNCHANGED <<deliveries, profileFix, sent, callbacks, glance>>

Newest(orders) ==
  {o \in orders : \A other \in orders : delivering[other].since <= delivering[o].since}

(* The rider's order: of several, the one assigned last. *)
OrdersOfAnyStatus(r) == Newest({o \in TrackedOrders : delivering[o].rider = r})
ActiveOrders(r) == Newest({o \in TrackedOrders : Carries(r, o)})

LooksUpOrder(u) ==
  /\ Uploading(u, "look up")
  /\ LET orders == ActiveOrders(upload[u].rider) IN
     upload' = [upload EXCEPT ![u].orders = orders,
                              ![u].step = IF orders = {} THEN "done" ELSE "send"]
  /\ UNCHANGED <<deliveries, profileFix, fix, sent, callbacks, glance>>

TellsCustomer(u) ==
  /\ Uploading(u, "send")
  /\ LET news == {[order |-> o, fix |-> u] : o \in upload[u].orders} IN
     /\ sent' = sent \cup news
     /\ callbacks' = IF LiveTracking THEN callbacks \cup news ELSE callbacks
  /\ Continues(u, "done")
  /\ UNCHANGED <<deliveries, profileFix, fix, glance>>

\* A write or the lookup fails.
UploadFails(u) ==
  /\ upload[u].step \in {"profile", "store", "look up"}
  /\ Continues(u, "done")
  /\ UNCHANGED <<deliveries, profileFix, fix, sent, callbacks, glance>>

\* In any order, and tried once: what fails is lost.
CallbackEnds(c) ==
  /\ c \in callbacks
  /\ callbacks' = callbacks \ {c}
  /\ UNCHANGED <<deliveries, profileFix, fix, upload, sent, glance>>

-----------------------------------------------------------------------------
(* Requests: the delivery is read, then its rider's fix.  The snapshot has *)
(* a fix only while the rider carries the order; the tracking endpoint     *)
(* shows whoever is on the row, whatever its status.                       *)

Shows(path) == IF path = "snapshot" THEN PreciseLocation ELSE Statuses

Sees(path, r, o) == delivering[o].rider = r /\ delivering[o].status \in Shows(path)

Glimpses(g, o, path) ==
  /\ glance[g] = NoGlance
  /\ glance' = [glance EXCEPT ![g] =
       [step |-> "row", path |-> path, order |-> o, rider |-> NoRider, shown |-> NoFix,
        held |-> {r \in TrackedRiders : Sees(path, r, o)}]]
  /\ UNCHANGED <<deliveries, profileFix, fix, upload, sent, callbacks>>

TakesRider(g, r) == glance' = [glance EXCEPT ![g].rider = r, ![g].step = "location"]
ShowsNobody(g) == glance' = [glance EXCEPT ![g].step = "done"]

ReadsDelivery(g) ==
  /\ glance[g].step = "row" /\ glance[g].path = "snapshot"
  /\ LET row == delivering[glance[g].order] IN
     IF row.rider # NoRider /\ row.status \in PreciseLocation
       THEN TakesRider(g, row.rider) ELSE ShowsNobody(g)
  /\ UNCHANGED <<deliveries, profileFix, fix, upload, sent, callbacks>>

\* A rider whose profile cannot be read is left out.
ReadsTrackedDelivery(g) ==
  /\ glance[g].step = "row" /\ glance[g].path = "tracking"
  /\ \/ ShowsNobody(g)
     \/ LET row == delivering[glance[g].order] IN
        row.rider # NoRider /\ TakesRider(g, row.rider)
  /\ UNCHANGED <<deliveries, profileFix, fix, upload, sent, callbacks>>

\* Without a fix, or when it cannot be read, none is shown.
ReadsLocation(g) ==
  /\ glance[g].step = "location"
  /\ \E found \in {fix[glance[g].rider], NoFix} :
       glance' = [glance EXCEPT ![g].shown = found, ![g].step = "done"]
  /\ UNCHANGED <<deliveries, profileFix, fix, upload, sent, callbacks>>

-----------------------------------------------------------------------------
TrackingNext ==
  \/ \E o \in TrackedOrders : HandsBack(o) \/ Progresses(o)
  \/ \E o \in TrackedOrders, r \in TrackedRiders : Assigns(o, r)
  \/ \E u \in Fixes, r \in TrackedRiders : Uploads(u, r)
  \/ \E u \in Fixes :
       \/ UpdatesProfile(u) \/ StoresFix(u)
       \/ LooksUpOrder(u) \/ TellsCustomer(u) \/ UploadFails(u)
  \/ \E c \in callbacks : CallbackEnds(c)
  \/ \E g \in Glances, o \in TrackedOrders, path \in Paths : Glimpses(g, o, path)
  \/ \E g \in Glances : ReadsDelivery(g) \/ ReadsTrackedDelivery(g) \/ ReadsLocation(g)

TrackingSpec == TrackingInit /\ [][TrackingNext]_trackingVars

-----------------------------------------------------------------------------
(* Who learns where a rider is: an order's channel and restaurant-service  *)
(* are told of a fix only if its rider carried that order at some time     *)
(* since the fix was uploaded, and a snapshot shows a rider only if he     *)
(* carried its order since it was asked for.  The tracking endpoint shows  *)
(* only a rider who was on record for the order since; on record he stays  *)
(* when the order has ended, so it goes on showing where he is (nothing    *)
(* here forbids that).  Either shows a fix of that rider and no other.     *)
SeenByTheRightCustomer ==
  /\ \A m \in sent : m.order \in upload[m.fix].held
  /\ \A g \in Glances :
       glance[g].step = "done" /\ glance[g].rider # NoRider =>
         /\ glance[g].rider \in glance[g].held
         /\ glance[g].shown # NoFix => upload[glance[g].shown].rider = glance[g].rider
=============================================================================
