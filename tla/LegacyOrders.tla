---------------------------- MODULE LegacyOrders ----------------------------
(***************************************************************************)
(* The delivery endpoints of older rider apps, for an order that has no    *)
(* row in delivery_orders (service/order_service.go).  The status of such  *)
(* an order belongs to restaurant-service: the rider's tap is checked      *)
(* against the order as read, passed on as a callback, and only then is    *)
(* the rider's own side written, in one transaction.  An order that has a  *)
(* row goes to UpdateDeliveryStatus instead, which Lifecycle models.       *)
(***************************************************************************)
EXTENDS Naturals, FiniteSets, FiniteSetsExt

CONSTANTS
  OldOrders,  \* orders without a row in delivery_orders
  OldRiders,  \* riders with an older app
  Taps,       \* requests that may be served at the same time
  NoPartner   \* orders.delivery_partner_id IS NULL

ASSUME LegacyAssumption == NoPartner \notin OldRiders /\ IsFiniteSet(OldOrders)

VARIABLES
  canonical,  \* orders.order_status, which restaurant-service writes
  partner,    \* orders.delivery_partner_id, likewise
  onTrip,     \* users.on_trip
  fees,       \* rows of rider_earnings, order -> rider -> how many
  rides,      \* users.total_deliveries
  trail,      \* rows of delivery_status_history, by event
  tap         \* what each request is doing

legacyVars == <<canonical, partner, onTrip, fees, rides, trail, tap>>

Canonical == {"preparing", "ready", "out_for_delivery", "delivered", "cancelled"}
Events == {"arrived_at_restaurant", "arrived_at_customer",
           "delivery_cancelled", "delivery_failed"}
TapKinds == {"arrived_at_restaurant", "arrived_at_customer",
             "picked_up", "delivered", "cancelled", "failed"}
NoTap == [step |-> "idle"]
TapSteps == {"read", "call", "record"}

LegacyTypeOK ==
  /\ canonical \in [OldOrders -> Canonical]
  /\ partner \in [OldOrders -> OldRiders \cup {NoPartner}]
  /\ onTrip \in [OldRiders -> BOOLEAN]
  /\ fees \in [OldOrders -> [OldRiders -> Nat]]
  /\ rides \in [OldRiders -> Nat]
  /\ trail \in [OldOrders -> SUBSET Events]
  /\ tap \in [Taps -> {NoTap} \cup
       [step : TapSteps, kind : TapKinds, order : OldOrders, rider : OldRiders]]

LegacyInit ==
  /\ canonical = [o \in OldOrders |-> "preparing"]
  /\ partner = [o \in OldOrders |-> NoPartner]
  /\ onTrip = [r \in OldRiders |-> FALSE]
  /\ fees = [o \in OldOrders |-> [r \in OldRiders |-> 0]]
  /\ rides = [r \in OldRiders |-> 0]
  /\ trail = [o \in OldOrders |-> {}]
  /\ tap = [t \in Taps |-> NoTap]

orderRows == <<canonical, partner>>
riderRows == <<onTrip, fees, rides, trail>>

-----------------------------------------------------------------------------
(* restaurant-service on its own: the kitchen, the owner's choice of a     *)
(* rider, and an end the rider has no part in.                             *)
OrderReadies(o) ==
  /\ canonical[o] = "preparing"
  /\ canonical' = [canonical EXCEPT ![o] = "ready"]
  /\ UNCHANGED <<partner, riderRows, tap>>

OrderCancels(o) ==
  /\ canonical[o] \notin {"delivered", "cancelled"}
  /\ canonical' = [canonical EXCEPT ![o] = "cancelled"]
  /\ UNCHANGED <<partner, riderRows, tap>>

PartnerChanges(o, r) ==
  /\ canonical[o] \in {"preparing", "ready"}
  /\ partner' = [partner EXCEPT ![o] = r]
  /\ onTrip' = IF r = NoPartner THEN onTrip ELSE [onTrip EXCEPT ![r] = TRUE]
  /\ UNCHANGED <<canonical, fees, rides, trail, tap>>

-----------------------------------------------------------------------------
TapStarts(t, o, r, kind) ==
  /\ tap[t] = NoTap
  /\ tap' = [tap EXCEPT ![t] = [step |-> "read", kind |-> kind, order |-> o, rider |-> r]]
  /\ UNCHANGED <<orderRows, riderRows>>

(* The statuses in which a tap is taken. *)
TapAllowed(kind) ==
  CASE kind \in {"arrived_at_restaurant", "picked_up"} -> {"ready"}
    [] kind \in {"arrived_at_customer", "delivered"} -> {"out_for_delivery"}
    [] kind \in {"cancelled", "failed"} -> {"ready", "out_for_delivery"}

Reads(t) ==
  /\ tap[t].step = "read"
  /\ partner[tap[t].order] = tap[t].rider
  /\ canonical[tap[t].order] \in TapAllowed(tap[t].kind)

Notes(o, event) == trail' = [trail EXCEPT ![o] = @ \cup {event}]
StartsCall(t) == tap' = [tap EXCEPT ![t].step = "call"]
Finishes(t) == tap' = [tap EXCEPT ![t] = NoTap]

(* An arrival is only recorded; everything else is restaurant-service's.   *)
Arrives(t) ==
  /\ Reads(t)
  /\ tap[t].kind \in Events
  /\ Notes(tap[t].order, tap[t].kind)
  /\ Finishes(t)
  /\ UNCHANGED <<orderRows, onTrip, fees, rides>>

Transitions(t) ==
  /\ Reads(t)
  /\ tap[t].kind \notin Events
  /\ StartsCall(t)
  /\ UNCHANGED <<orderRows, riderRows>>

(* What restaurant-service makes of a callback it accepts: it moves the    *)
(* order for the rider on it, or finds it moved; and it may take off a     *)
(* rider who gives up, but does not cancel the order for that.             *)
Accepted(q) ==
  /\ partner[q.order] = q.rider
  /\ \/ /\ q.kind \in {"picked_up", "delivered"}
        /\ LET next == IF q.kind = "delivered" THEN "delivered" ELSE "out_for_delivery"
           IN /\ canonical[q.order] \in TapAllowed(q.kind) \cup {next}
              /\ canonical' = [canonical EXCEPT ![q.order] = next]
        /\ UNCHANGED partner
     \/ /\ q.kind \in {"cancelled", "failed"}
        /\ canonical[q.order] \in {"ready", "out_for_delivery"}
        /\ \E r \in {q.rider, NoPartner} : partner' = [partner EXCEPT ![q.order] = r]
        /\ UNCHANGED canonical

CallsWithoutWaiting(t) ==
  /\ tap[t].step = "call"
  /\ Accepted(tap[t]) \/ UNCHANGED orderRows
  /\ tap' = [tap EXCEPT ![t] = IF @.kind = "picked_up" THEN NoTap ELSE [@ EXCEPT !.step = "record"]]
  /\ UNCHANGED riderRows

(* The callback: anything but a 2xx answer ends the tap, see TapEnds. *)
CallsBack(t) ==
  /\ tap[t].step = "call"
  /\ Accepted(tap[t])
  /\ tap' = [tap EXCEPT ![t] = IF @.kind = "picked_up" THEN NoTap ELSE [@ EXCEPT !.step = "record"]]
  /\ UNCHANGED riderRows

Frees(r) == onTrip' = [onTrip EXCEPT ![r] = FALSE]

(* Each of these is one transaction, once restaurant-service has agreed:   *)
(* the fee with the rider's totals and on_trip, *)
RecordsDelivery(t) ==
  /\ tap[t].step = "record" /\ tap[t].kind = "delivered"
  /\ fees' = [fees EXCEPT ![tap[t].order][tap[t].rider] = @ + 1]
  /\ rides' = [rides EXCEPT ![tap[t].rider] = @ + 1]
  /\ Frees(tap[t].rider)
  /\ Finishes(t)
  /\ UNCHANGED <<orderRows, trail>>

(* and the end of a delivery the rider gives up, or fails in. *)
RecordsCancellation(t) ==
  /\ tap[t].step = "record" /\ tap[t].kind = "cancelled"
  /\ Frees(tap[t].rider)
  /\ Notes(tap[t].order, "delivery_cancelled")
  /\ Finishes(t)
  /\ UNCHANGED <<orderRows, fees, rides>>

RecordsFailure(t) ==
  /\ tap[t].step = "record" /\ tap[t].kind = "failed"
  /\ Frees(tap[t].rider)
  /\ Notes(tap[t].order, "delivery_failed")
  /\ Finishes(t)
  /\ UNCHANGED <<orderRows, fees, rides>>

(* Refused, failed, or cut off; the answer to a callback may be lost, so   *)
(* that restaurant-service did what it was asked.                          *)
TapEnds(t) ==
  /\ tap[t] # NoTap
  /\ \/ UNCHANGED orderRows
     \/ tap[t].step = "call" /\ Accepted(tap[t])
  /\ Finishes(t)
  /\ UNCHANGED riderRows

LegacyNext ==
  \/ \E o \in OldOrders : OrderReadies(o) \/ OrderCancels(o)
  \/ \E o \in OldOrders, r \in OldRiders \cup {NoPartner} : PartnerChanges(o, r)
  \/ \E t \in Taps, o \in OldOrders, r \in OldRiders, kind \in TapKinds : TapStarts(t, o, r, kind)
  \/ \E t \in Taps :
       \/ Arrives(t) \/ Transitions(t) \/ CallsBack(t) \/ TapEnds(t)
       \/ RecordsDelivery(t) \/ RecordsCancellation(t) \/ RecordsFailure(t)

LegacySpec == LegacyInit /\ [][LegacyNext]_legacyVars

-----------------------------------------------------------------------------
(* A fee is only ever recorded for an order that restaurant-service has    *)
(* delivered by that rider, however taps, lost answers, cancellations and  *)
(* changes of rider interleave; and the rider's count is that of his fees. *)
FeeFollowsTheOrder ==
  /\ \A o \in OldOrders, r \in OldRiders :
       fees[o][r] > 0 => canonical[o] = "delivered" /\ partner[o] = r
  /\ \A r \in OldRiders :
       rides[r] = MapThenSumSet(LAMBDA o : fees[o][r], OldOrders)
=============================================================================
