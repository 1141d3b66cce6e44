------------------------------ MODULE Custody ------------------------------
(***************************************************************************)
(* What the dispatch tables promise about the custody of a delivery,       *)
(* whatever order transactions, workers and callbacks run in:              *)
(*   - a delivery is open, held by one rider, cancelled or delivered, and  *)
(*     passes from one platform rider to another only by becoming open;    *)
(*   - a platform rider holds one delivery at a time;                      *)
(*   - only an open delivery becomes the restaurant's, and stays so; from  *)
(*     then on the restaurant's riders may be put on it at any stage, over *)
(*     whoever has it;                                                     *)
(*   - the rider who delivers is credited at that step and at no other,    *)
(*     and nobody for a delivery that is or was the restaurant's.          *)
(* A cancelled delivery may still be settled as delivered for the rider    *)
(* who held it: the repair sweep of the code does so.                      *)
(***************************************************************************)
EXTENDS Naturals

CONSTANTS Deliveries,  \* deliveries, food and grocery
          Riders,      \* riders
          OwnRiders,   \* riders linked to a restaurant, assigned by its owner
          NoRider      \* the absence of a rider

VARIABLES stage,   \* delivery -> "open", "held", "cancelled" or "delivered"
          holder,  \* delivery -> the rider on record, or NoRider
          house,   \* delivery -> whether it is or was the restaurant's own
          credit   \* delivery -> rider -> number of earnings booked

custodyVars == <<stage, holder, house, credit>>

Holds(r) == {d \in Deliveries : stage[d] = "held" /\ holder[d] = r}

CustodyInit ==
  /\ stage = [d \in Deliveries |-> "open"]
  /\ holder = [d \in Deliveries |-> NoRider]
  /\ house = [d \in Deliveries |-> FALSE]
  /\ credit = [d \in Deliveries |-> [r \in Riders |-> 0]]

\* A platform rider with nothing in hand takes an open delivery.
Take(d, r) ==
  /\ r \notin OwnRiders
  /\ stage[d] = "open"
  /\ Holds(r) = {}
  /\ stage' = [stage EXCEPT ![d] = "held"]
  /\ holder' = [holder EXCEPT ![d] = r]
  /\ UNCHANGED <<house, credit>>

\* The restaurant puts a rider of its own on an open delivery, or on one that is
\* its own already.
TakeForRestaurant(d, r) ==
  /\ r \in OwnRiders
  /\ house[d] \/ stage[d] = "open"
  /\ stage' = [stage EXCEPT ![d] = "held"]
  /\ holder' = [holder EXCEPT ![d] = r]
  /\ house' = [house EXCEPT ![d] = TRUE]
  /\ UNCHANGED credit

GiveBack(d) ==
  /\ stage[d] = "held"
  /\ stage' = [stage EXCEPT ![d] = "open"]
  /\ holder' = [holder EXCEPT ![d] = NoRider]
  /\ UNCHANGED <<house, credit>>

Cancel(d) ==
  /\ stage[d] = "held"
  /\ stage' = [stage EXCEPT ![d] = "cancelled"]
  /\ UNCHANGED <<holder, house, credit>>

\* Delivered, with one earning for the holder, unless the arrangement is the
\* restaurant's.
Deliver(d) ==
  /\ stage[d] \in {"held", "cancelled"}
  /\ stage' = [stage EXCEPT ![d] = "delivered"]
  /\ credit' = IF house[d] THEN credit ELSE [credit EXCEPT ![d][holder[d]] = @ + 1]
  /\ UNCHANGED <<holder, house>>

CustodyNext ==
  \E d \in Deliveries :
    \/ \E r \in Riders : Take(d, r) \/ TakeForRestaurant(d, r)
    \/ GiveBack(d)
    \/ Cancel(d)
    \/ Deliver(d)

CustodySpec == CustodyInit /\ [][CustodyNext]_custodyVars
=============================================================================
