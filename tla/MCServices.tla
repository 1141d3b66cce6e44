----------------------------- MODULE MCServices -----------------------------
(***************************************************************************)
(* The components around the delivery store, each in a small instance.     *)
(* They share no variable, so each runs alone: `part` says which, and the  *)
(* others keep their initial state.                                        *)
(***************************************************************************)
EXTENDS TLC, Wallet, Contracts, OfferPay, Access, LegacyOrders, OwnEvents,
        Chat, Hub, Push, Routes, Polyline, Tracking, NearbySearch

CONSTANTS r1, r2

VARIABLE part

OneRider == {r1}
TwoRiders == {r1, r2}

\* Contracts: a salary with an incentive, one per delivery, and what the
\* validation and the search for salaries must refuse.
Weekly ==
  [enabled |-> TRUE, mode |-> "salary", period |-> "weekly", base |-> 0, perKm |-> 0,
   salary |-> 500, incentive |-> 0, permille |-> 100,
   cancellation |-> "picked_up" :> [fixed |-> 0, permille |-> 500]]
PerDelivery ==
  [Weekly EXCEPT !.mode = "per_delivery", !.salary = 0, !.permille = 0,
                 !.base = 10, !.perKm = 5,
                 !.cancellation = "rider_assigned" :> [fixed |-> 3, permille |-> 0]]
OfferedPolicies == {Weekly, PerDelivery}
TypedPolicies ==
  OfferedPolicies \cup {[Weekly EXCEPT !.period = "monthly"],
                       [Weekly EXCEPT !.enabled = FALSE],
                       [Weekly EXCEPT !.base = 10]}

\* Poles, the date line, the origin and steps that need one character or two.
SomePoints ==
  {<<0, 0>>, <<9000000, 18000000>>, <<-9000000, -18000000>>,
   <<15, -16>>, <<16, -17>>, <<3850000, -12020000>>}

-----------------------------------------------------------------------------
money == <<walletVars, contractVars, offerPayVars>>
people == <<accessVars, legacyVars, ownEventVars>>
talk == <<chatVars, hubVars, pushVars>>
places == <<routeVars, route, trackingVars, nearbyVars>>

servicesVars == <<part, money, people, talk, places>>

ServicesInit ==
  /\ part \in {"wallet", "contracts", "offer pay", "access", "legacy", "own events", "chat",
               "hub", "push", "routes", "polyline", "tracking", "nearby"}
  /\ WalletInit /\ ContractsInit /\ OfferPayInit /\ AccessInit
  /\ LegacyInit /\ OwnEventsInit /\ ChatInit /\ HubInit
  /\ PushInit /\ RoutesInit /\ PolylineInit /\ TrackingInit
  /\ NearbyInit
  /\ part # "offer pay" => rollout

ServicesNext ==
  \/ part = "wallet" /\ WalletNext /\ UNCHANGED <<part, people, talk, places, contractVars, offerPayVars>>
  \/ part = "contracts" /\ ContractsNext /\ UNCHANGED <<part, people, talk, places, walletVars, offerPayVars>>
  \/ part = "offer pay" /\ OfferPayNext /\ UNCHANGED <<part, people, talk, places, walletVars, contractVars>>
  \/ part = "access" /\ AccessNext /\ UNCHANGED <<part, money, talk, places, legacyVars, ownEventVars>>
  \/ part = "legacy" /\ LegacyNext /\ UNCHANGED <<part, money, talk, places, accessVars, ownEventVars>>
  \/ part = "own events" /\ OwnEventsNext /\ UNCHANGED <<part, money, talk, places, accessVars, legacyVars>>
  \/ part = "chat" /\ ChatNext /\ UNCHANGED <<part, money, people, places, hubVars, pushVars>>
  \/ part = "hub" /\ HubNext /\ UNCHANGED <<part, money, people, places, chatVars, pushVars>>
  \/ part = "push" /\ PushNext /\ UNCHANGED <<part, money, people, places, chatVars, hubVars>>
  \/ part = "routes" /\ RoutesNext /\ UNCHANGED <<part, money, people, talk, route, trackingVars, nearbyVars>>
  \/ part = "polyline" /\ PolylineNext /\ UNCHANGED <<part, money, people, talk, routeVars, trackingVars, nearbyVars>>
  \/ part = "tracking" /\ TrackingNext /\ UNCHANGED <<part, money, people, talk, routeVars, route, nearbyVars>>
  \/ part = "nearby" /\ NearbyNext /\ UNCHANGED <<part, money, people, talk, routeVars, route, trackingVars>>

ServicesSpec ==
  /\ ServicesInit /\ [][ServicesNext]_servicesVars
  /\ OwnEventsFairness /\ HubFairness /\ PushFairness /\ RoutesFairness

-----------------------------------------------------------------------------
(* Every component keeps to the rows, messages and steps the code has.     *)
ServicesTypeOK ==
  /\ part = "wallet" => WalletTypeOK
  /\ part = "contracts" => ContractsTypeOK
  /\ part = "offer pay" => OfferPayTypeOK
  /\ part = "access" => AccessTypeOK
  /\ part = "legacy" => LegacyTypeOK
  /\ part = "own events" => OwnEventsTypeOK /\ EventKept
  /\ part = "chat" => ChatTypeOK
  /\ part = "hub" => HubTypeOK
  /\ part = "push" => PushTypeOK /\ OnlyRetiredForgotten
  /\ part = "routes" => RoutesTypeOK
  /\ part = "polyline" => PolylineTypeOK
  /\ part = "tracking" => TrackingTypeOK
  /\ part = "nearby" => NearbyTypeOK
=============================================================================
