-------------------------- MODULE MCServices_proofs ---------------------------
(***************************************************************************)
(* The theorem about the services of MCServices, each with constants of    *)
(* any size: the rows, messages and steps they keep to, and the bounds     *)
(* they set themselves.                                                    *)
(***************************************************************************)
EXTENDS MCServices, Money_proofs, Access_proofs, Tracking_proofs, Services_proofs

(* The services together: each keeps its own invariant, for none changes   *)
(* what belongs to another.                                                *)

MoneyInv ==
  /\ part = "wallet" => WalletInv
  /\ part = "contracts" => ContractsInv /\ ContractsFit
  /\ part = "offer pay" => PayInv

PeopleInv ==
  /\ part = "access" => AccessInv
  /\ part = "legacy" => LegacyInv
  /\ part = "own events" => OwnEventsInv

TalkInv ==
  /\ part = "chat" => ChatInv /\ ChatPhased
  /\ part = "hub" => HubInv /\ HubBounded
  /\ part = "push" => PushInv

PlacesInv ==
  /\ part = "routes" => RoutesInv /\ RoutesBounded
  /\ part = "polyline" => PolylineTypeOK
  /\ part = "tracking" => TrackingInv
  /\ part = "nearby" => SearchInv /\ NearbyPlaced

\* Every service starts with its invariant.
LEMMA ServicesStart == ServicesInit => MoneyInv /\ PeopleInv /\ TalkInv /\ PlacesInv
<1> SUFFICES ASSUME ServicesInit PROVE MoneyInv /\ PeopleInv /\ TalkInv /\ PlacesInv
  OBVIOUS
<1>1. MoneyInv
  BY WalletStarts, ContractsInvInit, ContractsStartFit, PayInvInit DEF ServicesInit, MoneyInv
<1>2. PeopleInv
  BY AccessInvInit, LegacyInvInit, EventsStart DEF ServicesInit, PeopleInv
<1>3. TalkInv
  BY ChatInvInit, ChatStartsPhased, HubInvInit, HubStartsBounded, PushStart
  DEF ServicesInit, TalkInv
<1>4. PlacesInv
  BY RoutesInvInit, RoutesStartWithin, PolylineStarts, TrackingInvInit, NearbyStarts
  DEF ServicesInit, PlacesInv
<1> QED BY <1>1, <1>2, <1>3, <1>4

\* A step of the money is a step of the service that moves.
LEMMA MoneyStays == MoneyInv /\ [ServicesNext]_servicesVars => MoneyInv'
<1> SUFFICES ASSUME MoneyInv, [ServicesNext]_servicesVars PROVE MoneyInv'
  OBVIOUS
<1>1. part' = part
  BY DEF ServicesNext, servicesVars
<1>2. CASE part = "wallet"
  <2>1. [WalletNext]_walletVars
    BY <1>2 DEF ServicesNext, servicesVars, money
  <2> QED BY <1>1, <1>2, <2>1, WalletSteps DEF MoneyInv
<1>3. CASE part = "contracts"
  <2>1. [ContractsNext]_contractVars
    BY <1>3 DEF ServicesNext, servicesVars, money
  <2> QED BY <1>1, <1>3, <2>1, ContractsInvNext, ContractsStayFit DEF MoneyInv
<1>4. CASE part = "offer pay"
  <2>1. [OfferPayNext]_offerPayVars
    BY <1>4 DEF ServicesNext, servicesVars, money
  <2> QED BY <1>1, <1>4, <2>1, PayInvNext DEF MoneyInv
<1> QED BY <1>1, <1>2, <1>3, <1>4 DEF MoneyInv

\* A step of those who work is a step of the service that moves.
LEMMA PeopleStay == PeopleInv /\ [ServicesNext]_servicesVars => PeopleInv'
<1> SUFFICES ASSUME PeopleInv, [ServicesNext]_servicesVars PROVE PeopleInv'
  OBVIOUS
<1>1. part' = part
  BY DEF ServicesNext, servicesVars
<1>2. CASE part = "access"
  <2>1. [AccessNext]_accessVars
    BY <1>2 DEF ServicesNext, servicesVars, people
  <2> QED BY <1>1, <1>2, <2>1, AccessInvNext DEF PeopleInv
<1>3. CASE part = "legacy"
  <2>1. [LegacyNext]_legacyVars
    BY <1>3 DEF ServicesNext, servicesVars, people
  <2> QED BY <1>1, <1>3, <2>1, LegacyInvNext DEF PeopleInv
<1>4. CASE part = "own events"
  <2>1. [OwnEventsNext]_ownEventVars
    BY <1>4 DEF ServicesNext, servicesVars, people
  <2> QED BY <1>1, <1>4, <2>1, EventsKept DEF PeopleInv
<1> QED BY <1>1, <1>2, <1>3, <1>4 DEF PeopleInv

\* A step of what is told is a step of the service that moves.
LEMMA TalkStays == TalkInv /\ [ServicesNext]_servicesVars => TalkInv'
<1> SUFFICES ASSUME TalkInv, [ServicesNext]_servicesVars PROVE TalkInv'
  OBVIOUS
<1>1. part' = part
  BY DEF ServicesNext, servicesVars
<1>2. CASE part = "chat"
  <2>1. [ChatNext]_chatVars
    BY <1>2 DEF ServicesNext, servicesVars, talk
  <2> QED BY <1>1, <1>2, <2>1, ChatInvNext, ChatStaysPhased DEF TalkInv
<1>3. CASE part = "hub"
  <2>1. [HubNext]_hubVars
    BY <1>3 DEF ServicesNext, servicesVars, talk
  <2> QED BY <1>1, <1>3, <2>1, HubInvNext, HubStaysBounded DEF TalkInv
<1>4. CASE part = "push"
  <2>1. [PushNext]_pushVars
    BY <1>4 DEF ServicesNext, servicesVars, talk
  <2> QED BY <1>1, <1>4, <2>1, PushKept DEF TalkInv
<1> QED BY <1>1, <1>2, <1>3, <1>4 DEF TalkInv

\* A step of where things are is a step of the service that moves.
LEMMA PlacesStay == PlacesInv /\ [ServicesNext]_servicesVars => PlacesInv'
<1> SUFFICES ASSUME PlacesInv, [ServicesNext]_servicesVars PROVE PlacesInv'
  OBVIOUS
<1>1. part' = part
  BY DEF ServicesNext, servicesVars
<1>2. CASE part = "routes"
  <2>1. [RoutesNext]_routeVars
    BY <1>2 DEF ServicesNext, servicesVars, places
  <2> QED BY <1>1, <1>2, <2>1, RoutesInvNext, RoutesStayWithin DEF PlacesInv
<1>3. CASE part = "polyline"
  <2>1. [PolylineNext]_route
    BY <1>3 DEF ServicesNext, servicesVars, places
  <2> QED BY <1>1, <1>3, <2>1, PolylineStays DEF PlacesInv
<1>4. CASE part = "tracking"
  <2>1. [TrackingNext]_trackingVars
    BY <1>4 DEF ServicesNext, servicesVars, places
  <2> QED BY <1>1, <1>4, <2>1, TrackingInvNext DEF PlacesInv
<1>5. CASE part = "nearby"
  <2>1. [NearbyNext]_nearbyVars
    BY <1>5 DEF ServicesNext, servicesVars, places
  <2> QED BY <1>1, <1>5, <2>1, SearchInvNext, NearbyStays DEF PlacesInv
<1> QED BY <1>1, <1>2, <1>3, <1>4, <1>5 DEF PlacesInv

\* What the invariants say of the states of every service.
LEMMA ServicesInTypes == MoneyInv /\ PeopleInv /\ TalkInv /\ PlacesInv => ServicesTypeOK
<1> SUFFICES ASSUME MoneyInv, PeopleInv, TalkInv, PlacesInv PROVE ServicesTypeOK
  OBVIOUS
<1>1. /\ WalletInv => WalletTypeOK
      /\ ContractsInv /\ ContractsFit => ContractsTypeOK
      /\ PayInv => OfferPayTypeOK
  BY ContractsInTypes, PayInTypes DEF WalletInv
<1>2. /\ AccessInv => AccessTypeOK
      /\ LegacyInv => LegacyTypeOK
      /\ OwnEventsInv => OwnEventsTypeOK /\ EventKept
  BY EventsInTypes DEF AccessInv, LegacyInv, OwnEventsInv
<1>3. /\ ChatInv /\ ChatPhased => ChatTypeOK
      /\ HubInv /\ HubBounded => HubTypeOK
      /\ PushInv => PushTypeOK /\ OnlyRetiredForgotten
  BY ChatInTypes, HubInTypes, PushInTypes
<1>4. /\ RoutesInv /\ RoutesBounded => RoutesTypeOK
      /\ TrackingInv => TrackingTypeOK
      /\ SearchInv /\ NearbyPlaced => NearbyTypeOK
  BY RoutesInTypes, NearbyInTypes DEF TrackingInv
<1>5. /\ part = "wallet" => WalletTypeOK
      /\ part = "contracts" => ContractsTypeOK
      /\ part = "offer pay" => OfferPayTypeOK
  BY <1>1 DEF MoneyInv
<1>6. /\ part = "access" => AccessTypeOK
      /\ part = "legacy" => LegacyTypeOK
      /\ part = "own events" => OwnEventsTypeOK /\ EventKept
  BY <1>2 DEF PeopleInv
<1>7. /\ part = "chat" => ChatTypeOK
      /\ part = "hub" => HubTypeOK
      /\ part = "push" => PushTypeOK /\ OnlyRetiredForgotten
  BY <1>3 DEF TalkInv
<1>8. /\ part = "routes" => RoutesTypeOK
      /\ part = "polyline" => PolylineTypeOK
      /\ part = "tracking" => TrackingTypeOK
      /\ part = "nearby" => NearbyTypeOK
  BY <1>4 DEF PlacesInv
<1> QED BY <1>5, <1>6, <1>7, <1>8 DEF ServicesTypeOK

\* Every service keeps to the rows, messages and steps the code has, within
\* the bounds it sets itself, for any number of riders, orders, requests,
\* messages and connections.
THEOREM ServicesTyped == ServicesSpec => []ServicesTypeOK
<1>1. MoneyInv /\ PeopleInv /\ TalkInv /\ PlacesInv /\ [ServicesNext]_servicesVars
        => MoneyInv' /\ PeopleInv' /\ TalkInv' /\ PlacesInv'
  BY MoneyStays, PeopleStay, TalkStays, PlacesStay
<1> QED BY <1>1, ServicesStart, ServicesInTypes, PTL DEF ServicesSpec

===============================================================================
