------------------------------- MODULE Access -------------------------------
(***************************************************************************)
(* Who a rider works for.  A rider serves the platform, or joins one       *)
(* restaurant by invitation; one whom the owner removes must apply to the  *)
(* platform again.  Handlers, SQL functions and triggers of the two        *)
(* services change these rows in transactions of their own, which          *)
(* serialise on two row locks: the rider's permanent work profile and his  *)
(* availability.  A statement reads what is committed when it runs (READ   *)
(* COMMITTED), also inside the functions and triggers.                     *)
(***************************************************************************)
EXTENDS Naturals, Sequences, FiniteSets

CONSTANTS
  AccessRiders,  \* the riders
  Employers,     \* restaurants that hire riders
  AccessTxs,     \* transactions that may be open at the same time
  NoTx,          \* a lock nobody holds, a transaction that is not open
  NoEmployer     \* the restaurant of a transaction that names none

ASSUME AccessAssumption == NoTx \notin AccessTxs /\ NoEmployer \notin Employers

VARIABLES
  linkedTo,        \* active rows of restaurant_riders
  invitation,      \* restaurant_rider_invitations.status, "closed" if not open
  platformAccess,  \* rider_platform_access.state; no row means approved
  onDuty,          \* rider_availability.is_online
  carrying,        \* rider_availability.current_order_id IS NOT NULL
  hasOffer,        \* a pending row of delivery_order_requests
  rowHolder,       \* who holds the locks of the two rows of a rider
  openTx           \* what each transaction is doing

accessVars == <<linkedTo, invitation, platformAccess, onDuty, carrying, hasOffer,
                rowHolder, openTx>>
accessRows == <<linkedTo, invitation, platformAccess, onDuty, carrying, hasOffer>>

Lockable == {"profile", "availability"}
InvitationStatuses == {"closed", "pending", "accepted"}
AccessStates == {"reapply_required", "pending", "approved", "rejected"}
Joining == {"join", "decline", "leave"}    \* these name a restaurant
PlatformWork == {"offer", "accept", "online", "offline", "finish",
                 "reapply", "approve", "reject"}
TxKinds == Joining \cup PlatformWork
OpenTxs == [rider : AccessRiders, kind : TxKinds, place : Employers \cup {NoEmployer},
            wants : {<<>>, <<"profile">>, <<"availability">>,
                     <<"profile", "availability">>, <<"availability", "profile">>},
            permitted : BOOLEAN]

AccessTypeOK ==
  /\ linkedTo \in [AccessRiders -> SUBSET Employers]
  /\ invitation \in [AccessRiders -> [Employers -> InvitationStatuses]]
  /\ platformAccess \in [AccessRiders -> AccessStates]
  /\ onDuty \in [AccessRiders -> BOOLEAN]
  /\ carrying \in [AccessRiders -> BOOLEAN]
  /\ hasOffer \in [AccessRiders -> BOOLEAN]
  /\ rowHolder \in [AccessRiders -> [Lockable -> AccessTxs \cup {NoTx}]]
  /\ openTx \in [AccessTxs -> OpenTxs \cup {NoTx}]

AccessInit ==
  /\ linkedTo = [r \in AccessRiders |-> {}]
  /\ invitation = [r \in AccessRiders |-> [x \in Employers |-> "closed"]]
  /\ platformAccess = [r \in AccessRiders |-> "approved"]
  /\ onDuty = [r \in AccessRiders |-> FALSE]
  /\ carrying = [r \in AccessRiders |-> FALSE]
  /\ hasOffer = [r \in AccessRiders |-> FALSE]
  /\ rowHolder = [r \in AccessRiders |-> [k \in Lockable |-> NoTx]]
  /\ openTx = [t \in AccessTxs |-> NoTx]

-----------------------------------------------------------------------------
(* The locks, in the order the statements take them.  An UPDATE of the     *)
(* availability row has locked it before its trigger asks for the profile; *)
(* the INSERT of an upsert runs its trigger before it meets the row.       *)
LocksOf(kind, r) ==
  CASE kind \in {"offer", "decline", "reapply", "approve", "reject"} -> <<"profile">>
    [] kind \in {"accept", "join", "leave", "online"} -> <<"profile", "availability">>
    [] kind = "offline" -> <<"availability">>
    [] kind = "finish" -> IF onDuty[r] THEN <<"availability", "profile">>
                                       ELSE <<"availability">>

StartsTx(t, r, kind, x) ==
  /\ openTx[t] = NoTx
  /\ kind = "finish" => carrying[r]
  /\ openTx' = [openTx EXCEPT ![t] =
       [rider |-> r, kind |-> kind, place |-> x, wants |-> LocksOf(kind, r),
        permitted |-> FALSE]]
  /\ UNCHANGED <<accessRows, rowHolder>>

Linked(r) == linkedTo[r] # {}
Approved(r) == platformAccess[r] = "approved"

(* What a transaction reads under the profile lock, and may refuse on. *)
Permitted(kind, r, x) ==
  CASE kind \in {"offer", "accept"} -> ~Linked(r) /\ Approved(r)
    [] kind = "join" -> invitation[r][x] = "pending" /\ linkedTo[r] \subseteq {x}
    [] kind = "decline" -> invitation[r][x] = "pending"
    [] kind = "leave" -> x \in linkedTo[r]
    [] kind = "online" -> Approved(r) \/ Linked(r)
    [] kind = "finish" -> ~onDuty[r] \/ Approved(r) \/ Linked(r)
    [] kind = "reapply" -> platformAccess[r] \in {"reapply_required", "rejected"} /\ ~Linked(r)
    [] kind \in {"approve", "reject"} -> platformAccess[r] = "pending" /\ ~Linked(r)
    [] kind = "offline" -> TRUE

PassesGuard(t) ==
  LET o == openTx[t] IN
  /\ o # NoTx
  /\ ~o.permitted
  /\ "profile" \notin {o.wants[i] : i \in DOMAIN o.wants}
  /\ Permitted(o.kind, o.rider, o.place)
  /\ openTx' = [openTx EXCEPT ![t].permitted = TRUE]
  /\ UNCHANGED <<accessRows, rowHolder>>

(* Guards run before the availability row is asked for, where that is last. *)
TakesLock(t) ==
  LET o == openTx[t] IN
  /\ o # NoTx
  /\ o.wants # <<>>
  /\ o.wants = <<"availability">> => o.permitted \/ o.kind \in {"offline", "finish"}
  /\ rowHolder[o.rider][Head(o.wants)] = NoTx
  /\ rowHolder' = [rowHolder EXCEPT ![o.rider][Head(o.wants)] = t]
  /\ openTx' = [openTx EXCEPT ![t].wants = Tail(o.wants)]
  /\ UNCHANGED accessRows

-----------------------------------------------------------------------------
(* What each transaction writes. *)

(* CreateRequest inserts or reopens the rider's offer. *)
WritesOffer(r) ==
  /\ hasOffer' = [hasOffer EXCEPT ![r] = TRUE]
  /\ UNCHANGED <<linkedTo, invitation, platformAccess, onDuty, carrying>>

(* acceptRequest: the offer is still pending, the rider online and idle. *)
WritesAcceptance(r) ==
  /\ hasOffer[r] /\ onDuty[r] /\ ~carrying[r]
  /\ hasOffer' = [hasOffer EXCEPT ![r] = FALSE]
  /\ carrying' = [carrying EXCEPT ![r] = TRUE]
  /\ UNCHANGED <<linkedTo, invitation, platformAccess, onDuty>>

WritesMembershipOnly(r, x) ==
  /\ ~carrying[r]
  /\ linkedTo' = [linkedTo EXCEPT ![r] = @ \cup {x}]
  /\ invitation' = [invitation EXCEPT ![r][x] = "accepted"]
  /\ UNCHANGED <<platformAccess, onDuty, carrying, hasOffer>>

(* No joining mid-trip; other invitations and all platform offers end. *)
WritesMembership(r, x) ==
  /\ ~carrying[r]
  /\ linkedTo' = [linkedTo EXCEPT ![r] = @ \cup {x}]
  /\ invitation' = [invitation EXCEPT ![r] =
       [y \in Employers |-> IF y = x THEN "accepted"
                            ELSE IF @[y] = "pending" THEN "closed" ELSE @[y]]]
  /\ hasOffer' = [hasOffer EXCEPT ![r] = FALSE]
  /\ UNCHANGED <<platformAccess, onDuty, carrying>>

WritesDecline(r, x) ==
  /\ invitation' = [invitation EXCEPT ![r][x] = "closed"]
  /\ UNCHANGED <<linkedTo, platformAccess, onDuty, carrying, hasOffer>>

(* The owner's UPDATE and its three triggers. *)
WritesRemoval(r, x) ==
  /\ ~carrying[r]
  /\ linkedTo' = [linkedTo EXCEPT ![r] = @ \ {x}]
  /\ invitation' = [invitation EXCEPT ![r][x] = IF @ = "accepted" THEN "closed" ELSE @]
  /\ platformAccess' = [platformAccess EXCEPT ![r] = "reapply_required"]
  /\ onDuty' = [onDuty EXCEPT ![r] = FALSE]
  /\ hasOffer' = [hasOffer EXCEPT ![r] = FALSE]
  /\ UNCHANGED carrying

WritesDuty(r, online) ==
  /\ onDuty' = [onDuty EXCEPT ![r] = online]
  /\ UNCHANGED <<linkedTo, invitation, platformAccess, carrying, hasOffer>>

(* Delivered, released or closed: the rider is freed and stays as he is. *)
WritesFinish(r) ==
  /\ carrying' = [carrying EXCEPT ![r] = FALSE]
  /\ UNCHANGED <<linkedTo, invitation, platformAccess, onDuty, hasOffer>>

WritesAccess(r, state) ==
  /\ platformAccess' = [platformAccess EXCEPT ![r] = state]
  /\ UNCHANGED <<linkedTo, invitation, onDuty, carrying, hasOffer>>

Writes(o) ==
  \/ o.kind = "offer" /\ WritesOffer(o.rider)
  \/ o.kind = "accept" /\ WritesAcceptance(o.rider)
  \/ o.kind = "join" /\ WritesMembership(o.rider, o.place)
  \/ o.kind = "decline" /\ WritesDecline(o.rider, o.place)
  \/ o.kind = "leave" /\ WritesRemoval(o.rider, o.place)
  \/ o.kind = "online" /\ WritesDuty(o.rider, TRUE)
  \/ o.kind = "offline" /\ WritesDuty(o.rider, FALSE)
  \/ o.kind = "finish" /\ WritesFinish(o.rider)
  \/ o.kind = "reapply" /\ WritesAccess(o.rider, "pending")
  \/ o.kind = "approve" /\ WritesAccess(o.rider, "approved")
  \/ o.kind = "reject" /\ WritesAccess(o.rider, "rejected")

ClosesTx(t) ==
  /\ openTx' = [openTx EXCEPT ![t] = NoTx]
  /\ rowHolder' = [r \in AccessRiders |-> [k \in Lockable |->
       IF rowHolder[r][k] = t THEN NoTx ELSE rowHolder[r][k]]]

CommitsTx(t) ==
  /\ openTx[t] # NoTx
  /\ openTx[t].wants = <<>> /\ openTx[t].permitted
  /\ Writes(openTx[t])
  /\ ClosesTx(t)

(* A refusal, an error, a crash, or the victim PostgreSQL picks when two   *)
(* transactions wait for each other's row.                                 *)
RollsBackTx(t) ==
  /\ openTx[t] # NoTx
  /\ ClosesTx(t)
  /\ UNCHANGED accessRows

-----------------------------------------------------------------------------
(* An owner invites; an invitation lapses after a week; an offer is        *)
(* declined or expires.  One statement each.                               *)
Invites(r, x) ==
  /\ invitation[r][x] # "pending" /\ x \notin linkedTo[r]
  /\ invitation' = [invitation EXCEPT ![r][x] = "pending"]
  /\ UNCHANGED <<linkedTo, platformAccess, onDuty, carrying, hasOffer, rowHolder, openTx>>

Lapses(r, x) ==
  /\ invitation[r][x] = "pending"
  /\ invitation' = [invitation EXCEPT ![r][x] = "closed"]
  /\ UNCHANGED <<linkedTo, platformAccess, onDuty, carrying, hasOffer, rowHolder, openTx>>

OfferEnds(r) ==
  /\ hasOffer[r]
  /\ hasOffer' = [hasOffer EXCEPT ![r] = FALSE]
  /\ UNCHANGED <<linkedTo, invitation, platformAccess, onDuty, carrying, rowHolder, openTx>>

AccessNext ==
  \/ \E t \in AccessTxs, r \in AccessRiders :
       \/ \E kind \in Joining, x \in Employers : StartsTx(t, r, kind, x)
       \/ \E kind \in PlatformWork : StartsTx(t, r, kind, NoEmployer)
  \/ \E t \in AccessTxs : TakesLock(t) \/ PassesGuard(t) \/ CommitsTx(t) \/ RollsBackTx(t)
  \/ \E r \in AccessRiders, x \in Employers : Invites(r, x) \/ Lapses(r, x)
  \/ \E r \in AccessRiders : OfferEnds(r)

AccessSpec == AccessInit /\ [][AccessNext]_accessVars

-----------------------------------------------------------------------------
(* A rider works for one master.  He has at most one restaurant; an offer  *)
(* or a delivery of the platform is in the hands of a rider without        *)
(* restaurant whom the platform admits; and whoever is online without a    *)
(* restaurant is admitted.  The guards and the writes that need them are   *)
(* spread over two services and three triggers: the profile lock joins     *)
(* them.                                                                   *)
OneMaster == \A r \in AccessRiders :
  /\ Cardinality(linkedTo[r]) <= 1
  /\ hasOffer[r] \/ carrying[r] => ~Linked(r) /\ Approved(r)
  /\ onDuty[r] /\ ~Linked(r) => Approved(r)
=============================================================================
