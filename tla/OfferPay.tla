------------------------------ MODULE OfferPay ------------------------------
(***************************************************************************)
(* What a rider is paid for one delivery or its cancellation: the contract *)
(* is quoted and frozen with the offer, copied to the assignment when the  *)
(* rider accepts, and read again at delivery; cancelling an assigned       *)
(* delivery queues a review, which an administrator approves or rejects.   *)
(* The rollout switch is configuration: a restart may change it at any     *)
(* time.  Offers and statuses follow DeliveryStore, without its races.     *)
(***************************************************************************)
EXTENDS Policy, Sequences, FiniteSets

CONSTANTS
  PayRiders,      \* platform riders
  PayDeliveries,  \* food deliveries that are not the restaurant's own
  Offered,        \* the valid, enabled contracts a rider may have at some time
  Items,          \* discounted value of the items, in cents
  Metres,         \* length of the trip
  Tip,            \* tip, in cents
  SnapshotPay,    \* rider cost in the order's pricing snapshot, in cents
  NoPay,          \* no row, no rider: a null value
  MaxOffers       \* bound on the offers opened

ASSUME OfferPayAssumption ==
  /\ \A p \in Offered : Valid(p)
  /\ {Items, Metres, Tip, SnapshotPay} \subseteq Nat
  /\ NoPay \notin PayRiders

VARIABLES
  rollout,     \* RIDER_CONTRACT_PAY_ENABLED of the running service
  offerState,  \* status of delivery_order_requests
  offerPay,    \* rider_offer_pay
  shown,       \* the pay in the offer the rider was sent last
  jobPay,      \* rider_assignment_pay
  carrier,     \* assigned_rider_id
  stage,       \* delivery_status
  review,      \* rider_cancellation_pay_reviews
  credits,     \* wallet entries: deliveries and approved cancellations
  offers       \* number of offers opened so far

offerPayVars == <<rollout, offerState, offerPay, shown, jobPay, carrier, stage,
                  review, credits, offers>>

Pairs == PayDeliveries \X PayRiders
Frozen == [amount : Nat, incentive : Nat, policy : Offered]
Carrying == {"rider_assigned", "picked_up"}

OfferPayTypeOK ==
  /\ rollout \in BOOLEAN
  /\ offerState \in [Pairs -> {"none", "pending", "accepted", "rejected", "closed"}]
  /\ \A x \in Pairs : /\ offerPay[x] = NoPay \/ offerPay[x] \in Frozen
                      /\ jobPay[x] = NoPay \/ jobPay[x] \in Frozen
                      /\ shown[x] \in Nat
                      /\ \/ review[x] = NoPay
                         \/ review[x] \in [cents : Nat, status : {"pending", "approved", "rejected"}]
  /\ carrier \in [PayDeliveries -> PayRiders \cup {NoPay}]
  /\ stage \in [PayDeliveries -> Carrying \cup {"rider_searching", "delivered", "cancelled"}]
  /\ \A d \in PayDeliveries : carrier[d] = NoPay => stage[d] \in {"rider_searching", "cancelled"}

OfferPayInit ==
  /\ rollout \in BOOLEAN
  /\ offerState = [x \in Pairs |-> "none"]
  /\ offerPay = [x \in Pairs |-> NoPay]
  /\ shown = [x \in Pairs |-> 0]
  /\ jobPay = [x \in Pairs |-> NoPay]
  /\ carrier = [d \in PayDeliveries |-> NoPay]
  /\ stage = [d \in PayDeliveries |-> "rider_searching"]
  /\ review = [x \in Pairs |-> NoPay]
  /\ credits = <<>>
  /\ offers = 0

-----------------------------------------------------------------------------
(* The row frozen before stays: ON CONFLICT (request_id) DO NOTHING. *)
Quote(p) == [amount |-> QuotedPay(p, Items, Metres) + Tip,
             incentive |-> QuotedIncentive(p, Items), policy |-> p]

FrozenAnew(old, p) == IF p = NoPay THEN old ELSE Quote(p)
FrozenPay(old, p) == IF p = NoPay \/ old # NoPay THEN old ELSE Quote(p)

(* CreateRequest opens the offer, or opens an expired or cancelled one     *)
(* again, and freezes the contract the rider has now, if any; RequestPay   *)
(* then reads the frozen pay, whatever the switch says.  A quote over the  *)
(* limit fails the offer.                                                  *)
OpensOffer(d, r, p) ==
  LET x == <<d, r>>
      frozen == IF rollout THEN FrozenPay(offerPay[x], p) ELSE offerPay[x] IN
  /\ offers < MaxOffers
  /\ stage[d] = "rider_searching"
  /\ offerState[x] \in {"none", "closed"}
  /\ rollout /\ p # NoPay => QuotedPay(p, Items, Metres) <= MaxCents
  /\ offerState' = [offerState EXCEPT ![x] = "pending"]
  /\ offerPay' = [offerPay EXCEPT ![x] = frozen]
  /\ shown' = [shown EXCEPT ![x] = IF frozen = NoPay THEN SnapshotPay ELSE frozen.amount]
  /\ offers' = offers + 1
  /\ UNCHANGED <<rollout, jobPay, carrier, stage, review, credits>>

ClosesOffer(d, r) ==
  /\ offerState[<<d, r>>] = "pending"
  /\ offerState' = [offerState EXCEPT ![<<d, r>>] = "closed"]
  /\ UNCHANGED <<rollout, offerPay, shown, jobPay, carrier, stage, review, credits, offers>>

(* The frozen row is copied only while the rollout is on, and only once. *)
CopiedPay(x) == IF rollout /\ jobPay[x] = NoPay THEN offerPay[x] ELSE jobPay[x]

AcceptsOffer(d, r) ==
  LET x == <<d, r>> IN
  /\ offerState[x] = "pending"
  /\ stage[d] = "rider_searching"
  /\ offerState' = [y \in Pairs |->
       IF y = x THEN "accepted"
       ELSE IF y[1] = d /\ offerState[y] = "pending" THEN "closed" ELSE offerState[y]]
  /\ jobPay' = [jobPay EXCEPT ![x] = CopiedPay(x)]
  /\ carrier' = [carrier EXCEPT ![d] = r]
  /\ stage' = [stage EXCEPT ![d] = "rider_assigned"]
  /\ UNCHANGED <<rollout, offerPay, shown, review, credits, offers>>

(* Declines of the others become cancelled offers: they may be asked again. *)
WithdrawsOffer(d) ==
  /\ stage[d] = "rider_assigned"
  /\ offerState' = [y \in Pairs |->
       IF y[1] # d \/ offerState[y] = "none" THEN offerState[y]
       ELSE IF y[2] = carrier[d] THEN "rejected" ELSE "closed"]
  /\ carrier' = [carrier EXCEPT ![d] = NoPay]
  /\ stage' = [stage EXCEPT ![d] = "rider_searching"]
  /\ UNCHANGED <<rollout, offerPay, shown, jobPay, review, credits, offers>>

PicksUp(d) ==
  /\ stage[d] = "rider_assigned"
  /\ stage' = [stage EXCEPT ![d] = "picked_up"]
  /\ UNCHANGED <<rollout, offerState, offerPay, shown, jobPay, carrier, review, credits, offers>>

(* riderPayoutFor: the assignment's pay, else the order's pricing snapshot. *)
Payout(x) == IF jobPay[x] = NoPay THEN SnapshotPay ELSE jobPay[x].amount

Credit(kind, x, cents) == [kind |-> kind, pair |-> x, cents |-> cents]

PaysDelivery(d) ==
  /\ stage[d] = "picked_up"
  /\ stage' = [stage EXCEPT ![d] = "delivered"]
  /\ credits' = Append(credits, Credit("delivery", <<d, carrier[d]>>, Payout(<<d, carrier[d]>>)))
  /\ UNCHANGED <<rollout, offerState, offerPay, shown, jobPay, carrier, review, offers>>

(* The trigger on delivery_status proposes the pay of the stage it ended in *)
(* for the rider the row had, once per delivery and rider.                  *)
CancelsDelivery(d) ==
  LET x == <<d, carrier[d]>> IN
  /\ stage[d] \in Carrying \cup {"rider_searching"}
  /\ stage' = [stage EXCEPT ![d] = "cancelled"]
  /\ review' = IF carrier[d] # NoPay /\ jobPay[x] # NoPay /\ review[x] = NoPay
               THEN [review EXCEPT ![x] =
                       [cents |-> CancellationPay(jobPay[x].policy, stage[d], jobPay[x].incentive),
                        status |-> "pending"]]
               ELSE review
  /\ UNCHANGED <<rollout, offerState, offerPay, shown, jobPay, carrier, credits, offers>>

Reviews(d, r, approve) ==
  LET x == <<d, r>> IN
  /\ rollout
  /\ stage[d] = "cancelled"
  /\ review' = [review EXCEPT ![x].status = IF approve THEN "approved" ELSE "rejected"]
  /\ credits' = IF approve THEN Append(credits, Credit("incentive", x, review[x].cents))
                           ELSE credits
  /\ UNCHANGED <<rollout, offerState, offerPay, shown, jobPay, carrier, stage, offers>>

ReviewUnlessRejected(d, r, approve) ==
  /\ review[<<d, r>>] # NoPay /\ review[<<d, r>>].status # "rejected"
  /\ Len(credits) < 2
  /\ Reviews(d, r, approve)

ReviewCancellationPay(d, r, approve) ==
  /\ review[<<d, r>>] # NoPay /\ review[<<d, r>>].status = "pending"
  /\ Reviews(d, r, approve)

(* ConfigureContractPay of a service that starts with the other setting. *)
ConfigureContractPay ==
  /\ rollout' = ~rollout
  /\ UNCHANGED <<offerState, offerPay, shown, jobPay, carrier, stage, review, credits, offers>>

OfferPayNext ==
  \/ ConfigureContractPay
  \/ \E d \in PayDeliveries :
       \/ WithdrawsOffer(d)
       \/ PicksUp(d)
       \/ PaysDelivery(d)
       \/ CancelsDelivery(d)
       \/ \E r \in PayRiders :
            \/ \E p \in Offered \cup {NoPay} : OpensOffer(d, r, p)
            \/ ClosesOffer(d, r)
            \/ AcceptsOffer(d, r)
            \/ \E approve \in BOOLEAN : ReviewCancellationPay(d, r, approve)

OfferPaySpec == OfferPayInit /\ [][OfferPayNext]_offerPayVars

-----------------------------------------------------------------------------
(* A rider is paid for a delivery what the offer they accepted said: no    *)
(* edit of the contract, no second offer and no withdrawal in between      *)
(* changes it.  The exception the code makes: an offer frozen while the    *)
(* rollout was on and accepted after it was switched off pays the snapshot.*)
PaidAsShown ==
  \A i \in DOMAIN credits :
    LET x == credits[i].pair IN
    credits[i].kind = "delivery" =>
      \/ credits[i].cents = shown[x]
      \/ offerPay[x] # NoPay /\ jobPay[x] = NoPay /\ credits[i].cents = SnapshotPay

(* A delivery ends in one credit at most: for delivering it or for its     *)
(* cancellation, to one rider, however often it is reviewed.               *)
CreditedOnce ==
  \A i, j \in DOMAIN credits : credits[i].pair[1] = credits[j].pair[1] => i = j
=============================================================================
