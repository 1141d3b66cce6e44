------------------------------ MODULE Dispatch ------------------------------
(***************************************************************************)
(* How an order finds a rider: internal/service and internal/worker above  *)
(* the tables of DeliveryStore, with one step for each statement or        *)
(* transaction, since anything may run between two of them.                *)
(*                                                                         *)
(* The processes are the SQS consumer and the redispatch sweeper, each of  *)
(* which runs one job at a time; one accept request for each rider; the    *)
(* expiry worker; and every check for remaining offers that a decline or   *)
(* an expiry starts.  They share the tables and the acceptance lock, a key *)
(* in Redis.  Row locks are held from AcceptBegin to the end of the accept *)
(* transaction, and other writers of those rows wait.                      *)
(*                                                                         *)
(* Riders have a fresh location within the radius while they are online.   *)
(***************************************************************************)
EXTENDS DeliveryStore, FiniteSets

CONSTANTS Consumers,     \* goroutines that poll SQS, one for each instance
          Sweeper,       \* the goroutine of RedispatchWorker
          ExpiryWorker,  \* the goroutine of ExpiryWorker
          MaxRiders,     \* MAX_RIDERS_TO_NOTIFY
          MaxFaults      \* bound: crashes and Redis or database errors

ASSUME DispatchAssumption ==
  /\ Sweeper \notin Consumers
  /\ ExpiryWorker \notin Riders
  /\ MaxRiders \in Nat \ {0}
  /\ MaxFaults \in Nat

VARIABLES
  job,        \* process -> the dispatch it is running
  acceptor,   \* rider -> the accept transaction this rider has open
  recounts,   \* <<delivery, who>>: checks for remaining offers not yet made
  closings,   \* <<delivery, who>>: checks that found none
  unlocking,  \* <<delivery, rider>>: withdrawn, the lock not yet released
  lock,       \* order number -> the rider named by lock:order:<number>
  faults      \* faults so far

dispatchVars == <<job, acceptor, recounts, closings, unlocking, lock, faults>>
vars == <<storeVars, dispatchVars>>

Jobs == Consumers \cup {Sweeper}
NoJob == [at |-> "idle"]
NoAccept == [at |-> "idle"]
Steps == {"create", "count", "reset", "search", "offer", "insert", "giveup"}

\* A job: its next step, whether it serves an event or the sweep, the delivery,
\* the riders still to be offered to, the one being offered to, and whether any
\* offer was made.
Running ==
  [at : Steps, path : {"event", "sweep"}, delivery : Deliveries,
   riders : SUBSET Platform, rider : Platform \cup {NoRider}, sent : BOOLEAN]

\* An accept: locks taken, or past the Redis lock, which it may hold; inTime is
\* the search window at the start of the transaction, which NOW() returns.
Open ==
  [at : {"locked", "claiming"}, delivery : Deliveries, inTime : BOOLEAN, holds : BOOLEAN]

ProcessTypeOK ==
  /\ job \in [Jobs -> {NoJob} \cup Running]
  /\ acceptor \in [Platform -> {NoAccept} \cup Open]
  /\ recounts \subseteq Deliveries \X (Riders \cup {ExpiryWorker})
  /\ closings \subseteq Deliveries \X (Riders \cup {ExpiryWorker})
  /\ unlocking \subseteq Deliveries \X Riders
  /\ lock \in [OrderIds -> Platform \cup {NoRider}]
  /\ faults \in 0..MaxFaults

DispatchTypeOK == TypeOK /\ ProcessTypeOK

DispatchInit ==
  /\ StoreInit
  /\ job = [p \in Jobs |-> NoJob]
  /\ acceptor = [r \in Platform |-> NoAccept]
  /\ recounts = {} /\ closings = {} /\ unlocking = {}
  /\ lock = [n \in OrderIds |-> NoRider]
  /\ faults = 0

-----------------------------------------------------------------------------
(* What the steps read.                                                    *)

Accepting(r, d) == acceptor[r].at # "idle" /\ acceptor[r].delivery = d

\* No accept transaction holds the rows of the delivery and of its order.
RowsFree(d) == \A r \in Platform : ~Accepting(r, d)

\* No transaction holds the rider's profile row.
ProfileFree(r) ==
  /\ acceptor[r].at = "idle"
  /\ \A d \in Deliveries : <<d, r>> \notin offering

\* FoodDispatchAllowed; a grocery order is not checked.
DispatchAllowed(d) == d \in Food => Claimable(d) /\ inWindow[d]

NoOffers(d, status) == \A r \in Riders : request[d][r] # status

\* Mutant of MayRedispatch: an order that found nobody once is not tried again.
MayRedispatchOnce(d) ==
  /\ ~restaurantOwned[d]
  /\ Unassigned(d) /\ deliveryStatus[d] # "no_rider_found"
  /\ DispatchAllowed(d)
  /\ NoOffers(d, "accepted")

\* canRedispatch, up to its count of pending offers.
MayRedispatch(d) ==
  /\ ~restaurantOwned[d]
  /\ Unassigned(d)
  /\ DispatchAllowed(d)
  /\ NoOffers(d, "accepted")

\* findOfferableRiders: the nearest MaxRiders of those who qualify, of whom
\* nothing is known but their number.
Qualified(d) ==
  {r \in Platform : /\ isOnline[r] /\ isAvailable[r] /\ currentOrder[r] = NoOrder
                    /\ request[d][r] # "rejected"}

OfferableRiders(d) ==
  {S \in SUBSET Qualified(d) :
     \/ S = Qualified(d) /\ Cardinality(S) <= MaxRiders
     \/ Cardinality(S) = MaxRiders /\ Cardinality(Qualified(d)) > MaxRiders}

-----------------------------------------------------------------------------
(* Jobs: the path of an event and the path of the sweep share their steps. *)

At(p, step) == job[p].at = step
Goto(p, step) == job' = [job EXCEPT ![p].at = step]
Finish(p) == job' = [job EXCEPT ![p] = NoJob]
JobOnly == UNCHANGED <<acceptor, recounts, closings, unlocking, lock, faults>>

\* A search status is written by a guarded UPDATE, which may match no row.
TrySearchStatus(d, status) ==
  /\ RowsFree(d)
  /\ SetSearchStatus(d, status) \/ (~Unassigned(d) /\ UNCHANGED storeVars)

\* ProcessOrderPlacedEvent for an event, new or repeated, and for an order that
\* MissingFoodDispatches lists: a first dispatch creates the row, a later one
\* needs canRedispatch.
HandleEvent(p, d) ==
  /\ At(p, "idle")
  /\ \/ deliveryStatus[d] = "absent" /\ DispatchAllowed(d) /\ (p = Sweeper => d \in Food)
     \/ p \in Consumers /\ MayRedispatch(d)
  /\ job' = [job EXCEPT ![p] =
       [at |-> IF deliveryStatus[d] = "absent" THEN "create" ELSE "count", path |-> "event",
        delivery |-> d, riders |-> {}, rider |-> NoRider, sent |-> FALSE]]
  /\ UNCHANGED storeVars /\ JobOnly

\* RedispatchOrder, for a delivery that FindRedispatchCandidates lists.
Redispatch(d) ==
  /\ At(Sweeper, "idle")
  /\ d \in Food
  /\ MayRedispatch(d)
  /\ job' = [job EXCEPT ![Sweeper] =
       [at |-> "count", path |-> "sweep",
        delivery |-> d, riders |-> {}, rider |-> NoRider, sent |-> FALSE]]
  /\ UNCHANGED storeVars /\ JobOnly

\* The upsert leaves the status of a row that exists by now.
CreateRow(p) ==
  /\ At(p, "create")
  /\ \/ CreateDeliveryOrder(job[p].delivery)
     \/ (deliveryStatus[job[p].delivery] # "absent" /\ UNCHANGED storeVars)
  /\ Goto(p, "search") /\ JobOnly

\* The last read of canRedispatch.  An event resets the status and searches;
\* the sweep resets it once it has found somebody.
CountOffers(p) ==
  /\ At(p, "count")
  /\ IF NoOffers(job[p].delivery, "pending")
       THEN Goto(p, IF job[p].path = "event" THEN "reset" ELSE "search")
       ELSE Finish(p)
  /\ UNCHANGED storeVars /\ JobOnly

ResetStatus(p) ==
  /\ At(p, "reset")
  /\ TrySearchStatus(job[p].delivery, "rider_searching")
  /\ Goto(p, IF job[p].path = "event" THEN "search" ELSE "offer") /\ JobOnly

\* The search of an event that finds nobody, or fails, gives up.
Search(p) ==
  /\ At(p, "search")
  /\ \E found \in OfferableRiders(job[p].delivery) :
       \/ /\ found # {}
          /\ job' = [job EXCEPT
               ![p] = [job[p] EXCEPT !.riders = found,
                                     !.at = IF job[p].path = "event" THEN "offer" ELSE "reset"]]
       \/ found = {} /\ job[p].path = "event" /\ Goto(p, "giveup")
       \/ found = {} /\ job[p].path = "sweep" /\ Finish(p)
  /\ UNCHANGED storeVars /\ JobOnly

\* sendOffers, one CreateRequest for each rider: its SELECT ...
Offer(p, r) ==
  /\ At(p, "offer")
  /\ r \in job[p].riders
  /\ ProfileFree(r)
  /\ job' = [job EXCEPT ![p] =
       [job[p] EXCEPT !.riders = job[p].riders \ {r},
                      !.rider = IF Unassigned(job[p].delivery) THEN r ELSE NoRider,
                      !.at = IF Unassigned(job[p].delivery) THEN "insert" ELSE "offer"]]
  /\ \/ OfferSelected(job[p].delivery, r)
     \/ (~Unassigned(job[p].delivery) /\ UNCHANGED storeVars)
  /\ JobOnly

\* ... and its INSERT, which waits for an accept that holds the delivery row.
\* An offer that was not opened counts as not sent.
Insert(p) ==
  /\ At(p, "insert")
  /\ RowsFree(job[p].delivery)
  /\ OfferInserted(job[p].delivery, job[p].rider)
  /\ job' = [job EXCEPT ![p] =
       [job[p] EXCEPT !.at = "offer", !.rider = NoRider,
                      !.sent = job[p].sent \/ request' # request]]
  /\ JobOnly

\* After the last rider, only the sweep takes the status back.
OffersDone(p) ==
  /\ At(p, "offer")
  /\ job[p].riders = {}
  /\ IF job[p].path = "sweep" /\ ~job[p].sent THEN Goto(p, "giveup") ELSE Finish(p)
  /\ UNCHANGED storeVars /\ JobOnly

GiveUp(p) ==
  /\ At(p, "giveup")
  /\ TrySearchStatus(job[p].delivery, "no_rider_found")
  /\ Finish(p) /\ JobOnly

JobStep(p) ==
  \/ CreateRow(p) \/ CountOffers(p) \/ ResetStatus(p) \/ Search(p)
  \/ \E r \in Platform : Offer(p, r)
  \/ Insert(p) \/ OffersDone(p) \/ GiveUp(p)

-----------------------------------------------------------------------------
(* Declines, expiry, and the check for remaining offers that follows.      *)

ChecksOnly == UNCHANGED <<job, acceptor, unlocking, lock, faults>>

Decline(d, r) ==
  /\ ~Accepting(r, d)
  /\ RejectRequest(d, r)
  /\ recounts' = recounts \cup {<<d, r>>}
  /\ UNCHANGED closings /\ ChecksOnly

\* The worker finishes the checks of one pass before the next.
ExpireOffers(lapsed) ==
  /\ \A c \in recounts \cup closings : c[2] # ExpiryWorker
  /\ \A p \in lapsed : ~Accepting(p[2], p[1])
  /\ ExpirePendingRequests(lapsed)
  /\ recounts' = recounts \cup {<<p[1], ExpiryWorker>> : p \in lapsed}
  /\ UNCHANGED closings /\ ChecksOnly

Recount(c) ==
  /\ c \in recounts
  /\ recounts' = recounts \ {c}
  /\ closings' = IF NoOffers(c[1], "pending") /\ NoOffers(c[1], "accepted")
                   THEN closings \cup {c} ELSE closings
  /\ UNCHANGED storeVars /\ ChecksOnly

CloseSearch(c) ==
  /\ c \in closings
  /\ TrySearchStatus(c[1], "no_rider_found")
  /\ closings' = closings \ {c}
  /\ UNCHANGED recounts /\ ChecksOnly

-----------------------------------------------------------------------------
(* Accepting and withdrawing, with the lock in Redis.                      *)

AcceptOnly == UNCHANGED <<job, recounts, closings, unlocking>>

\* The accept transaction as far as its row locks; they are free, the offer is
\* pending.  All other answers change nothing.
AcceptBegin(d, r) ==
  /\ ProfileFree(r)
  /\ RowsFree(d)
  /\ request[d][r] = "pending"
  /\ acceptor' = [acceptor EXCEPT ![r] =
       [at |-> "locked", delivery |-> d, inTime |-> d \in Food => inWindow[d],
        holds |-> FALSE]]
  /\ UNCHANGED <<storeVars, lock, faults>> /\ AcceptOnly

Number(r) == OrderId[acceptor[r].delivery]

\* SETNX: the rider takes the lock, or is refused when any rider has it.
TakeLock(r) ==
  /\ acceptor[r].at = "locked"
  /\ IF lock[Number(r)] = NoRider
       THEN /\ lock' = [lock EXCEPT ![Number(r)] = r]
            /\ acceptor' = [acceptor EXCEPT ![r].at = "claiming", ![r].holds = TRUE]
       ELSE /\ acceptor' = [acceptor EXCEPT ![r] = NoAccept]
            /\ UNCHANGED lock
  /\ UNCHANGED <<storeVars, faults>> /\ AcceptOnly

AcceptCommit(r) ==
  /\ acceptor[r].at = "claiming"
  /\ acceptor[r].inTime
  /\ AcceptRequest(acceptor[r].delivery, r)
  /\ acceptor' = [acceptor EXCEPT ![r] = NoAccept]
  /\ UNCHANGED <<lock, faults>> /\ AcceptOnly

\* ReleaseOrderLock compares before it deletes.
Unlocked(n, r) == IF lock[n] = r THEN [lock EXCEPT ![n] = NoRider] ELSE lock

\* Mutant of AcceptFails: no deferred release.
AcceptFailsLocked(r) ==
  /\ acceptor[r].at = "claiming"
  /\ acceptor' = [acceptor EXCEPT ![r] = NoAccept]
  /\ UNCHANGED <<storeVars, lock, faults>> /\ AcceptOnly

\* ClaimFoodOrder refuses, or a statement fails: rolled back, and the deferred
\* function gives back the lock if this accept took it.
AcceptFails(r) ==
  /\ acceptor[r].at = "claiming"
  /\ lock' = IF acceptor[r].holds THEN Unlocked(Number(r), r) ELSE lock
  /\ acceptor' = [acceptor EXCEPT ![r] = NoAccept]
  /\ UNCHANGED <<storeVars, faults>> /\ AcceptOnly

\* WithdrawDelivery: the transaction, then the lock.
Withdraw(d, r) ==
  /\ RowsFree(d)
  /\ WithdrawFoodDelivery(d, r)
  /\ unlocking' = unlocking \cup {<<d, r>>}
  /\ UNCHANGED <<job, acceptor, recounts, closings, lock, faults>>

\* Mutant of ReleaseLock: withdrawing keeps the lock.
KeepLock(d, r) ==
  /\ <<d, r>> \in unlocking
  /\ unlocking' = unlocking \ {<<d, r>>}
  /\ UNCHANGED <<storeVars, job, acceptor, recounts, closings, lock, faults>>

ReleaseLock(d, r) ==
  /\ <<d, r>> \in unlocking
  /\ unlocking' = unlocking \ {<<d, r>>}
  /\ lock' = Unlocked(OrderId[d], r)
  /\ UNCHANGED <<storeVars, job, acceptor, recounts, closings, faults>>

-----------------------------------------------------------------------------
(* Faults.                                                                 *)

Fault == faults < MaxFaults /\ faults' = faults + 1

\* SETNX returns an error, before or after Redis has set the key: the accept
\* carries on without the lock, and will not release it.
LockErrs(r) ==
  /\ Fault
  /\ acceptor[r].at = "locked"
  /\ acceptor' = [acceptor EXCEPT ![r].at = "claiming"]
  /\ \/ UNCHANGED lock
     \/ lock[Number(r)] = NoRider /\ lock' = [lock EXCEPT ![Number(r)] = r]
  /\ UNCHANGED storeVars /\ AcceptOnly

\* The process stops and starts again: what it had in hand is gone, its open
\* transactions are rolled back, and what it had set in Redis stays.
Crash ==
  /\ Fault
  /\ job' = [p \in Jobs |-> NoJob]
  /\ acceptor' = [r \in Platform |-> NoAccept]
  /\ recounts' = {} /\ closings' = {} /\ unlocking' = {}
  /\ (offering = {} /\ UNCHANGED storeVars) \/ OffersRolledBack(offering)
  /\ UNCHANGED lock

\* Redis is flushed, or restarts empty.
RedisFlushed ==
  /\ Fault
  /\ \E n \in OrderIds : lock[n] # NoRider
  /\ lock' = [n \in OrderIds |-> NoRider]
  /\ UNCHANGED <<storeVars, job, acceptor, recounts, closings, unlocking>>

\* The 10 or 15 seconds a job has are over, or its search failed.
JobDropped(p) ==
  /\ Fault
  /\ ~At(p, "idle")
  /\ IF At(p, "search") /\ job[p].path = "event" THEN Goto(p, "giveup") ELSE Finish(p)
  /\ IF At(p, "insert") THEN OffersRolledBack({<<job[p].delivery, job[p].rider>>})
                        ELSE UNCHANGED storeVars
  /\ UNCHANGED <<acceptor, recounts, closings, unlocking, lock>>

-----------------------------------------------------------------------------
(* Steps of the tables that are no part of the search.                     *)

\* What writes to the rows of an accept waits for it.  Riders go online and
\* offline; for a search a pause is the same as being offline, and whether a
\* restaurant's rider is online makes no difference.
Elsewhere ==
  /\ \/ \E d \in Food :
          \/ WindowCloses(d)
          \/ RowsFree(d) /\ \E status \in OrderStatuses : KitchenMoves(d, status)
          \/ \E r \in OwnRiders :
               \/ RowsFree(d) /\ (KitchenAssignsOwnRider(d, r) \/ OwnOrderUpserted(d, r))
               \/ OwnOrderSelected(d, r) \/ OwnOrderDropped(d, r)
     \/ \E r \in Platform, online \in BOOLEAN : UpsertRiderAvailability(r, online, online)
     \/ SearchesSelected
     \/ SearchesExpired /\ \A d \in expiring : RowsFree(d)
  /\ UNCHANGED dispatchVars

DispatchNext ==
  \/ \E p \in Jobs : JobStep(p) \/ JobDropped(p) \/ \E d \in Deliveries : HandleEvent(p, d)
  \/ \E d \in Deliveries :
       \/ Redispatch(d)
       \/ \E r \in Platform : Decline(d, r) \/ AcceptBegin(d, r)
       \/ \E r \in Riders : Withdraw(d, r) \/ ReleaseLock(d, r)
  \/ \E lapsed \in SUBSET (Deliveries \X Platform) : ExpireOffers(lapsed)
  \/ \E c \in recounts : Recount(c)
  \/ \E c \in closings : CloseSearch(c)
  \/ \E r \in Platform : TakeLock(r) \/ AcceptCommit(r) \/ AcceptFails(r) \/ LockErrs(r)
  \/ Crash
  \/ RedisFlushed
  \/ Elsewhere

DispatchSpec == DispatchInit /\ [][DispatchNext]_vars

-----------------------------------------------------------------------------
(* Fairness: the sweeper's ticker comes back to every order; jobs, which    *)
(* have a deadline, and accept transactions run to an end; the checks after *)
(* a decline or an expiry and the release after a withdrawal are made, and  *)
(* so is the search expiry of each sweep, which queues for its row locks.   *)
(* Nothing is assumed of what starts by itself: events, riders, the kitchen *)
(* and the expiry of offers.                                                *)

SweeperRuns ==
  /\ \A d \in Deliveries : SF_vars(Redispatch(d)) /\ SF_vars(HandleEvent(Sweeper, d))
  /\ WF_vars(SearchesSelected /\ UNCHANGED dispatchVars)
  /\ SF_vars(SearchesExpired /\ (\A d \in expiring : RowsFree(d)) /\ UNCHANGED dispatchVars)

HandlersRun ==
  /\ \A p \in Jobs : WF_vars(JobStep(p))
  /\ \A r \in Platform : WF_vars(TakeLock(r)) /\ WF_vars(AcceptCommit(r) \/ AcceptFails(r))
  /\ \A d \in Deliveries, r \in Riders : WF_vars(ReleaseLock(d, r))
  /\ \A c \in Deliveries \X (Riders \cup {ExpiryWorker}) :
       WF_vars(Recount(c)) /\ SF_vars(CloseSearch(c))

FairDispatch == DispatchSpec /\ SweeperRuns /\ HandlersRun

-----------------------------------------------------------------------------
(* Properties.                                                             *)

\* The lock of an order is only ever held for a reason: by an accept that is
\* still open, by the rider who has an order of that number, or by one who
\* withdrew and is about to release it.  Until the first fault, that is.
LockFollowsTheRow ==
  faults = 0 =>
    \A n \in OrderIds, r \in Riders : lock[n] = r =>
      \/ r \in Platform /\ acceptor[r].at = "claiming" /\ acceptor[r].holds /\ Number(r) = n
      \/ \E d \in Deliveries :
           OrderId[d] = n /\ (HasOrder(d, r) \/ <<d, r>> \in unlocking)

\* PostgreSQL would take this accept as the tables now are.
WouldBeAccepted(d, r) ==
  /\ request[d][r] = "pending" /\ assignedRider[d] = NoRider
  /\ d \in Food => Claimable(d) /\ inWindow[d]
  /\ RiderEligible(d, r)

\* The lock is being given back, or is that of an accept which may still fail.
LockInUse(n) ==
  \/ \E u \in unlocking : OrderId[u[1]] = n
  \/ \E q \in Platform : acceptor[q].at = "claiming" /\ Number(q) = n

\* A rider the tables would take is not turned away by the lock, unless its
\* owner is just at work.
RefusedForAReason ==
  \A r \in Platform :
    /\ acceptor[r].at = "locked" /\ acceptor'[r].at = "idle" /\ faults' = faults
    /\ WouldBeAccepted(acceptor[r].delivery, r)
    => LockInUse(Number(r))

\* Redis only short-circuits what PostgreSQL would refuse: every refusal of an
\* accept by the lock is RefusedForAReason.
PostgresDecides == [][RefusedForAReason]_vars

\* An open food order that nobody is offered, though somebody qualifies.
Idle(d) ==
  /\ DispatchAllowed(d)
  /\ deliveryStatus[d] = "absent" \/ Unassigned(d)
  /\ NoOffers(d, "pending")
  /\ Qualified(d) # {}

\* No such order stays so for ever, whatever was declined, let lapse, withdrawn
\* or lost in a crash: its riders are asked again.
NoOrderStranded == \A d \in Food : []<>~(Idle(d) /\ ~restaurantOwned[d])

\* What a rider who withdraws is told, "searching for another rider", of any
\* delivery: the restaurant's own included.
WithdrawnIsSearched == \A d \in Food : []<>~Idle(d)

\* A search that has run out of time is shown to the customer as expired, or
\* somebody has the delivery, or the order is closed.
SearchEndIsShown ==
  \A d \in Food :
    []<>~(Claimable(d) /\ Unassigned(d) /\ ~inWindow[d] /\ orderView[d] # "dispatch_expired")
=============================================================================
