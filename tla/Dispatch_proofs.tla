--------------------------- MODULE Dispatch_proofs ---------------------------
(***************************************************************************)
(* Theorems about Dispatch: its processes only ever do what DeliveryStore  *)
(* allows, so what is proved of the tables holds of the whole search; and  *)
(* without faults the Redis lock follows the tables.                       *)
(***************************************************************************)
EXTENDS Dispatch, DeliveryStore_proofs

-----------------------------------------------------------------------------
(* The types of the processes.                                             *)

\* A job that is not idle is a record of all its fields, and moving to another
\* step keeps it one.
LEMMA RunningJob ==
  ASSUME ProcessTypeOK, NEW p \in Jobs, job[p].at # "idle"
  PROVE  /\ job[p] \in Running
         /\ \A step \in Steps : Goto(p, step) => job' \in [Jobs -> {NoJob} \cup Running]
         /\ Finish(p) => job' \in [Jobs -> {NoJob} \cup Running]
<1>1. job[p] \in Running
  BY DEF ProcessTypeOK, NoJob
<1>2. ASSUME NEW step \in Steps, Goto(p, step)
      PROVE  job' \in [Jobs -> {NoJob} \cup Running]
  <2>1. [job[p] EXCEPT !.at = step] \in Running
    BY <1>1 DEF Running
  <2>2. job' = [job EXCEPT ![p] = [job[p] EXCEPT !.at = step]]
    BY <1>2 DEF Goto, ProcessTypeOK
  <2> QED
    BY <2>1, <2>2 DEF ProcessTypeOK
<1>3. Finish(p) => job' \in [Jobs -> {NoJob} \cup Running]
  BY DEF Finish, ProcessTypeOK
<1> QED
  BY <1>1, <1>2, <1>3

\* An accept that is not idle is a record of all its fields.
LEMMA OpenAccept ==
  ASSUME ProcessTypeOK, NEW r \in Platform, acceptor[r].at # "idle"
  PROVE  acceptor[r] \in Open
BY DEF ProcessTypeOK, NoAccept

\* A step of a job leaves it well typed.
LEMMA JobTypes ==
  ASSUME ProcessTypeOK, NEW p \in Jobs, JobStep(p)
  PROVE  job' \in [Jobs -> {NoJob} \cup Running]
<1> USE DEF Steps
<1>1. ASSUME At(p, "idle") PROVE FALSE
  BY <1>1 DEF JobStep, CreateRow, CountOffers, ResetStatus, Search, Offer, Insert,
              OffersDone, GiveUp, At
<1>2. job[p] \in Running /\ \A step \in Steps : Goto(p, step) =>
        job' \in [Jobs -> {NoJob} \cup Running]
  BY <1>1, RunningJob DEF At
<1>3. Finish(p) => job' \in [Jobs -> {NoJob} \cup Running]
  BY <1>1, RunningJob DEF At
<1>4. CASE CreateRow(p) \/ CountOffers(p) \/ ResetStatus(p) \/ OffersDone(p) \/ GiveUp(p)
  BY <1>2, <1>3, <1>4 DEF CreateRow, CountOffers, ResetStatus, OffersDone, GiveUp
<1>5. CASE Search(p)
  <2>1. PICK found \in OfferableRiders(job[p].delivery) :
          \/ job' = [job EXCEPT
               ![p] = [job[p] EXCEPT !.riders = found,
                                     !.at = IF job[p].path = "event" THEN "offer" ELSE "reset"]]
          \/ Goto(p, "giveup")
          \/ Finish(p)
    BY <1>5 DEF Search
  <2>2. found \in SUBSET Platform
    BY DEF OfferableRiders, Qualified
  <2>3. [job[p] EXCEPT !.riders = found,
                       !.at = IF job[p].path = "event" THEN "offer" ELSE "reset"] \in Running
    BY <1>2, <2>2 DEF Running
  <2> QED
    BY <1>2, <1>3, <2>1, <2>3 DEF ProcessTypeOK
<1>6. ASSUME NEW r \in Platform, Offer(p, r)
      PROVE  job' \in [Jobs -> {NoJob} \cup Running]
  <2>1. [job[p] EXCEPT !.riders = job[p].riders \ {r},
                       !.rider = IF Unassigned(job[p].delivery) THEN r ELSE NoRider,
                       !.at = IF Unassigned(job[p].delivery) THEN "insert" ELSE "offer"]
          \in Running
    BY <1>2 DEF Running
  <2> QED
    BY <1>6, <2>1 DEF Offer, ProcessTypeOK
<1>7. CASE Insert(p)
  <2>1. [job[p] EXCEPT !.at = "offer", !.rider = NoRider,
                    !.sent = job[p].sent \/ request' # request]
          \in Running
    BY <1>2 DEF Running
  <2> QED
    BY <1>7, <2>1 DEF Insert, ProcessTypeOK
<1> QED
  BY <1>4, <1>5, <1>6, <1>7 DEF JobStep

\* Every step keeps the processes well typed.
LEMMA ProcessTypes ==
  ASSUME ProcessTypeOK, [DispatchNext]_vars
  PROVE  ProcessTypeOK'
<1> USE DEF ProcessTypeOK
<1>1. ASSUME NEW p \in Jobs, JobStep(p)
      PROVE  ProcessTypeOK'
  <2>1. JobOnly
    BY <1>1 DEF JobStep, CreateRow, CountOffers, ResetStatus, Search, Offer, Insert,
                OffersDone, GiveUp
  <2> QED
    BY <1>1, <2>1, JobTypes DEF JobOnly
<1>2. ASSUME NEW p \in Jobs, JobDropped(p)
      PROVE  ProcessTypeOK'
  <2>1. job' \in [Jobs -> {NoJob} \cup Running]
    BY <1>2, RunningJob DEF JobDropped, At, Steps
  <2>2. faults' \in 0..MaxFaults
    BY <1>2, DispatchAssumption DEF JobDropped, Fault
  <2> QED
    BY <1>2, <2>1, <2>2 DEF JobDropped
<1>3. ASSUME NEW p \in Jobs, NEW d \in Deliveries, HandleEvent(p, d)
      PROVE  ProcessTypeOK'
  <2>1. [at |-> IF deliveryStatus[d] = "absent" THEN "create" ELSE "count", path |-> "event",
         delivery |-> d, riders |-> {}, rider |-> NoRider, sent |-> FALSE] \in Running
    BY DEF Running, Steps
  <2> QED
    BY <1>3, <2>1 DEF HandleEvent, JobOnly
<1>4. ASSUME NEW d \in Deliveries, Redispatch(d)
      PROVE  ProcessTypeOK'
  <2>1. [at |-> "count", path |-> "sweep",
         delivery |-> d, riders |-> {}, rider |-> NoRider, sent |-> FALSE] \in Running
    BY DEF Running, Steps
  <2> QED
    BY <1>4, <2>1 DEF Redispatch, JobOnly
<1>5. ASSUME NEW d \in Deliveries, NEW r \in Platform, Decline(d, r)
      PROVE  ProcessTypeOK'
  BY <1>5 DEF Decline, ChecksOnly, Platform
<1>6. ASSUME NEW d \in Deliveries, NEW r \in Platform, AcceptBegin(d, r)
      PROVE  ProcessTypeOK'
  <2>1. [at |-> "locked", delivery |-> d, inTime |-> d \in Food => inWindow[d],
         holds |-> FALSE] \in Open
    BY <1>6 DEF Open
  <2> QED
    BY <1>6, <2>1 DEF AcceptBegin, AcceptOnly
<1>7. ASSUME NEW d \in Deliveries, NEW r \in Riders, Withdraw(d, r)
      PROVE  ProcessTypeOK'
  BY <1>7 DEF Withdraw
<1>8. ASSUME NEW d \in Deliveries, NEW r \in Riders, ReleaseLock(d, r)
      PROVE  ProcessTypeOK'
  BY <1>8 DEF ReleaseLock, Unlocked
<1>9. ASSUME NEW lapsed \in SUBSET (Deliveries \X Platform), ExpireOffers(lapsed)
      PROVE  ProcessTypeOK'
  BY <1>9 DEF ExpireOffers, ChecksOnly
<1>10. ASSUME NEW c \in recounts, Recount(c)
       PROVE  ProcessTypeOK'
  BY <1>10 DEF Recount, ChecksOnly
<1>11. ASSUME NEW c \in closings, CloseSearch(c)
       PROVE  ProcessTypeOK'
  BY <1>11 DEF CloseSearch, ChecksOnly
<1>12. ASSUME NEW r \in Platform, TakeLock(r)
       PROVE  ProcessTypeOK'
  <2>1. acceptor[r] \in Open
    BY <1>12, OpenAccept DEF TakeLock
  <2>2. [acceptor[r] EXCEPT !.at = "claiming", !.holds = TRUE] \in Open
    BY <2>1 DEF Open
  <2>3. CASE lock[Number(r)] = NoRider
    BY <1>12, <2>2, <2>3 DEF TakeLock, AcceptOnly
  <2>4. CASE lock[Number(r)] # NoRider
    BY <1>12, <2>4 DEF TakeLock, AcceptOnly
  <2> QED
    BY <2>3, <2>4
<1>13. ASSUME NEW r \in Platform, AcceptCommit(r) \/ AcceptFails(r)
       PROVE  ProcessTypeOK'
  BY <1>13 DEF AcceptCommit, AcceptFails, AcceptOnly, Unlocked
<1>14. ASSUME NEW r \in Platform, LockErrs(r)
       PROVE  ProcessTypeOK'
  <2>1. acceptor[r] \in Open
    BY <1>14, OpenAccept DEF LockErrs
  <2>2. [acceptor[r] EXCEPT !.at = "claiming"] \in Open
    BY <2>1 DEF Open
  <2>3. faults' \in 0..MaxFaults
    BY <1>14, DispatchAssumption DEF LockErrs, Fault
  <2> QED
    BY <1>14, <2>2, <2>3 DEF LockErrs, AcceptOnly
<1>15. ASSUME Crash \/ RedisFlushed
       PROVE  ProcessTypeOK'
  <2>1. faults' \in 0..MaxFaults
    BY <1>15, DispatchAssumption DEF Crash, RedisFlushed, Fault
  <2> QED
    BY <1>15, <2>1 DEF Crash, RedisFlushed
<1>16. CASE Elsewhere \/ UNCHANGED vars
  BY <1>16 DEF Elsewhere, vars, dispatchVars
<1> QED
  BY <1>1, <1>2, <1>3, <1>4, <1>5, <1>6, <1>7, <1>8, <1>9, <1>10, <1>11, <1>12, <1>13,
     <1>14, <1>15, <1>16 DEF DispatchNext

-----------------------------------------------------------------------------
(* The tables under Dispatch are those of DeliveryStore.                   *)

\* What a job does to the tables is a step of DeliveryStore.
LEMMA JobStoreStep ==
  ASSUME DispatchTypeOK, NEW p \in Jobs, JobStep(p)
  PROVE  [StoreNext]_storeVars
<1>1. ~At(p, "idle")
  BY DEF JobStep, CreateRow, CountOffers, ResetStatus, Search, Offer, Insert,
         OffersDone, GiveUp, At
<1>2. job[p].delivery \in Deliveries
  BY <1>1, RunningJob DEF At, Running, DispatchTypeOK
<1>3. CASE CreateRow(p)
  BY <1>2, <1>3 DEF CreateRow, StoreNext, DispatchStep
<1>4. CASE ResetStatus(p) \/ GiveUp(p)
  BY <1>2, <1>4 DEF ResetStatus, GiveUp, TrySearchStatus, Searching, StoreNext, DispatchStep
<1>5. CASE CountOffers(p) \/ Search(p) \/ OffersDone(p)
  BY <1>5 DEF CountOffers, Search, OffersDone
<1>6. ASSUME NEW r \in Platform, Offer(p, r)
      PROVE  [StoreNext]_storeVars
  BY <1>2, <1>6 DEF Offer, Platform, StoreNext, DispatchStep
<1>7. CASE Insert(p)
  <2>1. job[p].rider \in Riders
    BY <1>7 DEF Insert, OfferInserted, DispatchTypeOK, TypeOK, Platform
  <2> QED
    BY <1>2, <1>7, <2>1 DEF Insert, StoreNext, DispatchStep
<1> QED
  BY <1>3, <1>4, <1>5, <1>6, <1>7 DEF JobStep

\* So is what any other process does, and what a fault does.
LEMMA StoreStep ==
  ASSUME DispatchTypeOK, [DispatchNext]_vars
  PROVE  [StoreNext]_storeVars
<1>1. ASSUME NEW p \in Jobs, JobDropped(p)
      PROVE  [StoreNext]_storeVars
  BY <1>1 DEF JobDropped, OffersRolledBack, StoreNext, DispatchStep
<1>2. ASSUME NEW d \in Deliveries, Redispatch(d) \/ \E p \in Jobs : HandleEvent(p, d)
      PROVE  [StoreNext]_storeVars
  BY <1>2 DEF HandleEvent, Redispatch
<1>3. ASSUME NEW d \in Deliveries, NEW r \in Platform, Decline(d, r) \/ AcceptBegin(d, r)
      PROVE  [StoreNext]_storeVars
  BY <1>3 DEF Decline, AcceptBegin, Platform, StoreNext, DispatchStep
<1>4. ASSUME NEW d \in Deliveries, NEW r \in Riders, Withdraw(d, r) \/ ReleaseLock(d, r)
      PROVE  [StoreNext]_storeVars
  BY <1>4 DEF Withdraw, ReleaseLock, StoreNext, DispatchStep
<1>5. ASSUME NEW lapsed \in SUBSET (Deliveries \X Platform), ExpireOffers(lapsed)
      PROVE  [StoreNext]_storeVars
  <2>1. lapsed \in SUBSET (Deliveries \X Riders)
    BY DEF Platform
  <2> QED
    BY <1>5, <2>1 DEF ExpireOffers, StoreNext, DispatchStep
<1>6. ASSUME NEW c \in recounts, Recount(c)
      PROVE  [StoreNext]_storeVars
  BY <1>6 DEF Recount
<1>7. ASSUME NEW c \in closings, CloseSearch(c)
      PROVE  [StoreNext]_storeVars
  <2>1. c[1] \in Deliveries
    BY DEF DispatchTypeOK, ProcessTypeOK
  <2> QED
    BY <1>7, <2>1 DEF CloseSearch, TrySearchStatus, Searching, StoreNext, DispatchStep
<1>8. ASSUME NEW r \in Platform, TakeLock(r) \/ AcceptFails(r) \/ LockErrs(r)
      PROVE  [StoreNext]_storeVars
  BY <1>8 DEF TakeLock, AcceptFails, LockErrs
<1>9. ASSUME NEW r \in Platform, AcceptCommit(r)
      PROVE  [StoreNext]_storeVars
  <2>1. acceptor[r].delivery \in Deliveries
    BY <1>9, OpenAccept DEF AcceptCommit, Open, DispatchTypeOK
  <2> QED
    BY <1>9, <2>1 DEF AcceptCommit, Platform, StoreNext, DispatchStep
<1>10. CASE Crash \/ RedisFlushed
  BY <1>10 DEF Crash, RedisFlushed, StoreNext, DispatchStep
<1>11. CASE Elsewhere
  <2>1. ASSUME NEW d \in Food, WindowCloses(d)
        PROVE  [StoreNext]_storeVars
    BY <2>1 DEF StoreNext, Kitchen
  <2>2. ASSUME NEW d \in Food, NEW status \in OrderStatuses, KitchenMoves(d, status)
        PROVE  [StoreNext]_storeVars
    BY <2>2 DEF StoreNext, Kitchen
  <2>3. ASSUME NEW d \in Food, NEW r \in OwnRiders,
               KitchenAssignsOwnRider(d, r) \/ UpsertRestaurantOwnedOrder(d, r)
        PROVE  [StoreNext]_storeVars
    BY <2>3, StoreAssumption DEF StoreAssumption, Food, StoreNext, Kitchen, LifecycleStep
  <2>4. ASSUME NEW r \in Platform, NEW online \in BOOLEAN,
               UpsertRiderAvailability(r, online, online)
        PROVE  [StoreNext]_storeVars
    BY <2>4 DEF StoreNext, LifecycleStep, Platform
  <2>5. ASSUME SearchesSelected \/ SearchesExpired
        PROVE  [StoreNext]_storeVars
    BY <2>5 DEF StoreNext, DispatchStep
  <2> QED
    BY <1>11, <2>1, <2>2, <2>3, <2>4, <2>5 DEF Elsewhere, UpsertRestaurantOwnedOrder
<1>12. CASE UNCHANGED vars
  BY <1>12 DEF vars
<1>13. ASSUME NEW p \in Jobs, JobStep(p)
       PROVE  [StoreNext]_storeVars
  BY <1>13, JobStoreStep
<1> QED
  BY <1>1, <1>2, <1>3, <1>4, <1>5, <1>6, <1>7, <1>8, <1>9, <1>10, <1>11, <1>12, <1>13
  DEF DispatchNext

\* Tables and processes stay well typed, whatever fails.
THEOREM DispatchTyping == DispatchSpec => []DispatchTypeOK
<1>1. DispatchInit => DispatchTypeOK
  <2>1. DispatchInit => TypeOK
    BY DEF DispatchInit, StoreInit, TypeOK, OrderStatuses, DeliveryStatuses,
           RequestStatuses, Food, Platform
  <2>2. DispatchInit => ProcessTypeOK
    BY DispatchAssumption DEF DispatchInit, ProcessTypeOK, Platform
  <2> QED
    BY <2>1, <2>2 DEF DispatchTypeOK
<1>2. DispatchTypeOK /\ [DispatchNext]_vars => DispatchTypeOK'
  <2> SUFFICES ASSUME DispatchTypeOK, [DispatchNext]_vars
               PROVE  DispatchTypeOK'
    OBVIOUS
  <2>1. ProcessTypeOK'
    BY ProcessTypes DEF DispatchTypeOK
  <2>2. TypeOK'
    BY StoreStep, StoreTypes DEF DispatchTypeOK
  <2> QED
    BY <2>1, <2>2 DEF DispatchTypeOK
<1> QED
  BY <1>1, <1>2, PTL DEF DispatchSpec

\* The processes of the search, crashes and lost locks included, do nothing to
\* the tables that DeliveryStore does not allow: what holds of all its runs
\* holds of theirs.
THEOREM Implements == DispatchSpec => StoreSpec
<1>1. DispatchInit => StoreInit
  BY DEF DispatchInit
<1>2. DispatchTypeOK /\ [DispatchNext]_vars => [StoreNext]_storeVars
  BY StoreStep
<1> QED
  BY <1>1, <1>2, DispatchTyping, PTL DEF DispatchSpec, StoreSpec

\* Whatever interleaving of searches, accepts, withdrawals, expiries, crashes
\* and lost locks: the row names no platform rider but the order's, and that one
\* unless a late upsert put the restaurant's there; the accepted offer is that of
\* the platform rider on the order, and the customer reads the status of the
\* delivery of the one on the row.
THEOREM SearchAgrees ==
  DispatchSpec => [](/\ OneRiderOnBothRows
                     /\ AcceptedOfferIsTheHolder
                     /\ CustomerSeesTheDelivery)
BY Implements, RidersAgree, PTL

-----------------------------------------------------------------------------
(* Until a fault, the Redis lock follows the tables.                       *)

\* Who may have the lock of number n: what LockFollowsTheRow says of one pair.
ByAccept(n, r) ==
  r \in Platform /\ acceptor[r].at = "claiming" /\ acceptor[r].holds /\ Number(r) = n

ByRow(n, r) ==
  \E d \in Deliveries :
    OrderId[d] = n /\ (HasOrder(d, r) \/ <<d, r>> \in unlocking)

LockedFor == \A n \in OrderIds, r \in Riders : lock[n] = r => ByAccept(n, r) \/ ByRow(n, r)

\* A step that touches neither locks nor accepts nor rider columns.
LEMMA LockUntouched ==
  ASSUME LockedFor, UNCHANGED <<acceptor, unlocking, lock, assignedRider, orderRider>>
  PROVE  LockedFor'
BY DEF LockedFor, ByAccept, ByRow, Number, HasOrder

\* The steps of an accept: the rider who takes the lock is claiming, the one
\* who commits has the row, the one who fails has given the lock back.
LEMMA AcceptKeepsLock ==
  ASSUME DispatchTypeOK, LockedFor, NEW r \in Platform,
         TakeLock(r) \/ AcceptCommit(r) \/ AcceptFails(r)
  PROVE  LockedFor'
<1> USE DEF DispatchTypeOK, ProcessTypeOK
<1>1. acceptor[r] \in Open
  BY OpenAccept DEF TakeLock, AcceptCommit, AcceptFails
<1>2. Number(r) \in OrderIds /\ r \in Riders /\ r # NoRider
  BY <1>1, StoreAssumption DEF Open, Number, StoreAssumption, Platform
<1>3. ASSUME NEW n \in OrderIds, NEW q \in Riders, q # r, ByAccept(n, q)
      PROVE  ByAccept(n, q)'
  <2>1. acceptor'[q] = acceptor[q]
    BY <1>3 DEF TakeLock, AcceptCommit, AcceptFails, ByAccept
  <2> QED
    BY <1>3, <2>1 DEF ByAccept, Number
<1>4. CASE TakeLock(r)
  <2>1. ASSUME NEW n \in OrderIds, NEW q \in Riders, ByRow(n, q)
        PROVE  ByRow(n, q)'
    BY <1>4, <2>1
    DEF TakeLock, AcceptOnly, storeVars, orderVars, deliveryVars, ByRow, HasOrder
  <2>3. CASE lock[Number(r)] = NoRider
    <3>1. /\ lock' = [lock EXCEPT ![Number(r)] = r]
          /\ acceptor' = [acceptor EXCEPT ![r].at = "claiming", ![r].holds = TRUE]
      BY <1>4, <2>3 DEF TakeLock
    <3>2. ASSUME NEW n \in OrderIds, n = Number(r)
          PROVE  ByAccept(n, r)'
      BY <3>1, <3>2, <1>1 DEF ByAccept, Number, Open
    <3>3. ASSUME NEW n \in OrderIds, NEW q \in Riders, lock'[n] = q
          PROVE  (n = Number(r) /\ q = r) \/ lock[n] = q
      BY <3>1, <3>3
    <3>4. ASSUME NEW n \in OrderIds, NEW q \in Riders, ByAccept(n, q)
          PROVE  q # r
      BY <1>4, <3>4 DEF TakeLock, ByAccept
    <3> QED
      BY <1>3, <2>1, <3>2, <3>3, <3>4 DEF LockedFor
  <2>4. CASE lock[Number(r)] # NoRider
    BY <1>3, <1>4, <2>1, <2>4 DEF LockedFor, ByAccept, TakeLock
  <2> QED
    BY <2>3, <2>4
<1>5. CASE AcceptCommit(r)
  <2>1. ASSUME NEW n \in OrderIds, NEW q \in Riders, ByRow(n, q)
        PROVE  ByRow(n, q)'
    <3>1. PICK d \in Deliveries :
            OrderId[d] = n /\ (HasOrder(d, q) \/ <<d, q>> \in unlocking)
      BY <2>1 DEF ByRow
    <3>2. HasOrder(d, q) => HasOrder(d, q)'
      <4>1. AcceptRequest(acceptor[r].delivery, r) /\ q # NoRider
        BY <1>5, StoreAssumption DEF AcceptCommit, StoreAssumption
      <4>2. CASE d = acceptor[r].delivery
        BY <4>1, <4>2 DEF AcceptRequest, Claimable, HasOrder
      <4>3. CASE d # acceptor[r].delivery
        BY <4>1, <4>3 DEF AcceptRequest, TypeOK, HasOrder
      <4> QED BY <4>2, <4>3
    <3>3. unlocking' = unlocking
      BY <1>5 DEF AcceptCommit, AcceptOnly
    <3> QED
      BY <3>1, <3>2, <3>3 DEF ByRow
  <2>2. ASSUME NEW n \in OrderIds, n = Number(r)
        PROVE  ByRow(n, r)'
    <3>1. PICK d \in Deliveries : d = acceptor[r].delivery
      BY <1>1 DEF Open
    <3>2. AcceptRequest(d, r) /\ OrderId[d] = n
      BY <1>5, <2>2, <3>1 DEF AcceptCommit, Number
    <3>3. HasOrder(d, r)'
      BY <3>2 DEF AcceptRequest, TypeOK, HasOrder
    <3> QED
      BY <3>2, <3>3 DEF ByRow
  <2>3. lock' = lock
    BY <1>5 DEF AcceptCommit
  <2> QED
    BY <1>3, <2>1, <2>2, <2>3 DEF LockedFor, ByAccept
<1>6. CASE AcceptFails(r)
  <2>1. ASSUME NEW n \in OrderIds, NEW q \in Riders, ByRow(n, q)
        PROVE  ByRow(n, q)'
    BY <1>6, <2>1
    DEF AcceptFails, AcceptOnly, storeVars, orderVars, deliveryVars, ByRow, HasOrder
  <2>2. ASSUME NEW n \in OrderIds, NEW q \in Riders, lock'[n] = q
        PROVE  lock[n] = q /\ ~(q = r /\ ByAccept(n, r))
    <3>1. CASE acceptor[r].holds /\ lock[Number(r)] = r
      <4>1. lock' = [lock EXCEPT ![Number(r)] = NoRider]
        BY <1>6, <3>1 DEF AcceptFails, Unlocked
      <4> QED
        BY <2>2, <4>1, <1>2, StoreAssumption DEF ByAccept, StoreAssumption
    <3>2. CASE ~(acceptor[r].holds /\ lock[Number(r)] = r)
      <4>1. lock' = lock
        BY <1>6, <3>2 DEF AcceptFails, Unlocked
      <4> QED
        BY <2>2, <3>2, <4>1 DEF ByAccept
    <3> QED
      BY <3>1, <3>2
  <2> QED
    BY <1>3, <2>1, <2>2 DEF LockedFor
<1> QED
  BY <1>4, <1>5, <1>6

\* Withdrawing leaves the lock to be released, and releasing it ends that.
LEMMA WithdrawKeepsLock ==
  ASSUME DispatchTypeOK, LockedFor, NEW d \in Deliveries, NEW r \in Riders,
         Withdraw(d, r) \/ ReleaseLock(d, r)
  PROVE  LockedFor'
<1> USE DEF DispatchTypeOK, ProcessTypeOK
<1>1. ASSUME NEW n \in OrderIds, NEW q \in Riders
      PROVE  ByAccept(n, q)' <=> ByAccept(n, q)
  BY DEF Withdraw, ReleaseLock, ByAccept, Number
<1>2. CASE Withdraw(d, r)
  <2>1. /\ d \in Food /\ orderRider[d] = r
        /\ orderRider' = [orderRider EXCEPT ![d] = NoRider]
        /\ assignedRider' = [assignedRider EXCEPT ![d] = NoRider]
        /\ unlocking' = unlocking \cup {<<d, r>>}
        /\ lock' = lock
    BY <1>2 DEF Withdraw, WithdrawFoodDelivery
  <2>2. ASSUME NEW n \in OrderIds, NEW q \in Riders, ByRow(n, q)
        PROVE  ByRow(n, q)'
    BY <2>1, <2>2 DEF ByRow, TypeOK, HasOrder
  <2> QED
    BY <1>1, <2>1, <2>2 DEF LockedFor
<1>3. CASE ReleaseLock(d, r)
  <2>1. /\ unlocking' = unlocking \ {<<d, r>>}
        /\ UNCHANGED <<assignedRider, orderRider>>
    BY <1>3 DEF ReleaseLock, storeVars, orderVars, deliveryVars
  <2>2. ASSUME NEW n \in OrderIds, NEW q \in Riders, lock'[n] = q
        PROVE  lock[n] = q /\ ~(n = OrderId[d] /\ q = r)
    <3>1. CASE lock[OrderId[d]] = r
      <4>1. lock' = [lock EXCEPT ![OrderId[d]] = NoRider]
        BY <1>3, <3>1 DEF ReleaseLock, Unlocked
      <4> QED
        BY <2>2, <4>1, StoreAssumption DEF StoreAssumption
    <3>2. CASE lock[OrderId[d]] # r
      BY <1>3, <2>2, <3>2 DEF ReleaseLock, Unlocked
    <3> QED
      BY <3>1, <3>2
  <2>3. ASSUME NEW n \in OrderIds, NEW q \in Riders, ByRow(n, q),
               ~(n = OrderId[d] /\ q = r)
        PROVE  ByRow(n, q)'
    BY <2>1, <2>3 DEF ByRow, HasOrder
  <2> QED
    BY <1>1, <2>2, <2>3 DEF LockedFor
<1> QED
  BY <1>2, <1>3

\* The kitchen puts its rider on no order of a rider who has a lock, who is a
\* platform rider; and an upsert, even one that takes a delivery row from such a
\* rider, leaves the order with him.
LEMMA ElsewhereKeepsLock ==
  ASSUME DispatchTypeOK, LockedFor, Elsewhere
  PROVE  LockedFor'
<1>1. UNCHANGED <<acceptor, unlocking, lock>>
  BY DEF Elsewhere, dispatchVars
<1>2. ASSUME NEW e \in Deliveries, NEW q \in Platform, HasOrder(e, q)
      PROVE  HasOrder(e, q)'
  <2> USE DEF HasOrder, DispatchTypeOK, TypeOK, storeVars, orderVars, deliveryVars
  <2>1. ASSUME NEW d \in Food,
               \/ WindowCloses(d)
               \/ \E status \in OrderStatuses : KitchenMoves(d, status)
               \/ \E r \in OwnRiders : OwnOrderSelected(d, r) \/ OwnOrderDropped(d, r)
        PROVE  HasOrder(e, q)'
    BY <1>2, <2>1 DEF WindowCloses, KitchenMoves, OwnOrderSelected, OwnOrderDropped
  <2>2. ASSUME NEW d \in Food, NEW r \in OwnRiders, KitchenAssignsOwnRider(d, r)
        PROVE  HasOrder(e, q)'
    <3>1. orderRider[d] \notin Platform
      BY <2>2, StoreAssumption DEF KitchenAssignsOwnRider, Platform, StoreAssumption
    <3> QED
      BY <1>2, <2>2, <3>1 DEF KitchenAssignsOwnRider
  <2>3. ASSUME NEW d \in Food, NEW r \in OwnRiders, OwnOrderUpserted(d, r)
        PROVE  HasOrder(e, q)'
    BY <1>2, <2>3 DEF OwnOrderUpserted
  <2>4. ASSUME NEW r \in Platform, NEW online \in BOOLEAN,
               UpsertRiderAvailability(r, online, online)
        PROVE  HasOrder(e, q)'
    BY <1>2, <2>4 DEF UpsertRiderAvailability
  <2>5. ASSUME SearchesSelected \/ SearchesExpired
        PROVE  HasOrder(e, q)'
    BY <1>2, <2>5 DEF SearchesSelected, SearchesExpired
  <2> QED
    BY <2>1, <2>2, <2>3, <2>4, <2>5 DEF Elsewhere
<1>3. ASSUME NEW n \in OrderIds, NEW q \in Riders, lock[n] = q, ByRow(n, q)
      PROVE  ByRow(n, q)'
  <2>1. q \in Platform
    BY <1>3, StoreAssumption DEF DispatchTypeOK, ProcessTypeOK, StoreAssumption
  <2> QED
    BY <1>1, <1>2, <1>3, <2>1 DEF ByRow
<1> QED
  BY <1>1, <1>3 DEF LockedFor, ByAccept, Number

\* A step of a job touches no lock.
LEMMA JobKeepsLock ==
  ASSUME NEW p \in Jobs, JobStep(p)
  PROVE  UNCHANGED <<acceptor, unlocking, lock, assignedRider, orderRider>>
<1> USE DEF JobOnly, storeVars, orderVars, deliveryVars, TrySearchStatus, SetSearchStatus
<1>1. CASE CreateRow(p)
  BY <1>1 DEF CreateRow, CreateDeliveryOrder
<1>2. CASE CountOffers(p) \/ ResetStatus(p) \/ Search(p) \/ OffersDone(p) \/ GiveUp(p)
  BY <1>2 DEF CountOffers, ResetStatus, Search, OffersDone, GiveUp
<1>3. ASSUME NEW r \in Platform, Offer(p, r)
      PROVE  UNCHANGED <<acceptor, unlocking, lock, assignedRider, orderRider>>
  BY <1>3 DEF Offer, OfferSelected
<1>4. CASE Insert(p)
  BY <1>4 DEF Insert, OfferInserted
<1> QED
  BY <1>1, <1>2, <1>3, <1>4 DEF JobStep

\* Only a fault is counted as one.
LEMMA FaultsCount ==
  ASSUME DispatchTypeOK, [DispatchNext]_vars, ~Fault
  PROVE  faults' = faults
<1> USE DEF JobOnly, ChecksOnly, AcceptOnly
<1>1. ASSUME NEW p \in Jobs,
             \/ JobStep(p)
             \/ JobDropped(p)
             \/ \E d \in Deliveries : HandleEvent(p, d)
      PROVE  faults' = faults
  BY <1>1 DEF JobStep, CreateRow, CountOffers, ResetStatus, Search, Offer, OffersDone, Insert,
              GiveUp, JobDropped, HandleEvent
<1>2. ASSUME NEW d \in Deliveries,
             \/ Redispatch(d)
             \/ \E q \in Platform : Decline(d, q) \/ AcceptBegin(d, q)
             \/ \E q \in Riders : Withdraw(d, q) \/ ReleaseLock(d, q)
      PROVE  faults' = faults
  BY <1>2 DEF Redispatch, Decline, AcceptBegin, Withdraw, ReleaseLock
<1>3. ASSUME NEW c, ExpireOffers(c) \/ Recount(c) \/ CloseSearch(c)
      PROVE  faults' = faults
  BY <1>3 DEF ExpireOffers, Recount, CloseSearch
<1>4. ASSUME NEW q \in Platform,
             TakeLock(q) \/ AcceptCommit(q) \/ AcceptFails(q) \/ LockErrs(q)
      PROVE  faults' = faults
  BY <1>4 DEF TakeLock, AcceptCommit, AcceptFails, LockErrs
<1>5. CASE Crash \/ RedisFlushed
  BY <1>5 DEF Crash, RedisFlushed
<1>6. CASE Elsewhere \/ UNCHANGED vars
  BY <1>6 DEF Elsewhere, dispatchVars, vars
<1> QED
  BY <1>1, <1>2, <1>3, <1>4, <1>5, <1>6 DEF DispatchNext

\* A lock outlives neither the accept that failed nor the rider's time with the
\* order, so nobody is refused an order for a lock that was left behind: in
\* every run up to its first crash or error of Redis.
THEOREM LockSafe == DispatchSpec => []LockFollowsTheRow
<1>1. DispatchInit => LockedFor
  BY StoreAssumption DEF DispatchInit, LockedFor, StoreAssumption
<1>2. DispatchTypeOK /\ (faults = 0 => LockedFor) /\ [DispatchNext]_vars
        => (faults = 0 => LockedFor)'
  <2> SUFFICES ASSUME DispatchTypeOK, faults = 0 => LockedFor,
                      [DispatchNext]_vars, faults' = 0
               PROVE  LockedFor'
    OBVIOUS
  <2> USE DEF storeVars, orderVars, deliveryVars
  <2>1. ~Fault
    BY DEF Fault, DispatchTypeOK, ProcessTypeOK
  <2> faults = 0 /\ LockedFor
    BY <2>1, FaultsCount
  <2>2. ASSUME NEW p \in Jobs,
               \/ JobStep(p)
               \/ JobDropped(p)
               \/ \E d \in Deliveries : HandleEvent(p, d)
        PROVE  LockedFor'
    BY <2>1, <2>2, JobKeepsLock, LockUntouched DEF JobDropped, HandleEvent, JobOnly
  <2>3. ASSUME NEW d \in Deliveries, Redispatch(d)
        PROVE  LockedFor'
    BY <2>3, LockUntouched DEF Redispatch, JobOnly
  <2>4. ASSUME NEW d \in Deliveries, NEW r \in Platform, Decline(d, r)
        PROVE  LockedFor'
    BY <2>4, LockUntouched DEF Decline, ChecksOnly, RejectRequest
  <2>5. ASSUME NEW d \in Deliveries, NEW r \in Platform, AcceptBegin(d, r)
        PROVE  LockedFor'
    <3>1. /\ acceptor[r].at = "idle"
          /\ \A q \in Platform : q # r => acceptor'[q] = acceptor[q]
          /\ UNCHANGED <<lock, unlocking, assignedRider, orderRider>>
      BY <2>5 DEF AcceptBegin, AcceptOnly, ProfileFree, DispatchTypeOK, ProcessTypeOK
    <3> QED
      BY <3>1 DEF LockedFor, ByAccept, ByRow, Number, HasOrder
  <2>6. ASSUME NEW r \in Platform,
               TakeLock(r) \/ AcceptCommit(r) \/ AcceptFails(r) \/ LockErrs(r)
        PROVE  LockedFor'
    BY <2>1, <2>6, AcceptKeepsLock DEF LockErrs
  <2>7. ASSUME NEW lapsed \in SUBSET (Deliveries \X Platform), ExpireOffers(lapsed)
        PROVE  LockedFor'
    BY <2>7, LockUntouched DEF ExpireOffers, ChecksOnly, ExpirePendingRequests
  <2>8. ASSUME NEW c, Recount(c) \/ CloseSearch(c)
        PROVE  LockedFor'
    BY <2>8, LockUntouched DEF Recount, CloseSearch, ChecksOnly, TrySearchStatus,
                               SetSearchStatus
  <2>9. CASE Elsewhere
    BY <2>9, ElsewhereKeepsLock
  <2>10. CASE UNCHANGED vars
    BY <2>10, LockUntouched DEF vars, dispatchVars
  <2>11. CASE Crash \/ RedisFlushed
    BY <2>1, <2>11 DEF Crash, RedisFlushed
  <2> QED
    BY <2>2, <2>3, <2>4, <2>5, <2>6, <2>7, <2>8, <2>9, <2>10, <2>11, WithdrawKeepsLock
    DEF DispatchNext
<1>3. (faults = 0 => LockedFor) => LockFollowsTheRow
  BY DEF LockedFor, ByAccept, ByRow, LockFollowsTheRow
<1> QED
  BY <1>1, <1>2, <1>3, DispatchTyping, PTL DEF DispatchSpec

-----------------------------------------------------------------------------
(* What the lock turns away.                                               *)

\* The only step without a fault that ends an accept before its claim is the
\* refusal of its SETNX.
LEMMA OnlyTheLockRefuses ==
  ASSUME DispatchTypeOK, [DispatchNext]_vars, faults' = faults,
         NEW r \in Platform, acceptor[r].at = "locked", acceptor'[r].at = "idle"
  PROVE  TakeLock(r) /\ lock[Number(r)] # NoRider
<1> USE DEF DispatchTypeOK, ProcessTypeOK
<1>1. acceptor'[r] # acceptor[r]
  OBVIOUS
<1>2. ~Fault
  BY DEF Fault
<1>3. ASSUME NEW p \in Jobs,
             \/ JobStep(p)
             \/ JobDropped(p)
             \/ \E d \in Deliveries : HandleEvent(p, d)
      PROVE  FALSE
  BY <1>1, <1>2, <1>3, JobKeepsLock DEF JobDropped, HandleEvent, JobOnly
<1>4. ASSUME NEW d \in Deliveries,
             \/ Redispatch(d)
             \/ \E q \in Platform : Decline(d, q)
             \/ \E q \in Riders : Withdraw(d, q) \/ ReleaseLock(d, q)
      PROVE  FALSE
  BY <1>1, <1>4 DEF Redispatch, JobOnly, Decline, ChecksOnly, Withdraw, ReleaseLock
<1>5. ASSUME NEW d \in Deliveries, NEW q \in Platform, AcceptBegin(d, q)
      PROVE  FALSE
  <2>1. q # r /\ acceptor'[r] = acceptor[r]
    BY <1>5 DEF AcceptBegin, ProfileFree
  <2> QED BY <1>1, <2>1
<1>6. ASSUME NEW c, ExpireOffers(c) \/ Recount(c) \/ CloseSearch(c)
      PROVE  FALSE
  BY <1>1, <1>6 DEF ExpireOffers, Recount, CloseSearch, ChecksOnly
<1>7. ASSUME NEW q \in Platform, AcceptCommit(q) \/ AcceptFails(q) \/ LockErrs(q)
      PROVE  FALSE
  BY <1>1, <1>2, <1>7 DEF AcceptCommit, AcceptFails, LockErrs
<1>8. CASE Crash \/ RedisFlushed
  BY <1>2, <1>8 DEF Crash, RedisFlushed
<1>9. CASE Elsewhere \/ UNCHANGED vars
  BY <1>1, <1>9 DEF Elsewhere, dispatchVars, vars
<1>10. ASSUME NEW q \in Platform, TakeLock(q)
       PROVE  TakeLock(r) /\ lock[Number(r)] # NoRider
  <2>1. q = r
    BY <1>1, <1>10 DEF TakeLock
  <2>2. CASE lock[Number(r)] = NoRider
    <3>1. acceptor' = [acceptor EXCEPT ![r].at = "claiming", ![r].holds = TRUE]
      BY <1>10, <2>1, <2>2 DEF TakeLock
    <3>2. acceptor[r] \in Open
      BY OpenAccept
    <3>3. acceptor'[r] = [acceptor[r] EXCEPT !.at = "claiming", !.holds = TRUE]
      BY <3>1
    <3>4. acceptor'[r].at = "claiming"
      BY <3>2, <3>3 DEF Open
    <3> QED BY <3>4
  <2> QED BY <1>10, <2>1, <2>2
<1> QED
  BY <1>3, <1>4, <1>5, <1>6, <1>7, <1>8, <1>9, <1>10 DEF DispatchNext

\* As long as nothing has failed, a rider whom the tables would give the order
\* is turned away by the lock only while its owner is at work on it: Redis spares
\* PostgreSQL the hopeless accepts and decides nothing itself.  Numbers shared
\* by a food and a grocery order share the lock, and break this.
THEOREM DecidesUntilAFault ==
  ASSUME NoSharedIds
  PROVE  DispatchSpec => [][faults = 0 => RefusedForAReason]_vars
<1>1. ASSUME DispatchTypeOK, LockFollowsTheRow, [DispatchNext]_vars, faults = 0,
             NEW r \in Platform,
             acceptor[r].at = "locked", acceptor'[r].at = "idle", faults' = faults,
             WouldBeAccepted(acceptor[r].delivery, r)
      PROVE  LockInUse(Number(r))
  <2> DEFINE n == Number(r)
             q == lock[n]
  <2>1. acceptor[r] \in Open /\ n \in OrderIds
    BY <1>1, OpenAccept, StoreAssumption
    DEF DispatchTypeOK, ProcessTypeOK, Open, Number, StoreAssumption
  <2>2. q \in Platform /\ q # NoRider
    BY <1>1, <2>1, OnlyTheLockRefuses DEF DispatchTypeOK, ProcessTypeOK
  <2>3. \/ acceptor[q].at = "claiming" /\ Number(q) = n
        \/ \E d \in Deliveries :
             OrderId[d] = n /\ (HasOrder(d, q) \/ <<d, q>> \in unlocking)
    BY <1>1, <2>1, <2>2 DEF LockFollowsTheRow, Platform
  <2>4. ASSUME NEW d \in Deliveries, OrderId[d] = n PROVE ~HasOrder(d, q)
    <3>1. d = acceptor[r].delivery
      BY <2>1, <2>4, NoSharedIds DEF NoSharedIds, Number, Open
    <3> QED BY <1>1, <2>2, <3>1 DEF WouldBeAccepted, Claimable, HasOrder
  <2>5. ASSUME NEW d \in Deliveries, OrderId[d] = n, <<d, q>> \in unlocking
        PROVE  LockInUse(n)
    BY <2>5 DEF LockInUse
  <2> QED BY <2>2, <2>3, <2>4, <2>5 DEF LockInUse
<1>2. DispatchTypeOK /\ LockFollowsTheRow /\ [DispatchNext]_vars
        => [faults = 0 => RefusedForAReason]_vars
  BY <1>1 DEF RefusedForAReason
<1> QED
  BY <1>2, DispatchTyping, LockSafe, PTL DEF DispatchSpec

\* Where nothing ever fails, that is so for ever: PostgreSQL decides.
COROLLARY TablesDecide ==
  ASSUME MaxFaults = 0, NoSharedIds
  PROVE  DispatchSpec => PostgresDecides
<1>1. DispatchTypeOK => faults = 0
  BY DEF DispatchTypeOK, ProcessTypeOK
<1>2. DispatchTypeOK /\ [faults = 0 => RefusedForAReason]_vars => [RefusedForAReason]_vars
  BY <1>1
<1> QED
  BY <1>2, DecidesUntilAFault, DispatchTyping, PTL DEF PostgresDecides

\* Under every interleaving of searches, accepts, withdrawals, expiries, crashes
\* and lost locks the tables keep the promise of Custody: a rider carries one
\* delivery, his row says so, and he is credited once for what he delivers.
THEOREM SearchKeepsCustody ==
  ASSUME OrdersMoveForward, NoSharedIds
  PROVE  DispatchSpec => /\ CustodyKept
                         /\ [](HolderIsBusy /\ OneDeliveryEach)
                         /\ [](PaidExactlyOnce /\ CanonicalOrderFirst)
BY Implements, KeepsCustody, HoldersBusy, OneDelivery, EarningsExact, OrderComesFirst,
   OrdersMoveForward, NoSharedIds, PTL
=============================================================================
