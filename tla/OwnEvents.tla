----------------------------- MODULE OwnEvents ------------------------------
(***************************************************************************)
(* How the assignment of a restaurant's own rider reaches delivery_orders. *)
(* The owner assigns a rider in restaurant-service, which writes orders    *)
(* and sends RIDER_ASSIGNED_TO_ORDER; SQS delivers the event at least      *)
(* once, in any order, to any instance of the consumer.  The handler asks  *)
(* whether the assignment is still current, whether it was processed       *)
(* before, upserts the delivery and marks the event processed, each in a   *)
(* statement of its own; the upsert reads the order and writes the row as  *)
(* it then is.  One order.  Platform dispatch, which was allowed it before *)
(* the owner assigned anyone, may create the row first, and a platform row *)
(* is not taken by an event that finds it there.  Its riders do not accept *)
(* the order here: then the owner assigns nobody.                          *)
(***************************************************************************)
EXTENDS Naturals

CONSTANTS
  OwnStaff,      \* the restaurant's riders
  Handlers,      \* consumers, one per running instance
  NoStaff,       \* no rider: a null value
  MaxAssigned,   \* bound on the assignments the owner makes
  MaxLost        \* bound on crashes, failed marks and failed deletes

ASSUME OwnEventsAssumption ==
  MaxAssigned \in Nat /\ MaxLost \in Nat /\ NoStaff \notin OwnStaff

VARIABLES
  named,      \* orders.assigned_rider_user_id
  ended,      \* the order is closed
  dispatched, \* platform dispatch created the row in delivery_orders
  owned,      \* restaurant_owned of the row, which there is if either
  onRow,      \* rider of the row, none before the first upsert
  processed,  \* riders with a row rider_assigned:<order>:<rider> in processed_events
  queue,      \* messages SQS still holds
  handler,    \* what each consumer is doing
  served,     \* riders the row has named at some time
  assigned,   \* number of assignments made
  lost        \* number of faults so far

sourceVars == <<named, ended>>
rowVars == <<dispatched, owned, onRow, served>>
ownEventVars == <<sourceVars, rowVars, processed, queue, handler, assigned, lost>>

Steps == {"current", "processed", "upsert", "write", "mark", "ack"}
Messages == [rider : OwnStaff, number : 1 .. MaxAssigned]
Resting == [step |-> "poll"]

OwnEventsTypeOK ==
  /\ named \in OwnStaff \cup {NoStaff} /\ onRow \in OwnStaff \cup {NoStaff}
  /\ processed \subseteq OwnStaff /\ served \subseteq OwnStaff
  /\ ended \in BOOLEAN /\ dispatched \in BOOLEAN /\ owned \in BOOLEAN
  /\ queue \subseteq Messages
  /\ handler \in [Handlers -> [step : Steps, message : Messages] \cup {Resting}]
  /\ assigned \in 0 .. MaxAssigned /\ lost \in 0 .. MaxLost
  /\ onRow # NoStaff => owned /\ onRow \in served

OwnEventsInit ==
  /\ named = NoStaff /\ onRow = NoStaff
  /\ processed = {} /\ served = {} /\ queue = {}
  /\ ended = FALSE /\ dispatched = FALSE /\ owned = FALSE
  /\ handler = [h \in Handlers |-> Resting]
  /\ assigned = 0 /\ lost = 0

-----------------------------------------------------------------------------
(* restaurant-service *)
OwnerAssigns(x) ==
  /\ ~ended /\ assigned < MaxAssigned /\ named # x
  /\ named' = x
  /\ assigned' = assigned + 1
  /\ queue' = queue \cup {[rider |-> x, number |-> assigned + 1]}
  /\ UNCHANGED <<ended, rowVars, processed, handler, lost>>

OwnerEnds ==
  /\ ~ended /\ named # NoStaff
  /\ ended' = TRUE
  /\ UNCHANGED <<named, rowVars, processed, queue, handler, assigned, lost>>

-----------------------------------------------------------------------------
(* CreateDeliveryOrder, for a job that FoodDispatchAllowed let through      *)
(* earlier.  It leaves a row that is there as it is.                       *)
PlatformDispatches ==
  /\ ~dispatched /\ ~owned
  /\ dispatched' = TRUE
  /\ UNCHANGED <<sourceVars, owned, onRow, served, processed, queue, handler, assigned, lost>>

-----------------------------------------------------------------------------
(* The order is open and x is on it.                                       *)
Stands(x) == named = x /\ ~ended

(* The order stands, and its row, if any, is the restaurant's.             *)
Current(x) == Stands(x) /\ (dispatched => owned)

Goes(h, step) == handler' = [handler EXCEPT ![h].step = step]
At(h, step) == handler[h].step = step
Who(h) == handler[h].message.rider

Receives(h, m) ==
  /\ At(h, "poll") /\ m \in queue
  /\ handler' = [handler EXCEPT ![h] = [step |-> "current", message |-> m]]
  /\ UNCHANGED <<sourceVars, rowVars, processed, queue, assigned, lost>>

ChecksCurrent(h) ==
  /\ At(h, "current")
  /\ Goes(h, IF Current(Who(h)) THEN "processed" ELSE "ack")
  /\ UNCHANGED <<sourceVars, rowVars, processed, queue, assigned, lost>>

ChecksProcessed(h) ==
  /\ At(h, "processed")
  /\ Goes(h, IF Who(h) \in processed THEN "ack" ELSE "upsert")
  /\ UNCHANGED <<sourceVars, rowVars, processed, queue, assigned, lost>>

(* The upsert reads the order, and of the row nothing.  When it finds the  *)
(* assignment gone it changes nothing, and the event is not marked: the    *)
(* same rider may be assigned again.                                       *)
SelectsOwnOrder(h) ==
  /\ At(h, "upsert")
  /\ Goes(h, IF Stands(Who(h)) THEN "write" ELSE "ack")
  /\ UNCHANGED <<sourceVars, rowVars, processed, queue, assigned, lost>>

(* It writes the row, whoever is on it and whatever became of the order.   *)
UpsertsOwnOrder(h) ==
  /\ At(h, "write")
  /\ onRow' = Who(h) /\ served' = served \cup {Who(h)} /\ owned' = TRUE
  /\ Goes(h, "mark")
  /\ UNCHANGED <<sourceVars, dispatched, processed, queue, assigned, lost>>

(* The error of a mark that fails is ignored. *)
MarksProcessed(h) ==
  /\ At(h, "mark")
  /\ \/ processed' = processed \cup {Who(h)} /\ UNCHANGED lost
     \/ lost < MaxLost /\ lost' = lost + 1 /\ UNCHANGED processed
  /\ Goes(h, "ack")
  /\ UNCHANGED <<sourceVars, rowVars, queue, assigned>>

(* DeleteMessage; when it fails the message is delivered again. *)
Acks(h) ==
  /\ At(h, "ack")
  /\ \/ queue' = queue \ {handler[h].message} /\ UNCHANGED lost
     \/ lost < MaxLost /\ lost' = lost + 1 /\ UNCHANGED queue
  /\ handler' = [handler EXCEPT ![h] = Resting]
  /\ UNCHANGED <<sourceVars, rowVars, processed, assigned>>

DropsFailed(h) ==
  /\ ~At(h, "poll") /\ lost < MaxLost
  /\ lost' = lost + 1
  /\ queue' = queue \ {handler[h].message}
  /\ handler' = [handler EXCEPT ![h] = Resting]
  /\ UNCHANGED <<sourceVars, rowVars, processed, assigned>>

(* An error, a timeout or a crash before the end: the message stays. *)
HandlerFails(h) ==
  /\ ~At(h, "poll") /\ lost < MaxLost
  /\ lost' = lost + 1
  /\ handler' = [handler EXCEPT ![h] = Resting]
  /\ UNCHANGED <<sourceVars, rowVars, processed, queue, assigned>>

HandlesEvent(h) == \/ ChecksCurrent(h)
                   \/ ChecksProcessed(h)
                   \/ SelectsOwnOrder(h)
                   \/ UpsertsOwnOrder(h)
                   \/ MarksProcessed(h)
                   \/ Acks(h)

OwnEventsNext ==
  \/ \E x \in OwnStaff : OwnerAssigns(x)
  \/ OwnerEnds
  \/ PlatformDispatches
  \/ \E h \in Handlers : \/ \E m \in queue : Receives(h, m)
                         \/ HandlesEvent(h)
                         \/ HandlerFails(h)

(* Consumers poll for ever, and SQS hands out every message it keeps. *)
HandsOut(n) ==
  \E h \in Handlers, m \in queue : m.number = n /\ Receives(h, m)

OwnEventsFairness ==
  /\ \A h \in Handlers : WF_ownEventVars(HandlesEvent(h))
  /\ \A n \in 1 .. MaxAssigned : WF_ownEventVars(HandsOut(n))

OwnEventsSpec == OwnEventsInit /\ [][OwnEventsNext]_ownEventVars /\ OwnEventsFairness

-----------------------------------------------------------------------------
(* The message of an assignment that stands and has not come to the row is *)
(* not deleted: it waits, or it is in the hands of a consumer as well.     *)
(* Only platform dispatch, when it had the row first, may cost it.         *)
EventKept ==
  ~ended /\ ~dispatched /\ named \in OwnStaff \ served =>
    [rider |-> named, number |-> assigned] \in queue

(* A rider the owner assigns for the first time comes to stand on the      *)
(* delivery, unless the owner changes their mind or the order ends, or     *)
(* platform dispatch had created its row: whatever is lost, repeated or    *)
(* overtaken on the way, again and again whoever is assigned has had the   *)
(* delivery.  He need not have it still: the mark has no version, and a    *)
(* second assignment of the same rider looks like a repetition of the      *)
(* first; and an upsert that read the order before him may write after him. *)
AssignmentArrives ==
  []<>(dispatched \/ \A x \in OwnStaff : Stands(x) => x \in served)
=============================================================================
