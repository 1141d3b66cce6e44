-------------------------------- MODULE Chat --------------------------------
(***************************************************************************)
(* The chat of one food delivery between its customer and the rider who    *)
(* has it.  A request reads who has the delivery, is admitted or refused,  *)
(* inserts the message in a statement that takes its number before it      *)
(* commits, and tells the other side if the message is new.  Meanwhile the *)
(* delivery may change hands, and clients send the same message again.     *)
(***************************************************************************)
EXTENDS Naturals, FiniteSets, FiniteSetsExt

CONSTANTS
  Customer,      \* the customer of the order
  ChatRiders,    \* riders who may carry it
  Nobody,        \* no rider: a null value
  Requests,      \* requests to send that may be open at the same time
  Readers,       \* users whose app is followed
  ClientIds,     \* client_message_id: chosen by the app, kept when it retries
  ChatPage,      \* messages returned by one List (100)
  MaxTakes,      \* bound on the times the delivery is taken
  MaxMessages    \* bound on the message numbers handed out

ASSUME ChatAssumption ==
  {MaxMessages, MaxTakes} \subseteq Nat /\ ChatPage \in Nat \ {0} /\ Nobody \notin ChatRiders

VARIABLES
  rider,     \* the rider of the delivery in delivery_orders
  takes,     \* number of times it was taken
  phase,     \* delivery_status, as far as chat tells it apart
  messages,  \* committed rows of delivery_chat_messages
  lastId,    \* the sequence behind message_id
  request,   \* what each open request is doing
  told,      \* how often each message was handed to the hub
  known,     \* message ids each user's app has fetched
  cursor     \* highest id each user's app has fetched

chatVars == <<rider, takes, phase, messages, lastId, request, told, known, cursor>>

Users == ChatRiders \cup {Customer}
Ids == 1 .. MaxMessages
Idle == [step |-> "idle"]
Rows == [id : Ids, sender : Users, client : ClientIds, rider : ChatRiders,
         held : SUBSET ChatRiders, read : BOOLEAN, overtaken : BOOLEAN]

ChatTypeOK ==
  /\ rider \in ChatRiders \cup {Nobody}
  /\ phase \in {"searching", "active", "closed"}
  /\ (rider = Nobody) = (phase = "searching")
  /\ \A m \in messages : m \in Rows
  /\ takes \in 0 .. MaxTakes
  /\ lastId \in 0 .. MaxMessages
  /\ \A q \in Requests : request[q].step \in {"idle", "insert", "commit", "deliver"}
  /\ told \in [Ids -> Nat]
  /\ known \in [Readers -> SUBSET Ids]
  /\ cursor \in [Readers -> 0 .. MaxMessages]

ChatInit ==
  /\ rider = Nobody /\ phase = "searching" /\ takes = 0
  /\ messages = {} /\ lastId = 0
  /\ request = [q \in Requests |-> Idle]
  /\ told = [i \in Ids |-> 0]
  /\ known = [u \in Readers |-> {}]
  /\ cursor = [u \in Readers |-> 0]

-----------------------------------------------------------------------------
(* The delivery: accepted, withdrawn, delivered or cancelled.  Open        *)
(* requests remember every rider who had it while they ran.                *)
RiderTakes(r) ==
  /\ phase = "searching" /\ takes < MaxTakes
  /\ rider' = r /\ phase' = "active" /\ takes' = takes + 1
  /\ request' = [q \in Requests |-> IF request[q] = Idle THEN Idle
                                    ELSE [request[q] EXCEPT !.held = @ \cup {r}]]
  /\ UNCHANGED <<messages, lastId, told, known, cursor>>

RiderLeaves ==
  /\ phase = "active"
  /\ rider' = Nobody /\ phase' = "searching"
  /\ UNCHANGED <<takes, messages, lastId, request, told, known, cursor>>

DeliveryEnds ==
  /\ phase = "active"
  /\ phase' = "closed"
  /\ UNCHANGED <<rider, takes, messages, lastId, request, told, known, cursor>>

-----------------------------------------------------------------------------
HasHistory(u) == \E m \in messages : m.rider = u
Authorized(u) == u = Customer \/ u = rider \/ HasHistory(u)

(* The other one a message is for, and what a user may read. *)
Role(u) == IF u = Customer THEN "customer" ELSE "rider"
Recipient(m) == IF m.sender = Customer THEN m.rider ELSE Customer
Scope(u) == {m \in messages : u = Customer \/ m.rider = u}

CanSendIfActive(u) == rider # Nobody /\ phase = "active"
CanSend(u) == /\ rider # Nobody /\ phase = "active"
              /\ Role(u) = "rider" => rider = u

(* Admitted on one reading of the delivery; the rider it named is kept.    *)
AsksToSend(q, u, client) ==
  /\ request[q] = Idle
  /\ Authorized(u)
  /\ CanSend(u)
  /\ request' = [request EXCEPT ![q] = [step |-> "insert", sender |-> u, client |-> client,
                                        rider |-> rider, held |-> {rider}, id |-> 0]]
  /\ UNCHANGED <<rider, takes, phase, messages, lastId, told, known, cursor>>

SameKey(m, p) == m.sender = p.sender /\ m.client = p.client

TakesNumber(q) ==
  /\ lastId < MaxMessages
  /\ lastId' = lastId + 1
  /\ request' = [request EXCEPT ![q].step = "commit", ![q].id = lastId + 1]

(* ON CONFLICT DO NOTHING waits for an insert of the same key in progress, *)
(* and ends the request without telling anybody when the row is there.     *)
Inserts(q) ==
  /\ request[q].step = "insert"
  /\ \A other \in Requests \ {q} :
       request[other].step = "commit" => ~SameKey(request[other], request[q])
  /\ IF \E m \in messages : SameKey(m, request[q])
     THEN request' = [request EXCEPT ![q] = Idle] /\ UNCHANGED lastId
     ELSE TakesNumber(q)
  /\ UNCHANGED <<rider, takes, phase, messages, told, known, cursor>>

(* The row becomes visible; a row with a higher number may have been       *)
(* fetched before.                                                         *)
Stored(p) ==
  [id |-> p.id, sender |-> p.sender, client |-> p.client, rider |-> p.rider,
   held |-> p.held, read |-> FALSE,
   overtaken |-> \E u \in Readers : cursor[u] > p.id]

CommitsMessage(q) ==
  /\ request[q].step = "commit"
  /\ messages' = messages \cup {Stored(request[q])}
  /\ request' = [request EXCEPT ![q].step = "deliver"]
  /\ UNCHANGED <<rider, takes, phase, lastId, told, known, cursor>>

(* Handed to the hub and the push service, which may reach nobody. *)
Delivers(q) ==
  LET m == CHOOSE x \in messages : x.id = request[q].id IN
  /\ request[q].step = "deliver"
  /\ told' = [told EXCEPT ![m.id] = @ + 1]
  /\ request' = [request EXCEPT ![q] = Idle]
  /\ UNCHANGED <<rider, takes, phase, messages, lastId, known, cursor>>

RequestFails(q) ==
  /\ request[q] # Idle
  /\ request' = [request EXCEPT ![q] = Idle]
  /\ UNCHANGED <<rider, takes, phase, messages, lastId, told, known, cursor>>

-----------------------------------------------------------------------------
(* List: the oldest messages after the id the app has. *)
NewestPage(u) ==
  LET new == {m.id : m \in {x \in Scope(u) : x.id > cursor[u]}} IN
  {i \in new : Cardinality({j \in new : j > i}) < ChatPage}

Page(u) ==
  LET new == {m.id : m \in {x \in Scope(u) : x.id > cursor[u]}} IN
  {i \in new : Cardinality({j \in new : j < i}) < ChatPage}

ListsMessages(u) ==
  /\ Authorized(u)
  /\ Page(u) # {}
  /\ known' = [known EXCEPT ![u] = @ \cup Page(u)]
  /\ cursor' = [cursor EXCEPT ![u] = Max(Page(u))]
  /\ UNCHANGED <<rider, takes, phase, messages, lastId, request, told>>

(* MarkRead, up to the last message the app has fetched. *)
MarksRead(u) ==
  /\ Authorized(u)
  /\ messages' = {IF m \in Scope(u) /\ m.id <= cursor[u] /\ Role(m.sender) # Role(u)
                  THEN [m EXCEPT !.read = TRUE] ELSE m : m \in messages}
  /\ messages' # messages
  /\ UNCHANGED <<rider, takes, phase, lastId, request, told, known, cursor>>

ChatNext ==
  \/ \E r \in ChatRiders : RiderTakes(r)
  \/ RiderLeaves
  \/ DeliveryEnds
  \/ \E q \in Requests :
       \/ \E u \in Users, client \in ClientIds : AsksToSend(q, u, client)
       \/ Inserts(q)
       \/ CommitsMessage(q)
       \/ Delivers(q)
       \/ RequestFails(q)
  \/ \E u \in Readers : ListsMessages(u) \/ MarksRead(u)

ChatSpec == ChatInit /\ [][ChatNext]_chatVars

-----------------------------------------------------------------------------
(* A message belongs to the thread of a rider who had the delivery while   *)
(* it was being sent, though they may have lost it before it is stored,    *)
(* and what a rider sends belongs to that rider's own thread: nobody reads *)
(* what was exchanged with another rider.                                  *)
ThreadsKeptApart ==
  \A m \in messages : m.rider \in m.held
                        /\ (m.sender # Customer => m.rider = m.sender)

(* However often the app sends a message again, and even if two tries      *)
(* overlap, it is stored once and the other side is told at most once.     *)
SentOnce ==
  /\ \A m, n \in messages : SameKey(m, n) => m = n
  /\ \A i \in Ids : told[i] <= 1

(* Fetching page after page leaves nothing out, and nothing is marked read *)
(* unseen.  The exception: a message that took its number, and was stored  *)
(* when a higher one had been fetched already.                             *)
NothingSkipped ==
  \A m \in messages : ~m.overtaken =>
    /\ \A u \in Readers : m \in Scope(u) /\ m.id <= cursor[u] => m.id \in known[u]
    /\ m.read /\ Recipient(m) \in Readers => m.id \in known[Recipient(m)]

(* The thread an app shows is neither short of a message nor has one twice. *)
ThreadComplete == SentOnce /\ NothingSkipped
=============================================================================
