-------------------------------- MODULE Hub ---------------------------------
(***************************************************************************)
(* The websocket hub: riders, customers who follow an order and customers  *)
(* who chat are registered on channels, each a Go slice of clients.  A     *)
(* client joins and leaves under the hub's lock.  A message to a rider     *)
(* goes to a copy of the slice taken under the lock; one to an order       *)
(* channel goes through the slice itself after the lock is released, while *)
(* removals move the elements of its array.  Arrays are modelled, so that  *)
(* what a send then reads is what the machine would read.                  *)
(***************************************************************************)
EXTENDS Naturals, Sequences, SequencesExt

CONSTANTS
  RiderChannels,  \* keys of riderClients
  OrderChannels,  \* keys of orderClients: orders, and "chat:" and an order
  MaxSockets,     \* bound on the connections; they have their numbers in
                  \* the order in which they join
  HubSends,       \* calls of SendToRider and SendToOrder
  SendBuffer      \* capacity of a client's send channel (256; 64 for chat)

ASSUME HubAssumption ==
  {MaxSockets, SendBuffer} \subseteq Nat /\ RiderChannels \cap OrderChannels = {}

Sockets == 1 .. MaxSockets
NoSocket == 0  \* a nil pointer
Channels == RiderChannels \cup OrderChannels
Unlocked == [socket |-> NoSocket]
NoClients == [array |-> 0, len |-> 0]

VARIABLES
  memory,   \* backing arrays of the slices, in the order of their allocation
  clients,  \* slice of each channel: its array and its length (no key: NoClients)
  hubLock,  \* the removal that holds the lock and is moving elements
  socket,   \* state of each connection, and its channel
  pending,  \* messages in the connection's send channel
  sending,  \* each call: what is left for it to do
  reached,  \* how often each call tried each connection
  present,  \* connections registered when the call read the slice
  disturbed \* calls during which a client left their channel

hubVars == <<memory, clients, hubLock, socket, pending, sending, reached, present, disturbed>>

SocketStates == {"new", "open", "silent", "closed", "leaving", "gone"}
SendStates == {"idle", "copied", "ranging", "done"}

HubTypeOK ==
  /\ \A a \in DOMAIN memory : memory[a] \in Seq(Sockets \cup {NoSocket})
  /\ \A c \in Channels : /\ clients[c].array \in 0 .. Len(memory)
                         /\ clients[c].len > 0 => clients[c].len <= Len(memory[clients[c].array])
  /\ hubLock.socket \in Sockets \cup {NoSocket}
  /\ \A s \in Sockets : socket[s].state \in SocketStates
  /\ pending \in [Sockets -> 0 .. SendBuffer]
  /\ \A m \in HubSends : sending[m].state \in SendStates
  /\ reached \in [HubSends -> [Sockets \cup {NoSocket} -> Nat]]
  /\ present \in [HubSends -> SUBSET Sockets]
  /\ disturbed \subseteq HubSends

HubInit ==
  /\ memory = <<>>
  /\ clients = [c \in Channels |-> NoClients]
  /\ hubLock = Unlocked
  /\ socket = [s \in Sockets |-> [state |-> "new"]]
  /\ pending = [s \in Sockets |-> 0]
  /\ sending = [m \in HubSends |-> [state |-> "idle"]]
  /\ reached = [m \in HubSends |-> [s \in Sockets \cup {NoSocket} |-> 0]]
  /\ present = [m \in HubSends |-> {}]
  /\ disturbed = {}

Listeners(c) == IF clients[c].len = 0 THEN <<>>
                ELSE SubSeq(memory[clients[c].array], 1, clients[c].len)

-----------------------------------------------------------------------------
(* append: in place while the array has room, else into one twice as long. *)
Grown(list, s) ==
  Append(list, s) \o [i \in 1 .. (IF list = <<>> THEN 0 ELSE Len(list) - 1) |-> NoSocket]

Joins(s, c) ==
  LET here == clients[c] IN
  /\ socket[s].state = "new" /\ hubLock = Unlocked
  /\ \A earlier \in 1 .. s - 1 : socket[earlier].state # "new"
  /\ IF here.len > 0 /\ here.len < Len(memory[here.array])
     THEN /\ memory' = [memory EXCEPT ![here.array][here.len + 1] = s]
          /\ clients' = [clients EXCEPT ![c].len = @ + 1]
     ELSE /\ memory' = Append(memory, Grown(Listeners(c), s))
          /\ clients' = [clients EXCEPT ![c] = [array |-> Len(memory) + 1, len |-> here.len + 1]]
  /\ socket' = [socket EXCEPT ![s] = [state |-> "open", channel |-> c]]
  /\ UNCHANGED <<hubLock, pending, sending, reached, present, disturbed>>

(* The phone loses its network, and nothing tells the server. *)
PeerVanishes(s) ==
  /\ socket[s].state = "open"
  /\ socket' = [socket EXCEPT ![s].state = "silent"]
  /\ UNCHANGED <<memory, clients, hubLock, pending, sending, reached, present, disturbed>>

(* A close frame or the read deadline of 60 s ends the read pump, a write  *)
(* or a ping that fails the write pump; either closes the connection and   *)
(* ends the other.                                                         *)
ConnectionEnds(s) ==
  /\ socket[s].state \in {"open", "silent"}
  /\ socket' = [socket EXCEPT ![s].state = "closed"]
  /\ UNCHANGED <<memory, clients, hubLock, pending, sending, reached, present, disturbed>>

(* The write pump takes a message off the channel. *)
WritesFrame(s) ==
  /\ socket[s].state \in {"open", "silent"} /\ pending[s] > 0
  /\ pending' = [pending EXCEPT ![s] = @ - 1]
  /\ UNCHANGED <<memory, clients, hubLock, socket, sending, reached, present, disturbed>>

Displaced(i, n) == i .. n - 1

(* The write pump's deferred removal: the elements after the client move   *)
(* down by one, each store visible on its own.                             *)
StartsLeaving(s) ==
  LET c == socket[s].channel
      i == CHOOSE k \in 1 .. clients[c].len : Listeners(c)[k] = s IN
  /\ socket[s].state = "closed" /\ hubLock = Unlocked
  /\ hubLock' = [socket |-> s, moved |-> Listeners(c), todo |-> Displaced(i, clients[c].len)]
  /\ socket' = [socket EXCEPT ![s].state = "leaving"]
  /\ disturbed' = disturbed \cup
       {m \in HubSends : sending[m].state \in {"copied", "ranging"} /\ sending[m].channel = c}
  /\ UNCHANGED <<memory, clients, pending, sending, reached, present>>

MovesElement(i) ==
  /\ hubLock # Unlocked /\ i \in hubLock.todo
  /\ memory' = [memory EXCEPT ![clients[socket[hubLock.socket].channel].array][i] =
                  hubLock.moved[i + 1]]
  /\ hubLock' = [hubLock EXCEPT !.todo = @ \ {i}]
  /\ UNCHANGED <<clients, socket, pending, sending, reached, present, disturbed>>

Leaves ==
  LET c == socket[hubLock.socket].channel IN
  /\ hubLock # Unlocked /\ hubLock.todo = {}
  /\ clients' = [clients EXCEPT ![c] = IF @.len = 1 THEN NoClients
                                       ELSE [array |-> @.array, len |-> @.len - 1]]
  /\ socket' = [socket EXCEPT ![hubLock.socket].state = "gone"]
  /\ hubLock' = Unlocked
  /\ UNCHANGED <<memory, pending, sending, reached, present, disturbed>>

-----------------------------------------------------------------------------
(* What a send keeps when it gives the lock back. *)
KeepsSlice(c) == [state |-> "ranging", channel |-> c, slice |-> clients[c], next |-> 1]
KeepsCopy(c) == [state |-> "copied", channel |-> c, copy |-> Listeners(c), next |-> 1]

StartsSend(m, c, keeps) ==
  /\ sending[m].state = "idle" /\ hubLock = Unlocked
  /\ sending' = [sending EXCEPT ![m] = keeps]
  /\ present' = [present EXCEPT ![m] = ToSet(Listeners(c))]
  /\ UNCHANGED <<memory, clients, hubLock, socket, pending, reached, disturbed>>

RangesForRider(m, c) == StartsSend(m, c, KeepsSlice(c))
SendToRider(m, c) == StartsSend(m, c, KeepsCopy(c))
SendToOrder(m, c) == StartsSend(m, c, KeepsSlice(c))

Length(call) == IF call.state = "copied" THEN Len(call.copy) ELSE call.slice.len
Client(call) == IF call.state = "copied" THEN call.copy[call.next]
                ELSE memory[call.slice.array][call.next]

TakesPlace(m, s) ==
  /\ reached' = [reached EXCEPT ![m][s] = @ + 1]
  /\ sending' = [sending EXCEPT ![m].next = @ + 1]
  /\ UNCHANGED <<memory, clients, hubLock, socket, present, disturbed>>

WaitsForRoom(m) ==
  LET s == Client(sending[m]) IN
  /\ sending[m].state \in {"copied", "ranging"}
  /\ sending[m].next <= Length(sending[m])
  /\ s # NoSocket => pending[s] < SendBuffer /\ pending' = [pending EXCEPT ![s] = @ + 1]
  /\ TakesPlace(m, s)

(* The next client: the message goes into its channel, or is dropped when  *)
(* that is full.  Nobody empties the channel of a client that has left.    *)
TriesNext(m) ==
  LET s == Client(sending[m]) IN
  /\ sending[m].state \in {"copied", "ranging"}
  /\ sending[m].next <= Length(sending[m])
  /\ pending' = IF s # NoSocket /\ pending[s] < SendBuffer
                THEN [pending EXCEPT ![s] = @ + 1] ELSE pending
  /\ TakesPlace(m, s)

EndsSend(m) ==
  /\ sending[m].state \in {"copied", "ranging"}
  /\ sending[m].next > Length(sending[m])
  /\ sending' = [sending EXCEPT ![m] = [state |-> "done", copied |-> sending[m].state = "copied",
                                        rider |-> sending[m].channel \in RiderChannels]]
  /\ UNCHANGED <<memory, clients, hubLock, socket, pending, reached, present, disturbed>>

LeavesSteps(s) == \/ StartsLeaving(s)
                  \/ /\ hubLock.socket = s
                     /\ \/ \E i \in 1 .. MaxSockets : MovesElement(i)
                        \/ Leaves

HubNext ==
  \/ \E s \in Sockets :
       \/ \E c \in Channels : Joins(s, c)
       \/ PeerVanishes(s)
       \/ ConnectionEnds(s)
       \/ WritesFrame(s)
       \/ LeavesSteps(s)
  \/ \E m \in HubSends :
       \/ \E c \in RiderChannels : SendToRider(m, c)
       \/ \E c \in OrderChannels : SendToOrder(m, c)
       \/ TriesNext(m)
       \/ EndsSend(m)

(* A silent peer runs into the deadlines; goroutines and the lock are fair. *)
VanishedEnds(s) == socket[s].state = "silent" /\ ConnectionEnds(s)
GoesOn(m) == TriesNext(m) \/ EndsSend(m)

HubFairness ==
  /\ \A s \in Sockets : WF_hubVars(VanishedEnds(s) \/ LeavesSteps(s))
  /\ \A m \in HubSends : WF_hubVars(GoesOn(m))

HubSpec == HubInit /\ [][HubNext]_hubVars /\ HubFairness

-----------------------------------------------------------------------------
(* A message to a rider is tried on every connection the rider had, once,  *)
(* whoever joins or leaves meanwhile.  One to an order channel too, unless *)
(* a listener left during the send: then others may be skipped or be sent  *)
(* it twice, but no send ever meets an empty place of the array.           *)
EveryListenerOnce ==
  \A m \in HubSends :
    /\ reached[m][NoSocket] = 0
    /\ sending[m].state = "done" /\ (sending[m].rider \/ m \notin disturbed) =>
         \A s \in Sockets : reached[m][s] = IF s \in present[m] THEN 1 ELSE 0

(* No send waits for a slow or dead connection, and a connection whose     *)
(* peer has vanished is off its channel in the end: again and again, every *)
(* send that began has ended and every such connection is gone.            *)
NobodyWaits ==
  []<>(/\ \A m \in HubSends : sending[m].state \in {"idle", "done"}
       /\ \A s \in Sockets : socket[s].state \notin {"silent", "closed"})
=============================================================================
