------------------------------- MODULE Routes -------------------------------
(***************************************************************************)
(* The route of an active delivery.  Every poll of the rider's and the     *)
(* customer's apps asks for it; the service answers from the order's       *)
(* session while that is good, and asks Google when it is not, at most one *)
(* call for an order and destination at a time, within cooldowns, budgets  *)
(* and a pool of slots.  Other requests wait for the call in flight.       *)
(***************************************************************************)
EXTENDS Integers, FiniteSets

CONSTANTS
  RouteOrders,       \* orders, each with the rider who has it
  MaxAsks,           \* bound on the requests; they are numbered as they arrive
  MaxPlace,          \* bound on corrections of a destination's coordinates
  MaxClock,          \* bound on the time, in units of the shortest cooldown
  HoldLimit,         \* age at which a route is calculated anew (15 min)
  Cooldown,          \* pause after a call or a failure (5 s, 30 s)
  DetourCooldown,    \* age of a route before a deviation makes a new one (45 s)
  OffSamples,        \* samples off the route that make a deviation (2)
  MaxCallsPerOrder,  \* calls for one order (8)
  WindowBudget,      \* calls in one window (30 in a minute, 2000 in a day)
  MaxConcurrent,     \* slots (4)
  MaxRetries         \* HTTP tries after the first one

ASSUME RoutesAssumption ==
  /\ {MaxAsks, MaxPlace, Cooldown, DetourCooldown, OffSamples, MaxRetries} \subseteq Nat
  /\ {MaxClock, HoldLimit, MaxCallsPerOrder, WindowBudget, MaxConcurrent} \subseteq Nat \ {0}

VARIABLES
  leg,        \* which way each delivery goes, as GetActiveOrder tells it
  place,      \* the coordinates that leads to, numbered as they are corrected
  clock,
  session,    \* the route kept for each order
  inflight,   \* the request whose call serves an order and a destination
  attempt,    \* when the last call for them was admitted
  failure,    \* when the last one failed, if it was the last
  calls,      \* calls admitted for each order
  window,     \* start of the window and calls admitted in it
  slots,      \* slots taken
  ask         \* what each request is doing

deliveryVars == <<leg, place>>
serviceVars == <<session, inflight, attempt, failure, calls, window, slots>>
routeVars == <<deliveryVars, clock, serviceVars, ask>>

Asks == 1 .. MaxAsks
Places == 0 .. MaxPlace
Kinds == {"pickup", "drop"}
Never == 0          \* a time before every other one: the clock starts at 1
NoCall == 0
NoRoute == [by |-> 0]
NotAsked == [step |-> "new"]
Failed == [answer |-> "failed"]
RouteSteps == {"new", "evaluate", "refresh", "forget", "call", "store", "await", "answered"}
RouteOf == [by : Asks, kind : Kinds, place : Places, at : 1 .. MaxClock]
Bare(s) == [by |-> s.by, kind |-> s.kind, place |-> s.place, at |-> s.at]

RoutesTypeOK ==
  /\ leg \in [RouteOrders -> Kinds \cup {"over"}] /\ place \in [RouteOrders -> Places]
  /\ clock \in 1 .. MaxClock
  /\ \A o \in RouteOrders : session[o] # NoRoute => Bare(session[o]) \in RouteOf
                                                      /\ session[o].streak \in 0 .. OffSamples
  /\ inflight \in [RouteOrders \X Kinds -> Asks \cup {NoCall}]
  /\ attempt \in [RouteOrders \X Kinds -> 0 .. MaxClock]
  /\ failure \in [RouteOrders \X Kinds -> 0 .. MaxClock]
  /\ calls \in [RouteOrders -> 0 .. MaxCallsPerOrder]
  /\ window \in [start : 0 .. MaxClock, count : 0 .. WindowBudget]
  /\ slots \in 0 .. MaxConcurrent
  /\ \A q \in Asks : /\ ask[q].step \in RouteSteps
                     /\ ask[q].step = "answered" =>
                          ask[q].route \in [kind : Kinds, place : Places, at : 1 .. MaxClock] \cup {Failed}

RoutesInit ==
  /\ leg = [o \in RouteOrders |-> "pickup"]
  /\ place = [o \in RouteOrders |-> 0]
  /\ clock = 1
  /\ session = [o \in RouteOrders |-> NoRoute]
  /\ inflight = [p \in RouteOrders \X Kinds |-> NoCall]
  /\ attempt = [p \in RouteOrders \X Kinds |-> Never]
  /\ failure = [p \in RouteOrders \X Kinds |-> Never]
  /\ calls = [o \in RouteOrders |-> 0]
  /\ window = [start |-> Never, count |-> 0]
  /\ slots = 0
  /\ ask = [q \in Asks |-> NotAsked]

-----------------------------------------------------------------------------
(* The deliveries and the time. *)
LegEnds(o) ==
  /\ leg[o] # "over"
  /\ leg' = [leg EXCEPT ![o] = IF @ = "pickup" THEN "drop" ELSE "over"]
  /\ UNCHANGED <<place, clock, serviceVars, ask>>

PlaceCorrected(o) ==
  /\ leg[o] # "over" /\ place[o] < MaxPlace
  /\ place' = [place EXCEPT ![o] = @ + 1]
  /\ UNCHANGED <<leg, clock, serviceVars, ask>>

RouteTick ==
  /\ clock < MaxClock
  /\ clock' = clock + 1
  /\ UNCHANGED <<deliveryVars, serviceVars, ask>>

-----------------------------------------------------------------------------
Forgotten(o) == session' = [session EXCEPT ![o] = NoRoute]
Since(t, now) == now - t
Expired(s, now) == Since(s.at, now) >= HoldLimit

(* What a request knows: its order, where the delivery led and what time   *)
(* it was; the call it makes or shares; why it needs another route than    *)
(* the one there was; how its call goes.                                   *)
Asked(o) == [step |-> "evaluate", order |-> o, kind |-> leg[o], place |-> place[o],
             now |-> clock, from |-> NoCall, why |-> "", existing |-> NoRoute,
             tries |-> 0, ok |-> FALSE]

Answered(a, what) == IF what = Failed THEN [step |-> "answered", route |-> Failed]
                     ELSE [step |-> "answered", kind |-> a.kind, place |-> a.place, now |-> a.now,
                           from |-> a.from,
                           route |-> [kind |-> what.kind, place |-> what.place, at |-> what.at]]
Answer(q, what) == ask' = [ask EXCEPT ![q] = Answered(@, what)]

(* The active order is read, and with it where the route must lead. *)
AsksRoute(q, o) ==
  /\ ask[q] = NotAsked
  /\ \A earlier \in 1 .. q - 1 : ask[earlier] # NotAsked
  /\ IF leg[o] = "over"
     THEN /\ Forgotten(o)
          /\ ask' = [ask EXCEPT ![q] = [step |-> "answered", route |-> Failed]]
     ELSE /\ ask' = [ask EXCEPT ![q] = Asked(o)]
          /\ UNCHANGED session
  /\ UNCHANGED <<deliveryVars, clock, inflight, attempt, failure, calls, window, slots>>

Reason(s, a) ==
  CASE s = NoRoute -> "no_route"
    [] s # NoRoute /\ s.kind # a.kind -> "phase_change"
    [] s # NoRoute /\ s.kind = a.kind /\ s.place # a.place -> "destination_changed"
    [] s # NoRoute /\ s.kind = a.kind /\ s.place = a.place /\ Expired(s, a.now) -> "expired"
    [] OTHER -> ""

Strayed(s, now) == s.streak >= OffSamples /\ Since(s.at, now) >= DetourCooldown

Samples == {"seen", "on", "off"}
Counted(s, sample) == CASE sample = "seen" -> s
                        [] sample = "on" -> [s EXCEPT !.streak = 0]
                        [] sample = "off" -> [s EXCEPT !.streak = IF @ < OffSamples THEN @ + 1 ELSE @]

(* Once a minute the table is swept of what is past the hold limit, and of  *)
(* the oldest routes while there are 5000, which depends on orders not     *)
(* followed here and may hit any.                                          *)
Swept(kept) ==
  \E evicted \in SUBSET RouteOrders :
    session' = [p \in RouteOrders |-> IF p \in evicted THEN NoRoute ELSE kept[p]]

(* The session is taken; a position not seen before counts for or against  *)
(* a deviation.                                                            *)
EvaluatesWith(q, reason, sample) ==
  LET o == ask[q].order
      now == ask[q].now
      s == session[o]
      counted == IF reason = "" THEN Counted(s, sample) ELSE s
      why == IF reason = "" /\ Strayed(counted, now) THEN "off_route" ELSE reason IN
  /\ ask[q].step = "evaluate"
  /\ Swept([session EXCEPT ![o] = counted])
  /\ IF why = "" THEN Answer(q, Bare(s))
     ELSE ask' = [ask EXCEPT ![q].step = "refresh", ![q].why = why,
                             ![q].existing = IF s = NoRoute THEN NoRoute ELSE Bare(s)]
  /\ UNCHANGED <<deliveryVars, clock, inflight, attempt, failure, calls, window, slots>>

EvaluatesIgnoringPhase(q, sample) ==
  LET why == Reason(session[ask[q].order], ask[q]) IN
  EvaluatesWith(q, IF why = "phase_change" THEN "" ELSE why, sample)

Evaluates(q, sample) == EvaluatesWith(q, Reason(session[ask[q].order], ask[q]), sample)

-----------------------------------------------------------------------------
(* Cooldowns and budgets; a window that has passed counts from zero.       *)
WindowNow == IF window.start = Never \/ Since(window.start, clock) >= 1
             THEN [start |-> clock, count |-> 0] ELSE window

Cooled(p) == /\ failure[p] # Never => Since(failure[p], clock) >= Cooldown
             /\ attempt[p] # Never => Since(attempt[p], clock) >= Cooldown

Admits(p) == /\ Cooled(p)
             /\ calls[p[1]] < MaxCallsPerOrder
             /\ WindowNow.count < WindowBudget
             /\ slots < MaxConcurrent

Replaced(a) ==
  LET s == session[a.order] IN
  /\ s # NoRoute /\ s.by # a.existing.by
  /\ s.kind = a.kind /\ s.place = a.place

(* Under the lock: wait for a call in flight, take the route another       *)
(* request has just stored, be refused, or become the one that calls.      *)
JoinsCall(q) ==
  LET a == ask[q] IN
  /\ ask' = [ask EXCEPT ![q].step = "await", ![q].from = inflight[<<a.order, a.kind>>]]
  /\ UNCHANGED <<session, inflight, attempt, calls, window, slots>>

TakesReplaced(q) ==
  /\ Answer(q, Bare(session[ask[q].order]))
  /\ UNCHANGED <<session, inflight, attempt, calls, window, slots>>

(* Only a deviation falls back on the route there is.  A window that has   *)
(* passed is reset even if a later test refuses.                           *)
Refused(q) ==
  LET a == ask[q]
      p == <<a.order, a.kind>> IN
  /\ CASE a.why = "off_route" -> Answer(q, a.existing)
       [] a.why = "expired" -> ask' = [ask EXCEPT ![q].step = "forget"]
       [] OTHER -> Answer(q, Failed)
  /\ window' = IF Cooled(p) /\ calls[a.order] < MaxCallsPerOrder THEN WindowNow ELSE window
  /\ UNCHANGED <<session, inflight, attempt, calls, slots>>

Admitted(q) ==
  LET a == ask[q]
      p == <<a.order, a.kind>> IN
  /\ attempt' = [attempt EXCEPT ![p] = clock]
  /\ calls' = [calls EXCEPT ![a.order] = @ + 1]
  /\ window' = [WindowNow EXCEPT !.count = @ + 1]
  /\ slots' = slots + 1
  /\ inflight' = [inflight EXCEPT ![p] = q]
  /\ ask' = [ask EXCEPT ![q].step = "call", ![q].from = q]
  /\ UNCHANGED session

RefreshesAlone(q) ==
  LET a == ask[q] IN
  /\ a.step = "refresh"
  /\ IF Replaced(a) THEN TakesReplaced(q)
     ELSE IF Admits(<<a.order, a.kind>>) THEN Admitted(q) ELSE Refused(q)
  /\ UNCHANGED <<deliveryVars, clock, failure>>

Refreshes(q) ==
  LET a == ask[q]
      p == <<a.order, a.kind>> IN
  /\ a.step = "refresh"
  /\ IF inflight[p] # NoCall THEN JoinsCall(q)
     ELSE IF Replaced(a) THEN TakesReplaced(q)
     ELSE IF Admits(p) THEN Admitted(q) ELSE Refused(q)
  /\ UNCHANGED <<deliveryVars, clock, failure>>

(* The expired route is dropped once the lock was given back. *)
Forgets(q) ==
  /\ ask[q].step = "forget"
  /\ Forgotten(ask[q].order)
  /\ Answer(q, Failed)
  /\ UNCHANGED <<deliveryVars, clock, inflight, attempt, failure, calls, window, slots>>

-----------------------------------------------------------------------------
(* One HTTP try.  An answer of 429, 500, 502, 503 or 504 is busy and tried *)
(* again, unless it names a pause of more than a second; everything else   *)
(* that is not a route ends the call, an answer lost on the way among it.  *)
(* (What Google charges for a try is not known to the code, nor modelled.) *)
TryResults == {"ok", "busy", "refused"}

TriesAgain(q) ==
  /\ ask' = [ask EXCEPT ![q].tries = @ + 1]
  /\ UNCHANGED slots

EndsCall(q, result) ==
  /\ ask' = [ask EXCEPT ![q].step = "store", ![q].ok = (result = "ok"), ![q].tries = 0]
  /\ slots' = slots - 1

Calls(q, result) ==
  /\ ask[q].step = "call"
  /\ IF result = "busy" /\ ask[q].tries < MaxRetries
     THEN TriesAgain(q) ELSE EndsCall(q, result)
  /\ UNCHANGED <<deliveryVars, clock, session, inflight, attempt, failure, calls, window>>

(* done is closed: the request goes on, and with it those that wait.       *)
Closes(q, what, own) ==
  ask' = [w \in Asks |->
            IF w = q THEN Answered(ask[q], own)
            ELSE IF ask[w].step = "await" /\ ask[w].from = q THEN Answered(ask[w], what)
            ELSE ask[w]]

Made(q) == [by |-> q, kind |-> ask[q].kind, place |-> ask[q].place, at |-> clock]
Kept(q) == [by |-> q, kind |-> ask[q].kind, place |-> ask[q].place, at |-> clock, streak |-> 0]
Own(a) == IF a.why = "off_route" THEN a.existing ELSE Failed

StoresWith(q, closes) ==
  LET a == ask[q]
      p == <<a.order, a.kind>> IN
  /\ a.step = "store"
  /\ inflight' = [inflight EXCEPT ![p] = NoCall]
  /\ IF a.ok
     THEN /\ session' = [session EXCEPT ![a.order] = Kept(q)]
          /\ failure' = [failure EXCEPT ![p] = Never]
     ELSE /\ failure' = [failure EXCEPT ![p] = clock]
          /\ UNCHANGED session
  /\ closes
  /\ UNCHANGED <<deliveryVars, clock, attempt, calls, window, slots>>

(* A call that failed leaves without waking those that wait.               *)
StoresQuietly(q) ==
  StoresWith(q, IF ask[q].ok THEN Closes(q, Made(q), Made(q)) ELSE Answer(q, Own(ask[q])))

(* The entry goes, whatever came of the call; a route is kept as the       *)
(* order's, a failure starts the cooldown.                                 *)
Stores(q) ==
  StoresWith(q, IF ask[q].ok THEN Closes(q, Made(q), Made(q))
                ELSE Closes(q, Failed, Own(ask[q])))

(* The client went away while its request waited. *)
StopsWaiting(q) ==
  /\ ask[q].step = "await"
  /\ Answer(q, Failed)
  /\ UNCHANGED <<deliveryVars, clock, serviceVars>>

Proceeds(q) ==
  \/ \E sample \in Samples : Evaluates(q, sample)
  \/ Refreshes(q)
  \/ Forgets(q)
  \/ \E result \in TryResults : Calls(q, result)
  \/ Stores(q)

RoutesNext ==
  \/ \E o \in RouteOrders : \/ LegEnds(o)
                            \/ PlaceCorrected(o)
                            \/ \E q \in Asks : AsksRoute(q, o)
  \/ RouteTick
  \/ \E q \in Asks : Proceeds(q) \/ StopsWaiting(q)

(* Every request has a goroutine, and every HTTP try a timeout. *)
RoutesFairness == \A q \in Asks : WF_routeVars(Proceeds(q))
RoutesSpec == RoutesInit /\ [][RoutesNext]_routeVars /\ RoutesFairness

-----------------------------------------------------------------------------
(* A slot is taken exactly while a call runs, and a request in flight is   *)
(* found exactly while its call runs or is being stored: no slot is lost   *)
(* to a failure, and no two calls for one order and destination overlap.   *)
CallsAccounted ==
  /\ slots = Cardinality({q \in Asks : ask[q].step = "call"})
  /\ \A p \in RouteOrders \X Kinds :
       {q \in Asks : ask[q].step \in {"call", "store"} /\ <<ask[q].order, ask[q].kind>> = p}
         = {inflight[p]} \ {NoCall}

(* The route a client is given leads where its delivery went when it       *)
(* asked: never the pickup leg instead of the drop, nor a route past the   *)
(* hold limit.  Only the call of another request may lead to coordinates   *)
(* that were corrected between the two.                                    *)
LeadsWhereAsked ==
  \A q \in Asks :
    ask[q].step = "answered" /\ ask[q].route # Failed =>
      LET a == ask[q] IN
      /\ a.route.kind = a.kind
      /\ a.now - a.route.at < HoldLimit
      /\ \/ a.route.place = a.place
         \/ a.from \in Asks \ {q}

(* Every request is answered, whether it called, waited or was refused:    *)
(* again and again, none is left waiting.                                  *)
EveryAskAnswered ==
  []<>(\A q \in Asks : ask[q].step \in {"new", "answered"})
=============================================================================
