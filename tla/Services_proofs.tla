--------------------------- MODULE Services_proofs ---------------------------
(***************************************************************************)
(* Theorems about the services around the deliveries.  Routes: for any     *)
(* orders, requests and budgets, one call at a time is made for an order   *)
(* and destination, no slot is lost, and a route leads where its request   *)
(* asked.  Chat: for any riders, requests and number of messages, threads  *)
(* stay apart, a message is stored and told once, and a reader skips       *)
(* nothing on the way to his cursor.  Hub: for any channels and            *)
(* connections, a send reaches every listener once unless one leaves the   *)
(* channel meanwhile, and meets no empty place.  Push: for any pushes,     *)
(* devices and slots, no slot is lost, the mutex is held by the push that  *)
(* mints, and only retired devices are forgotten.                          *)
(***************************************************************************)
EXTENDS Routes, Chat, Hub, Push, FiniteSetTheorems, WellFoundedInduction, TLAPS

-----------------------------------------------------------------------------
(* Routes.  What a request is doing, as a set.                             *)

Bares == [by : Asks, kind : Kinds, place : Nat, at : Nat]
Sessions == [by : Asks, kind : Kinds, place : Nat, at : Nat, streak : Nat]
Ways == [kind : Kinds, place : Nat, at : Nat]
Whys == {"", "no_route", "phase_change", "destination_changed", "expired", "off_route"}
UnderWay == {"evaluate", "refresh", "forget", "call", "store", "await"}

OpenAsks ==
  [step : UnderWay, order : RouteOrders, kind : Kinds, place : Nat, now : Nat,
   from : Asks \cup {NoCall}, why : Whys, existing : Bares \cup {NoRoute},
   tries : Nat, ok : BOOLEAN]

Replies ==
  [step : {"answered"}, route : {Failed}]
  \cup [step : {"answered"}, kind : Kinds, place : Nat, now : Nat,
        from : Asks \cup {NoCall}, route : Ways]

RoutesTyped ==
  /\ leg \in [RouteOrders -> Kinds \cup {"over"}]
  /\ place \in [RouteOrders -> Nat]
  /\ clock \in Nat
  /\ session \in [RouteOrders -> Sessions \cup {NoRoute}]
  /\ inflight \in [RouteOrders \X Kinds -> Asks \cup {NoCall}]
  /\ slots \in Nat
  /\ ask \in [Asks -> {NotAsked} \cup OpenAsks \cup Replies]

(* The inductive invariant.                                                *)

InCall == {"call", "store"}
Callers == {q \in Asks : ask[q].step = "call"}

\* The table of the calls in flight says who makes them.
FlightsKnown ==
  \A o \in RouteOrders, k \in Kinds, q \in Asks :
    inflight[<<o, k>>] = q <=>
      ask[q].step \in InCall /\ ask[q].order = o /\ ask[q].kind = k

\* A request began before now, and may fall back on a route that was good when
\* it began.
Sound(a, now) ==
  /\ a.now <= now
  /\ a.why = "off_route" => /\ a.existing \in Bares
                            /\ a.existing.kind = a.kind /\ a.existing.place = a.place
                            /\ a.now - a.existing.at < HoldLimit

\* A route other than the one there was is younger than the request.
Younger(a, s) == s # NoRoute /\ s.by # a.existing.by => s.at >= a.now

\* Who waits, waits for a call with his destination.
Shares(a, all) ==
  /\ a.from \in Asks
  /\ all[a.from].step \in InCall
  /\ all[a.from].kind = a.kind

\* LeadsWhereAsked, for one answer.
Leads(q, a) ==
  a.route # Failed =>
    /\ a.route.kind = a.kind
    /\ a.now - a.route.at < HoldLimit
    /\ \/ a.route.place = a.place
       \/ a.from \in Asks \ {q}

RequestsSound ==
  \A q \in Asks :
    /\ ask[q].step \in UnderWay => Sound(ask[q], clock)
    /\ ask[q].step = "refresh" => Younger(ask[q], session[ask[q].order])
    /\ ask[q].step = "await" => Shares(ask[q], ask)
    /\ ask[q].step = "answered" => Leads(q, ask[q])

RoutesInv ==
  /\ RoutesTyped
  /\ slots = Cardinality(Callers)
  /\ FlightsKnown
  /\ RequestsSound

-----------------------------------------------------------------------------
\* What is under way is a record of all its fields.
LEMMA AskTyped ==
  ASSUME RoutesTyped, NEW q \in Asks
  PROVE  /\ ask[q].step \in UnderWay => ask[q] \in OpenAsks
         /\ ask[q] = NotAsked => ask[q].step = "new"
<1>1. ask[q] \in {NotAsked} \cup OpenAsks \cup Replies
  BY DEF RoutesTyped
<1>2. NotAsked.step = "new"
  BY DEF NotAsked
<1>3. ask[q] \in Replies => ask[q].step = "answered"
  BY DEF Replies
<1> QED BY <1>1, <1>2, <1>3 DEF UnderWay

\* Requests are numbered from one: none is the absence of a call.
LEMMA AsksNumbered ==
  /\ NoCall \notin Asks
  /\ IsFiniteSet(Asks)
<1>1. MaxAsks \in Nat
  BY RoutesAssumption
<1> QED BY <1>1, FS_Interval DEF Asks, NoCall

\* The moves of one request that neither begin nor end a call.
LEMMA QuietMove ==
  ASSUME RoutesInv, NEW q \in Asks, NEW a \in OpenAsks \cup Replies,
         ask' = [ask EXCEPT ![q] = a],
         ask[q].step \notin InCall, a.step \notin InCall,
         a.step \in UnderWay => Sound(a, clock),
         a.step = "refresh" => Younger(a, session'[a.order]),
         a.step = "await" => Shares(a, ask),
         a.step = "answered" => Leads(q, a),
         UNCHANGED <<deliveryVars, clock, inflight, slots>>,
         session' \in [RouteOrders -> Sessions \cup {NoRoute}],
         \A o \in RouteOrders :
           session'[o] = NoRoute \/ /\ session'[o].by = session[o].by
                                    /\ session'[o].at = session[o].at
                                    /\ session[o] # NoRoute
  PROVE  RoutesInv'
<1>1. \A u \in Asks : ask'[u] = IF u = q THEN a ELSE ask[u]
  BY DEF RoutesInv, RoutesTyped
<1>2. RoutesTyped'
  BY DEF RoutesInv, RoutesTyped, deliveryVars
<1>3. Callers' = Callers
  BY <1>1 DEF Callers, InCall
<1>4. FlightsKnown'
  <2> SUFFICES ASSUME NEW o \in RouteOrders, NEW k \in Kinds, NEW u \in Asks
               PROVE  inflight'[<<o, k>>] = u <=>
                        ask'[u].step \in InCall /\ ask'[u].order = o /\ ask'[u].kind = k
    BY DEF FlightsKnown
  <2>1. inflight[<<o, k>>] = u <=>
          ask[u].step \in InCall /\ ask[u].order = o /\ ask[u].kind = k
    BY DEF RoutesInv, FlightsKnown
  <2>2. CASE u = q
    BY <1>1, <2>1, <2>2
  <2>3. CASE u # q
    BY <1>1, <2>1, <2>3
  <2> QED BY <2>2, <2>3
<1>5. RequestsSound'
  <2> SUFFICES ASSUME NEW u \in Asks
               PROVE  /\ ask'[u].step \in UnderWay => Sound(ask'[u], clock)
                      /\ ask'[u].step = "refresh" => Younger(ask'[u], session'[ask'[u].order])
                      /\ ask'[u].step = "await" => Shares(ask'[u], ask')
                      /\ ask'[u].step = "answered" => Leads(u, ask'[u])
    BY DEF RequestsSound
  <2>1. CASE u = q
    <3>1. a.step = "await" => Shares(a, ask')
      BY <1>1 DEF Shares
    <3> QED BY <1>1, <2>1, <3>1
  <2>2. CASE u # q
    <3>1. ask'[u] = ask[u]
      BY <1>1, <2>2
    <3>2. ask[u].step = "await" => Shares(ask[u], ask')
      BY <1>1 DEF RoutesInv, RequestsSound, Shares
    <3>3. ask[u].step = "refresh" => Younger(ask[u], session'[ask[u].order])
      <4> SUFFICES ASSUME ask[u].step = "refresh"
                   PROVE  Younger(ask[u], session'[ask[u].order])
        OBVIOUS
      <4>1. ask[u].order \in RouteOrders
        BY AskTyped DEF RoutesInv, UnderWay, OpenAsks
      <4>2. Younger(ask[u], session[ask[u].order])
        BY DEF RoutesInv, RequestsSound
      <4> QED BY <4>1, <4>2 DEF Younger
    <3> QED BY <3>1, <3>2, <3>3 DEF RoutesInv, RequestsSound
  <2> QED BY <2>1, <2>2
<1> QED BY <1>2, <1>3, <1>4, <1>5 DEF RoutesInv

\* A failed answer leads nowhere.
LEMMA FailedAnswers ==
  ASSUME NEW q \in Asks
  PROVE  LET a == [step |-> "answered", route |-> Failed] IN
         a \in Replies /\ a.step = "answered" /\ Leads(q, a)
BY DEF Replies, Leads

\* An answer that fails, or leads where the request asked.
LEMMA AnswersSound ==
  ASSUME NEW q \in Asks, NEW a \in OpenAsks, NEW w,
         w # Failed => /\ w \in Bares /\ w.kind = a.kind
                       /\ a.now - w.at < HoldLimit
                       /\ w.place = a.place \/ a.from \in Asks \ {q}
  PROVE  /\ Answered(a, w) \in Replies /\ Answered(a, w).step = "answered"
         /\ Leads(q, Answered(a, w))
<1>1. CASE w = Failed
  BY <1>1, FailedAnswers DEF Answered
<1>2. CASE w # Failed
  <2> DEFINE way == [kind |-> w.kind, place |-> w.place, at |-> w.at]
             b == [step |-> "answered", kind |-> a.kind, place |-> a.place, now |-> a.now,
                   from |-> a.from, route |-> way]
  <2>1. Answered(a, w) = b
    BY <1>2 DEF Answered
  <2>2. way \in Ways /\ way.kind = w.kind /\ way.place = w.place /\ way.at = w.at
    BY <1>2 DEF Ways, Bares
  <2> HIDE DEF way
  <2>3. b \in Replies
    BY <2>2 DEF Replies, OpenAsks
  <2>4. /\ b.step = "answered" /\ b.kind = a.kind /\ b.place = a.place /\ b.now = a.now
        /\ b.from = a.from /\ b.route = way
    OBVIOUS
  <2> HIDE DEF b
  <2>5. Leads(q, b)
    BY <1>2, <2>2, <2>4 DEF Leads
  <2> QED BY <2>1, <2>3, <2>4, <2>5
<1> QED BY <1>1, <1>2

\* A request begins, or is told at once that there is no delivery.
LEMMA AsksKeeps ==
  ASSUME RoutesInv, NEW q \in Asks, NEW o \in RouteOrders, AsksRoute(q, o)
  PROVE  RoutesInv'
<1>1. /\ ask[q] = NotAsked
      /\ UNCHANGED <<deliveryVars, clock, inflight, slots>>
  BY DEF AsksRoute
<1>2. ask[q].step \notin InCall
  BY <1>1, AskTyped DEF RoutesInv, InCall
<1>3. CASE leg[o] = "over"
  <2> DEFINE a == [step |-> "answered", route |-> Failed]
  <2>1. /\ session' = [session EXCEPT ![o] = NoRoute]
        /\ ask' = [ask EXCEPT ![q] = a]
    BY <1>3 DEF AsksRoute, Forgotten
  <2>2. a \in Replies /\ a.step = "answered" /\ Leads(q, a)
    BY FailedAnswers
  <2> HIDE DEF a
  <2>3. /\ session' \in [RouteOrders -> Sessions \cup {NoRoute}]
        /\ \A p \in RouteOrders : session'[p] = NoRoute \/ session'[p] = session[p]
    BY <2>1 DEF RoutesInv, RoutesTyped
  <2> QED BY <1>1, <1>2, <2>1, <2>2, <2>3, QuietMove DEF UnderWay, InCall
<1>4. CASE leg[o] # "over"
  <2> DEFINE a == Asked(o)
  <2>1. ask' = [ask EXCEPT ![q] = a] /\ UNCHANGED session
    BY <1>4 DEF AsksRoute
  <2>2. leg[o] \in Kinds /\ place[o] \in Nat /\ clock \in Nat
    BY <1>4 DEF RoutesInv, RoutesTyped
  <2>3. a.step = "evaluate" /\ a.now = clock /\ a.why = ""
    BY DEF Asked
  <2>6. a \in OpenAsks
    BY <2>2 DEF Asked, OpenAsks, UnderWay, Whys
  <2> HIDE DEF a
  <2>4. Sound(a, clock)
    <3>1. a.now = clock /\ clock \in Nat
      BY <2>2, <2>3
    <3>2. a.now <= clock
      BY <3>1
    <3> QED BY <2>3, <3>2 DEF Sound
  <2>5. session' \in [RouteOrders -> Sessions \cup {NoRoute}]
    BY <2>1 DEF RoutesInv, RoutesTyped
  <2> QED BY <1>1, <1>2, <2>1, <2>3, <2>4, <2>5, <2>6, QuietMove DEF UnderWay, InCall
<1> QED BY <1>3, <1>4

\* Counting a sample changes nothing else of the route.
LEMMA CountedTyped ==
  ASSUME NEW s \in Sessions, NEW sample \in Samples
  PROVE  LET c == Counted(s, sample) IN
         /\ c \in Sessions /\ c.by = s.by /\ c.at = s.at
<1>1. CASE sample = "seen"
  BY <1>1 DEF Counted
<1>2. CASE sample = "on"
  BY <1>2 DEF Counted, Sessions
<1>3. CASE sample = "off"
  <2>1. Counted(s, sample) =
          [s EXCEPT !.streak = IF s.streak < OffSamples THEN s.streak + 1 ELSE s.streak]
    BY <1>3 DEF Counted
  <2> QED BY <2>1 DEF Sessions
<1> QED BY <1>1, <1>2, <1>3 DEF Samples

\* The route of the session, as it is told to a client.
LEMMA BareTyped ==
  ASSUME NEW s \in Sessions
  PROVE  /\ Bare(s) \in Bares /\ Bare(s).by = s.by /\ Bare(s).kind = s.kind
         /\ Bare(s).place = s.place /\ Bare(s).at = s.at
BY DEF Bare, Bares, Sessions

\* A route is held for some time.
LEMMA HoldTyped == HoldLimit \in Nat /\ HoldLimit > 0
BY RoutesAssumption

\* A route is held, or has expired.
LEMMA NotHeld ==
  ASSUME NEW now \in Nat, NEW at \in Nat, ~(now - at >= HoldLimit)
  PROVE  now - at < HoldLimit
BY HoldTyped

\* What is no older than the request is held.
LEMMA HeldWhenYounger ==
  ASSUME NEW now \in Nat, NEW at \in Nat, at >= now
  PROVE  now - at < HoldLimit
BY HoldTyped

\* Nothing speaks against a route that has the destination and is not old.
LEMMA NoReason ==
  ASSUME NEW s \in Sessions \cup {NoRoute}, NEW a \in OpenAsks, Reason(s, a) = ""
  PROVE  /\ s \in Sessions /\ s # NoRoute /\ s.kind = a.kind /\ s.place = a.place
         /\ a.now - s.at < HoldLimit
<1>1. s # NoRoute /\ s.kind = a.kind /\ s.place = a.place
  BY DEF Reason, Expired, Since
<1>2. s \in Sessions
  BY <1>1
<1>3. s.at \in Nat /\ a.now \in Nat
  BY <1>2 DEF Sessions, OpenAsks
<1>4. ~(a.now - s.at >= HoldLimit)
  BY DEF Reason, Expired, Since
<1>5. a.now - s.at < HoldLimit
  BY <1>3, <1>4, NotHeld
<1> QED BY <1>1, <1>2, <1>5

\* The reasons for another route are these; a deviation is none of them.
LEMMA ReasonTyped ==
  ASSUME NEW s, NEW a
  PROVE  Reason(s, a) \in Whys \ {"off_route"} /\ (s = NoRoute => Reason(s, a) = "no_route")
BY DEF Reason, Whys

\* A request is answered from the session, or will need another route.
LEMMA EvaluatesKeeps ==
  ASSUME RoutesInv, NEW q \in Asks, NEW sample \in Samples, Evaluates(q, sample)
  PROVE  RoutesInv'
<1> DEFINE a == ask[q]
           o == a.order
           s == session[o]
           reason == Reason(s, a)
           counted == IF reason = "" THEN Counted(s, sample) ELSE s
           why == IF reason = "" /\ Strayed(counted, a.now) THEN "off_route" ELSE reason
           e == IF s = NoRoute THEN NoRoute ELSE Bare(s)
           b == [a EXCEPT !.step = "refresh", !.why = why, !.existing = e]
<1>1. /\ a.step = "evaluate"
      /\ Swept([session EXCEPT ![o] = counted])
      /\ UNCHANGED <<deliveryVars, clock, inflight, slots>>
  BY DEF Evaluates, EvaluatesWith
<1>2. \/ why = "" /\ ask' = [ask EXCEPT ![q] = Answered(a, Bare(s))]
      \/ why # "" /\ ask' = [ask EXCEPT ![q] = b]
  BY DEF Evaluates, EvaluatesWith, Answer
<1>3. a \in OpenAsks /\ o \in RouteOrders /\ s \in Sessions \cup {NoRoute}
  BY <1>1, AskTyped DEF RoutesInv, RoutesTyped, UnderWay, OpenAsks
<1>4. Sound(a, clock)
  BY <1>1 DEF RoutesInv, RequestsSound, UnderWay
<1>5. a.step \notin InCall
  BY <1>1 DEF InCall
<1>6. reason \in Whys \ {"off_route"} /\ (s = NoRoute => reason = "no_route")
  BY ReasonTyped
<1>7. reason = "" => /\ s \in Sessions /\ s # NoRoute /\ s.kind = a.kind
                     /\ s.place = a.place /\ a.now - s.at < HoldLimit
  BY <1>3, NoReason
<1>8. /\ counted \in Sessions \cup {NoRoute} /\ counted.by = s.by /\ counted.at = s.at
      /\ s = NoRoute => counted = NoRoute
  <2>1. CASE reason = ""
    <3>1. s \in Sessions /\ counted = Counted(s, sample)
      BY <1>3, <1>7, <2>1
    <3> QED BY <1>7, <2>1, <3>1, CountedTyped
  <2>2. CASE reason # ""
    BY <1>3, <2>2
  <2> QED BY <2>1, <2>2
<1>9. /\ why \in Whys
      /\ why = "" \/ why = "off_route" => reason = ""
  BY <1>6 DEF Whys
<1>10. s # NoRoute => /\ Bare(s) \in Bares /\ Bare(s).by = s.by /\ Bare(s).kind = s.kind
                     /\ Bare(s).place = s.place /\ Bare(s).at = s.at
  BY <1>3, BareTyped
<1> HIDE DEF counted, why, reason
<1>11. PICK evicted \in SUBSET RouteOrders :
         session' = [p \in RouteOrders |-> IF p \in evicted THEN NoRoute
                                           ELSE [session EXCEPT ![o] = counted][p]]
  BY <1>1 DEF Swept
<1>12. \A p \in RouteOrders :
         session'[p] = NoRoute \/ session'[p] = IF p = o THEN counted ELSE session[p]
  BY <1>3, <1>11 DEF RoutesInv, RoutesTyped
<1>13. session' \in [RouteOrders -> Sessions \cup {NoRoute}]
  BY <1>8, <1>11, <1>12 DEF RoutesInv, RoutesTyped
<1>14. \A p \in RouteOrders :
         session'[p] = NoRoute \/ /\ session'[p].by = session[p].by
                                  /\ session'[p].at = session[p].at
                                  /\ session[p] # NoRoute
  BY <1>8, <1>12
<1>15. CASE why = ""
  <2>1. Bare(s) # Failed => /\ Bare(s) \in Bares /\ Bare(s).kind = a.kind
                            /\ a.now - Bare(s).at < HoldLimit
                            /\ Bare(s).place = a.place \/ a.from \in Asks \ {q}
    BY <1>7, <1>9, <1>10, <1>15
  <2>2. /\ Answered(a, Bare(s)) \in Replies /\ Answered(a, Bare(s)).step = "answered"
        /\ Leads(q, Answered(a, Bare(s)))
    BY <1>3, <2>1, AnswersSound
  <2> QED BY <1>1, <1>2, <1>5, <1>13, <1>14, <1>15, <2>2, QuietMove DEF UnderWay, InCall
<1>16. CASE why # ""
  <2>1. e \in Bares \cup {NoRoute} /\ e.by = s.by
    BY <1>10
  <2>2. /\ b.step = "refresh" /\ b.why = why /\ b.existing = e /\ b.order = o
        /\ b.now = a.now /\ b.kind = a.kind /\ b.place = a.place
    BY <1>3 DEF OpenAsks
  <2>3. b \in OpenAsks
    BY <1>3, <1>9, <2>1 DEF OpenAsks, UnderWay
  <2>4. why = "off_route" => /\ e \in Bares /\ e.kind = a.kind /\ e.place = a.place
                             /\ a.now - e.at < HoldLimit
    BY <1>7, <1>9, <1>10
  <2> HIDE DEF b, e
  <2>5. Sound(b, clock)
    BY <1>4, <2>2, <2>4 DEF Sound
  <2>6. Younger(b, session'[b.order])
    BY <1>3, <1>14, <2>1, <2>2 DEF Younger
  <2> QED BY <1>1, <1>2, <1>5, <1>13, <1>14, <1>16, <2>2, <2>3, <2>5, <2>6, QuietMove
          DEF UnderWay, InCall
<1> QED BY <1>15, <1>16

\* The moves of one request into its call, and on to its end.
LEMMA CallMove ==
  ASSUME RoutesInv, NEW q \in Asks, NEW a \in OpenAsks,
         ask' = [ask EXCEPT ![q] = a],
         a.step \in InCall, a.kind = ask[q].kind, Sound(a, clock),
         UNCHANGED <<clock, session>>
  PROVE  RequestsSound'
<1>1. \A u \in Asks : ask'[u] = IF u = q THEN a ELSE ask[u]
  BY DEF RoutesInv, RoutesTyped
<1> SUFFICES ASSUME NEW u \in Asks
             PROVE  /\ ask'[u].step \in UnderWay => Sound(ask'[u], clock)
                    /\ ask'[u].step = "refresh" => Younger(ask'[u], session[ask'[u].order])
                    /\ ask'[u].step = "await" => Shares(ask'[u], ask')
                    /\ ask'[u].step = "answered" => Leads(u, ask'[u])
  BY DEF RequestsSound
<1>2. CASE u = q
  BY <1>1, <1>2 DEF InCall
<1>3. CASE u # q
  <2>1. ask[u].step = "await" => Shares(ask[u], ask')
    BY <1>1 DEF RoutesInv, RequestsSound, Shares
  <2> QED BY <1>1, <1>3, <2>1 DEF RoutesInv, RequestsSound
<1> QED BY <1>2, <1>3

\* The table names the caller of an order and destination, if there is one.
LEMMA FlightTyped ==
  ASSUME RoutesInv, NEW o \in RouteOrders, NEW k \in Kinds
  PROVE  /\ inflight[<<o, k>>] \in Asks \cup {NoCall}
         /\ inflight[<<o, k>>] # NoCall =>
              /\ inflight[<<o, k>>] \in Asks
              /\ ask[inflight[<<o, k>>]].step \in InCall
              /\ ask[inflight[<<o, k>>]].kind = k
<1>1. inflight[<<o, k>>] \in Asks \cup {NoCall}
  BY DEF RoutesInv, RoutesTyped
<1> QED BY <1>1 DEF RoutesInv, FlightsKnown

\* A request waits for the call there is.
LEMMA JoinsKeeps ==
  ASSUME RoutesInv, NEW q \in Asks, ask[q].step = "refresh",
         inflight[<<ask[q].order, ask[q].kind>>] # NoCall, JoinsCall(q),
         UNCHANGED <<deliveryVars, clock, failure>>
  PROVE  RoutesInv'
<1> DEFINE a == ask[q]
           f == inflight[<<a.order, a.kind>>]
           b == [a EXCEPT !.step = "await", !.from = f]
<1>1. a \in OpenAsks /\ a.order \in RouteOrders /\ a.kind \in Kinds
  BY AskTyped DEF RoutesInv, UnderWay, OpenAsks
<1>2. f \in Asks /\ ask[f].step \in InCall /\ ask[f].kind = a.kind
  BY <1>1, FlightTyped
<1>3. /\ ask' = [ask EXCEPT ![q] = b]
      /\ UNCHANGED <<deliveryVars, clock, session, inflight, slots>>
  BY DEF JoinsCall
<1> HIDE DEF f
<1>4. b \in OpenAsks
  BY <1>1, <1>2 DEF OpenAsks, UnderWay
<1>5. /\ b.step = "await" /\ b.from = f /\ b.kind = a.kind /\ b.place = a.place
      /\ b.now = a.now /\ b.why = a.why /\ b.existing = a.existing
  BY <1>1 DEF OpenAsks
<1> HIDE DEF b
<1>6. Shares(b, ask)
  BY <1>2, <1>5 DEF Shares
<1>7. Sound(a, clock)
  BY DEF RoutesInv, RequestsSound, UnderWay
<1>8. Sound(b, clock)
  BY <1>5, <1>7 DEF Sound
<1>9. session' \in [RouteOrders -> Sessions \cup {NoRoute}]
  BY <1>3 DEF RoutesInv, RoutesTyped
<1>10. a.step \notin InCall /\ b.step \notin InCall
  BY <1>5 DEF InCall
<1> QED BY <1>3, <1>4, <1>5, <1>6, <1>8, <1>9, <1>10, QuietMove DEF UnderWay

\* A request that answers, with the sessions as they were or one forgotten.
LEMMA AnswerKeeps ==
  ASSUME RoutesInv, NEW q \in Asks, ask[q].step \in UnderWay \ InCall,
         NEW w, ask' = [ask EXCEPT ![q] = Answered(ask[q], w)],
         w # Failed => /\ w \in Bares /\ w.kind = ask[q].kind
                       /\ ask[q].now - w.at < HoldLimit /\ w.place = ask[q].place,
         session' \in [RouteOrders -> Sessions \cup {NoRoute}],
         \A o \in RouteOrders : session'[o] = NoRoute \/ session'[o] = session[o],
         UNCHANGED <<deliveryVars, clock, inflight, slots>>
  PROVE  RoutesInv'
<1> DEFINE b == Answered(ask[q], w)
<1>1. ask[q] \in OpenAsks
  BY AskTyped DEF RoutesInv
<1>2. b \in Replies /\ b.step = "answered" /\ Leads(q, b)
  BY <1>1, AnswersSound
<1> HIDE DEF b
<1>3. ask' = [ask EXCEPT ![q] = b]
  BY DEF b
<1>4. b.step \notin InCall /\ b.step \notin UnderWay /\ b.step \notin {"refresh", "await"}
  BY <1>2 DEF InCall, UnderWay
<1>5. ask[q].step \notin InCall
  OBVIOUS
<1> QED BY <1>2, <1>3, <1>4, <1>5, QuietMove

\* A route that replaced the one there was is younger than the request.
LEMMA TakesKeeps ==
  ASSUME RoutesInv, NEW q \in Asks, ask[q].step = "refresh",
         Replaced(ask[q]), TakesReplaced(q),
         UNCHANGED <<deliveryVars, clock, failure>>
  PROVE  RoutesInv'
<1> DEFINE a == ask[q]
           s == session[a.order]
<1>1. a \in OpenAsks /\ a.order \in RouteOrders
  BY AskTyped DEF RoutesInv, UnderWay, OpenAsks
<1>2. s # NoRoute /\ s.by # a.existing.by /\ s.kind = a.kind /\ s.place = a.place
  BY DEF Replaced
<1>3. s \in Sessions
  BY <1>1, <1>2 DEF RoutesInv, RoutesTyped
<1>4. s.at >= a.now
  BY <1>2 DEF RoutesInv, RequestsSound, Younger
<1>5. s.at \in Nat /\ a.now \in Nat
  BY <1>1, <1>3 DEF Sessions, OpenAsks
<1>6. a.now - s.at < HoldLimit
  BY <1>4, <1>5, HeldWhenYounger
<1>7. /\ ask' = [ask EXCEPT ![q] = Answered(a, Bare(s))]
      /\ UNCHANGED <<session, inflight, slots>>
  BY DEF TakesReplaced, Answer
<1>8. /\ Bare(s) \in Bares /\ Bare(s).kind = a.kind /\ Bare(s).place = a.place
      /\ a.now - Bare(s).at < HoldLimit
  BY <1>2, <1>3, <1>6, BareTyped
<1>9. session' \in [RouteOrders -> Sessions \cup {NoRoute}]
  BY <1>7 DEF RoutesInv, RoutesTyped
<1> QED BY <1>7, <1>8, <1>9, AnswerKeeps DEF UnderWay, InCall

\* A refusal leaves only a deviation with the route it deviates from.
LEMMA RefusedKeeps ==
  ASSUME RoutesInv, NEW q \in Asks, ask[q].step = "refresh", Refused(q),
         UNCHANGED <<deliveryVars, clock, failure>>
  PROVE  RoutesInv'
<1> DEFINE a == ask[q]
<1>1. a \in OpenAsks
  BY AskTyped DEF RoutesInv, UnderWay
<1>2. Sound(a, clock)
  BY DEF RoutesInv, RequestsSound, UnderWay
<1>3. UNCHANGED <<session, inflight, slots>>
  BY DEF Refused
<1>4. session' \in [RouteOrders -> Sessions \cup {NoRoute}]
  BY <1>3 DEF RoutesInv, RoutesTyped
<1>5. CASE a.why = "off_route"
  <2>1. ask' = [ask EXCEPT ![q] = Answered(a, a.existing)]
    BY <1>5 DEF Refused, Answer
  <2>2. /\ a.existing \in Bares /\ a.existing.kind = a.kind
        /\ a.existing.place = a.place /\ a.now - a.existing.at < HoldLimit
    BY <1>2, <1>5 DEF Sound
  <2> QED BY <1>3, <1>4, <2>1, <2>2, AnswerKeeps DEF UnderWay, InCall
<1>6. CASE a.why = "expired"
  <2> DEFINE b == [a EXCEPT !.step = "forget"]
  <2>1. ask' = [ask EXCEPT ![q] = b]
    BY <1>6 DEF Refused
  <2>2. b \in OpenAsks
    BY <1>1 DEF OpenAsks, UnderWay
  <2>3. b.step = "forget" /\ b.now = a.now /\ b.why = a.why
    BY <1>1 DEF OpenAsks
  <2> HIDE DEF b
  <2>4. Sound(b, clock)
    BY <1>2, <1>6, <2>3 DEF Sound
  <2>5. a.step \notin InCall /\ b.step \notin InCall
    BY <2>3 DEF InCall
  <2> QED BY <1>3, <1>4, <2>1, <2>2, <2>3, <2>4, <2>5, QuietMove
<1>7. CASE a.why \notin {"off_route", "expired"}
  <2>1. ask' = [ask EXCEPT ![q] = Answered(a, Failed)]
    BY <1>7 DEF Refused, Answer
  <2> QED BY <1>3, <1>4, <2>1, AnswerKeeps DEF UnderWay, InCall
<1> QED BY <1>5, <1>6, <1>7

\* The requests whose call runs can be counted.
LEMMA CallersFinite == IsFiniteSet(Callers) /\ Callers \subseteq Asks
BY AsksNumbered, FS_Subset DEF Callers

\* The one that becomes the caller takes a slot and is named in the table,
\* which named nobody.
LEMMA AdmittedKeeps ==
  ASSUME RoutesInv, NEW q \in Asks, ask[q].step = "refresh",
         inflight[<<ask[q].order, ask[q].kind>>] = NoCall, Admitted(q),
         UNCHANGED <<deliveryVars, clock, failure>>
  PROVE  RoutesInv'
<1> DEFINE a == ask[q]
           p == <<a.order, a.kind>>
           b == [a EXCEPT !.step = "call", !.from = q]
<1>1. a \in OpenAsks /\ a.order \in RouteOrders /\ a.kind \in Kinds
  BY AskTyped DEF RoutesInv, UnderWay, OpenAsks
<1>2. /\ ask' = [ask EXCEPT ![q] = b]
      /\ inflight' = [inflight EXCEPT ![p] = q]
      /\ slots' = slots + 1
      /\ UNCHANGED <<deliveryVars, clock, session>>
  BY DEF Admitted
<1>3. b \in OpenAsks
  BY <1>1 DEF OpenAsks, UnderWay
<1>4. /\ b.step = "call" /\ b.order = a.order /\ b.kind = a.kind /\ b.place = a.place
      /\ b.now = a.now /\ b.why = a.why /\ b.existing = a.existing
  BY <1>1 DEF OpenAsks
<1> HIDE DEF b
<1>5. Sound(a, clock)
  BY DEF RoutesInv, RequestsSound, UnderWay
<1>6. Sound(b, clock)
  BY <1>4, <1>5 DEF Sound
<1>7. RequestsSound'
  BY <1>2, <1>3, <1>4, <1>6, CallMove DEF InCall
<1>8. \A u \in Asks : ask'[u] = IF u = q THEN b ELSE ask[u]
  BY <1>2 DEF RoutesInv, RoutesTyped
<1>9. slots' = Cardinality(Callers')
  <2>1. Callers' = Callers \cup {q} /\ q \notin Callers
    BY <1>4, <1>8 DEF Callers
  <2>2. Cardinality(Callers \cup {q}) = Cardinality(Callers) + 1
    BY <2>1, CallersFinite, FS_AddElement
  <2> QED BY <1>2, <2>1, <2>2 DEF RoutesInv
<1>10. \A o \in RouteOrders, k \in Kinds :
         inflight'[<<o, k>>] = IF o = a.order /\ k = a.kind THEN q ELSE inflight[<<o, k>>]
  BY <1>1, <1>2 DEF RoutesInv, RoutesTyped
<1>11. FlightsKnown'
  <2> SUFFICES ASSUME NEW o \in RouteOrders, NEW k \in Kinds, NEW u \in Asks
               PROVE  inflight'[<<o, k>>] = u <=>
                        ask'[u].step \in InCall /\ ask'[u].order = o /\ ask'[u].kind = k
    BY DEF FlightsKnown
  <2>1. inflight[<<o, k>>] = u <=>
          ask[u].step \in InCall /\ ask[u].order = o /\ ask[u].kind = k
    BY DEF RoutesInv, FlightsKnown
  <2>2. CASE o = a.order /\ k = a.kind
    <3>1. inflight'[<<o, k>>] = q /\ inflight[<<o, k>>] = NoCall
      BY <1>10, <2>2
    <3>2. u # NoCall
      BY AsksNumbered
    <3> QED BY <1>4, <1>8, <2>1, <2>2, <3>1, <3>2 DEF InCall
  <2>3. CASE ~(o = a.order /\ k = a.kind)
    <3>1. inflight'[<<o, k>>] = inflight[<<o, k>>]
      BY <1>10, <2>3
    <3> QED BY <1>4, <1>8, <2>1, <2>3, <3>1 DEF InCall
  <2> QED BY <2>2, <2>3
<1>12. RoutesTyped'
  <2>1. inflight' \in [RouteOrders \X Kinds -> Asks \cup {NoCall}]
    BY <1>2 DEF RoutesInv, RoutesTyped
  <2>2. ask' \in [Asks -> {NotAsked} \cup OpenAsks \cup Replies]
    BY <1>2, <1>3 DEF RoutesInv, RoutesTyped
  <2>3. slots' \in Nat
    BY <1>2 DEF RoutesInv, RoutesTyped
  <2> QED BY <1>2, <2>1, <2>2, <2>3 DEF RoutesInv, RoutesTyped, deliveryVars
<1> QED BY <1>7, <1>9, <1>11, <1>12 DEF RoutesInv

\* Under the lock a request waits, takes what replaced its route, is refused or
\* becomes the caller.
LEMMA RefreshesKeeps ==
  ASSUME RoutesInv, NEW q \in Asks, Refreshes(q)
  PROVE  RoutesInv'
<1> DEFINE a == ask[q]
           p == <<a.order, a.kind>>
<1>1. /\ a.step = "refresh" /\ UNCHANGED <<deliveryVars, clock, failure>>
      /\ \/ inflight[p] # NoCall /\ JoinsCall(q)
         \/ Replaced(a) /\ TakesReplaced(q)
         \/ inflight[p] = NoCall /\ Admitted(q)
         \/ Refused(q)
  BY DEF Refreshes
<1> QED BY <1>1, JoinsKeeps, TakesKeeps, AdmittedKeeps, RefusedKeeps

\* The expired route is forgotten.
LEMMA ForgetsKeeps ==
  ASSUME RoutesInv, NEW q \in Asks, Forgets(q)
  PROVE  RoutesInv'
<1>1. /\ ask[q].step = "forget"
      /\ session' = [session EXCEPT ![ask[q].order] = NoRoute]
      /\ ask' = [ask EXCEPT ![q] = Answered(ask[q], Failed)]
      /\ UNCHANGED <<deliveryVars, clock, inflight, slots>>
  BY DEF Forgets, Forgotten, Answer
<1>2. /\ session' \in [RouteOrders -> Sessions \cup {NoRoute}]
      /\ \A o \in RouteOrders : session'[o] = NoRoute \/ session'[o] = session[o]
  BY <1>1 DEF RoutesInv, RoutesTyped
<1> QED BY <1>1, <1>2, AnswerKeeps DEF UnderWay, InCall

\* A client that goes away is not answered.
LEMMA StopsKeeps ==
  ASSUME RoutesInv, NEW q \in Asks, StopsWaiting(q)
  PROVE  RoutesInv'
<1>1. /\ ask[q].step = "await"
      /\ ask' = [ask EXCEPT ![q] = Answered(ask[q], Failed)]
      /\ UNCHANGED <<deliveryVars, clock, session, inflight, slots>>
  BY DEF StopsWaiting, Answer, serviceVars
<1>2. session' \in [RouteOrders -> Sessions \cup {NoRoute}]
  BY <1>1 DEF RoutesInv, RoutesTyped
<1> QED BY <1>1, <1>2, AnswerKeeps DEF UnderWay, InCall

\* The number of calls running, when one of them ends.
LEMMA OneCallLess ==
  ASSUME NEW q \in Callers
  PROVE  /\ Cardinality(Callers) \in Nat /\ Cardinality(Callers) - 1 \in Nat
         /\ Cardinality(Callers \ {q}) = Cardinality(Callers) - 1
<1>1. Cardinality(Callers \ {q}) = Cardinality(Callers) - 1
  BY CallersFinite, FS_RemoveElement
<1>2. Cardinality(Callers) \in Nat /\ Cardinality(Callers \ {q}) \in Nat
  <2>1. IsFiniteSet(Callers \ {q})
    BY CallersFinite, FS_Subset
  <2> QED BY <2>1, CallersFinite, FS_CardinalityType
<1> QED BY <1>1, <1>2

\* A call is tried again, or ends and gives its slot back; the table
\* names its request until the route is stored.
LEMMA CallsKeeps ==
  ASSUME RoutesInv, NEW q \in Asks, NEW result \in TryResults, Calls(q, result)
  PROVE  RoutesInv'
<1> DEFINE a == ask[q]
<1>1. a.step = "call" /\ UNCHANGED <<deliveryVars, clock, session, inflight>>
  BY DEF Calls
<1>2. a \in OpenAsks
  BY <1>1, AskTyped DEF RoutesInv, UnderWay
<1>3. Sound(a, clock)
  BY <1>1 DEF RoutesInv, RequestsSound, UnderWay
<1>4. ASSUME NEW b \in OpenAsks, ask' = [ask EXCEPT ![q] = b],
             b.step \in InCall, b.order = a.order, b.kind = a.kind, b.now = a.now,
             b.why = a.why, b.place = a.place, b.existing = a.existing
      PROVE  /\ RequestsSound' /\ FlightsKnown'
             /\ ask' \in [Asks -> {NotAsked} \cup OpenAsks \cup Replies]
  <2>1. Sound(b, clock)
    BY <1>3, <1>4 DEF Sound
  <2>2. RequestsSound'
    BY <1>1, <1>4, <2>1, CallMove
  <2>3. \A u \in Asks : ask'[u] = IF u = q THEN b ELSE ask[u]
    BY <1>4 DEF RoutesInv, RoutesTyped
  <2>4. FlightsKnown'
    <3> SUFFICES ASSUME NEW o \in RouteOrders, NEW k \in Kinds, NEW u \in Asks
                 PROVE  inflight'[<<o, k>>] = u <=>
                          ask'[u].step \in InCall /\ ask'[u].order = o /\ ask'[u].kind = k
      BY DEF FlightsKnown
    <3>1. inflight[<<o, k>>] = u <=>
            ask[u].step \in InCall /\ ask[u].order = o /\ ask[u].kind = k
      BY DEF RoutesInv, FlightsKnown
    <3> QED BY <1>1, <1>4, <2>3, <3>1 DEF InCall
  <2>5. ask' \in [Asks -> {NotAsked} \cup OpenAsks \cup Replies]
    BY <1>4 DEF RoutesInv, RoutesTyped
  <2> QED BY <2>2, <2>4, <2>5
<1>5. CASE TriesAgain(q)
  <2> DEFINE b == [a EXCEPT !.tries = a.tries + 1]
  <2>1. ask' = [ask EXCEPT ![q] = b] /\ slots' = slots
    BY <1>5 DEF TriesAgain
  <2>2. b \in OpenAsks
    <3>1. a.tries + 1 \in Nat
      BY <1>2 DEF OpenAsks
    <3> QED BY <1>2, <3>1 DEF OpenAsks
  <2>3. /\ b.step = "call" /\ b.order = a.order /\ b.kind = a.kind /\ b.now = a.now
        /\ b.why = a.why /\ b.place = a.place /\ b.existing = a.existing
    BY <1>1, <1>2 DEF OpenAsks
  <2> HIDE DEF b
  <2>4. /\ RequestsSound' /\ FlightsKnown'
        /\ ask' \in [Asks -> {NotAsked} \cup OpenAsks \cup Replies]
    BY <1>4, <2>1, <2>2, <2>3 DEF InCall
  <2>5. \A u \in Asks : ask'[u] = IF u = q THEN b ELSE ask[u]
    BY <2>1 DEF RoutesInv, RoutesTyped
  <2>6. Callers' = Callers
    BY <1>1, <2>3, <2>5 DEF Callers
  <2>7. RoutesTyped'
    BY <1>1, <2>1, <2>4 DEF RoutesInv, RoutesTyped, deliveryVars
  <2> QED BY <2>1, <2>4, <2>6, <2>7 DEF RoutesInv
<1>6. CASE EndsCall(q, result)
  <2> DEFINE b == [a EXCEPT !.step = "store", !.ok = (result = "ok"), !.tries = 0]
  <2>1. ask' = [ask EXCEPT ![q] = b] /\ slots' = slots - 1
    BY <1>6 DEF EndsCall
  <2>2. b \in OpenAsks
    BY <1>2 DEF OpenAsks, UnderWay
  <2>3. /\ b.step = "store" /\ b.order = a.order /\ b.kind = a.kind /\ b.now = a.now
        /\ b.why = a.why /\ b.place = a.place /\ b.existing = a.existing
    BY <1>2 DEF OpenAsks
  <2> HIDE DEF b
  <2>4. /\ RequestsSound' /\ FlightsKnown'
        /\ ask' \in [Asks -> {NotAsked} \cup OpenAsks \cup Replies]
    BY <1>4, <2>1, <2>2, <2>3 DEF InCall
  <2>5. \A u \in Asks : ask'[u] = IF u = q THEN b ELSE ask[u]
    BY <2>1 DEF RoutesInv, RoutesTyped
  <2>6. Callers' = Callers \ {q} /\ q \in Callers
    BY <1>1, <2>3, <2>5 DEF Callers
  <2>7. slots' = Cardinality(Callers') /\ slots' \in Nat
    <3>1. /\ Cardinality(Callers) - 1 \in Nat
          /\ Cardinality(Callers \ {q}) = Cardinality(Callers) - 1
      BY <2>6, OneCallLess
    <3> QED BY <2>1, <2>6, <3>1 DEF RoutesInv
  <2>8. RoutesTyped'
    BY <1>1, <2>1, <2>4, <2>7 DEF RoutesInv, RoutesTyped, deliveryVars
  <2> QED BY <2>4, <2>7, <2>8 DEF RoutesInv
<1> QED BY <1>5, <1>6 DEF Calls

\* What a call has made, told to its request and to those that share it.
LEMMA MadeTyped ==
  ASSUME RoutesInv, NEW q \in Asks, ask[q] \in OpenAsks
  PROVE  /\ Made(q) \in Bares /\ Made(q).kind = ask[q].kind
         /\ Made(q).place = ask[q].place /\ Made(q).at = clock
         /\ Kept(q) \in Sessions /\ Kept(q).by = q /\ Kept(q).at = clock
<1>1. /\ q \in Asks /\ ask[q].kind \in Kinds /\ ask[q].place \in Nat /\ clock \in Nat
      /\ 0 \in Nat
  BY DEF RoutesInv, RoutesTyped, OpenAsks
<1> QED BY <1>1 DEF Made, Kept, Bares, Sessions

\* A request under way is no older than the clock.
LEMMA ClockHolds ==
  ASSUME RoutesInv, NEW u \in Asks, ask[u] \in OpenAsks, ask[u].step \in UnderWay
  PROVE  clock >= ask[u].now /\ ask[u].now - clock < HoldLimit
<1>1. ask[u].now <= clock
  BY DEF RoutesInv, RequestsSound, Sound
<1>2. ask[u].now \in Nat /\ clock \in Nat
  BY DEF RoutesInv, RoutesTyped, OpenAsks
<1>3. clock >= ask[u].now
  BY <1>1, <1>2
<1> QED BY <1>2, <1>3, HeldWhenYounger

\* The call of a request closes: it is answered, as are those that wait for it.
LEMMA CallClosesKeeps ==
  ASSUME RoutesInv, NEW q \in Asks, ask[q].step = "store",
         NEW what \in {Made(q), Failed}, NEW own, Closes(q, what, own),
         own # Failed => /\ own \in Bares /\ own.kind = ask[q].kind
                         /\ ask[q].now - own.at < HoldLimit /\ own.place = ask[q].place,
         NEW o \in RouteOrders,
         session' = session \/ session' = [session EXCEPT ![o] = Kept(q)],
         UNCHANGED clock
  PROVE  /\ RequestsSound'
         /\ ask' \in [Asks -> {NotAsked} \cup OpenAsks \cup Replies]
         /\ \A u \in Asks :
              \/ /\ u # q /\ ask'[u] = ask[u]
                 /\ ~(ask[u].step = "await" /\ ask[u].from = q)
              \/ /\ u = q \/ ask[u].step = "await"
                 /\ ask'[u] \in Replies /\ ask'[u].step = "answered"
<1>1. \A u \in Asks :
        ask'[u] = IF u = q THEN Answered(ask[q], own)
                  ELSE IF ask[u].step = "await" /\ ask[u].from = q
                  THEN Answered(ask[u], what) ELSE ask[u]
  BY DEF Closes
<1>2. ask[q] \in OpenAsks
  BY AskTyped DEF RoutesInv, UnderWay
<1>3. /\ Made(q) \in Bares /\ Made(q).kind = ask[q].kind
      /\ Made(q).place = ask[q].place /\ Made(q).at = clock
      /\ Kept(q) \in Sessions /\ Kept(q).by = q /\ Kept(q).at = clock
  BY <1>2, MadeTyped
<1>4. /\ ask'[q] = Answered(ask[q], own) /\ ask'[q] \in Replies
      /\ ask'[q].step = "answered" /\ Leads(q, ask'[q])
  BY <1>1, <1>2, AnswersSound
<1>5. ASSUME NEW u \in Asks, u # q, ask[u].step = "await", ask[u].from = q
      PROVE  ask'[u] \in Replies /\ ask'[u].step = "answered" /\ Leads(u, ask'[u])
  <2>1. ask[u] \in OpenAsks
    BY <1>5, AskTyped DEF RoutesInv, UnderWay
  <2>2. ask[q].kind = ask[u].kind
    BY <1>5 DEF RoutesInv, RequestsSound, Shares
  <2>3. ask[u].now - clock < HoldLimit
    BY <1>5, <2>1, ClockHolds DEF UnderWay
  <2>4. what # Failed => /\ what \in Bares /\ what.kind = ask[u].kind
                         /\ ask[u].now - what.at < HoldLimit
                         /\ what.place = ask[u].place \/ ask[u].from \in Asks \ {u}
    BY <1>3, <1>5, <2>2, <2>3
  <2>5. ask'[u] = Answered(ask[u], what)
    BY <1>1, <1>5
  <2> QED BY <2>1, <2>4, <2>5, AnswersSound
<1>6. ASSUME NEW u \in Asks, u # q, ~(ask[u].step = "await" /\ ask[u].from = q)
      PROVE  ask'[u] = ask[u]
  BY <1>1, <1>6
<1>7. \A u \in Asks :
        \/ /\ u # q /\ ask'[u] = ask[u]
           /\ ~(ask[u].step = "await" /\ ask[u].from = q)
        \/ /\ u = q \/ ask[u].step = "await"
           /\ ask'[u] \in Replies /\ ask'[u].step = "answered"
  BY <1>4, <1>5, <1>6
<1>8. ask' \in [Asks -> {NotAsked} \cup OpenAsks \cup Replies]
  <2>1. \A u \in Asks : ask'[u] \in {NotAsked} \cup OpenAsks \cup Replies
    BY <1>7 DEF RoutesInv, RoutesTyped
  <2>2. ask' = [u \in Asks |-> ask'[u]]
    BY <1>1 DEF Closes
  <2> QED BY <2>1, <2>2
<1>9. RequestsSound'
  <2> SUFFICES ASSUME NEW u \in Asks
               PROVE  /\ ask'[u].step \in UnderWay => Sound(ask'[u], clock)
                      /\ ask'[u].step = "refresh" => Younger(ask'[u], session'[ask'[u].order])
                      /\ ask'[u].step = "await" => Shares(ask'[u], ask')
                      /\ ask'[u].step = "answered" => Leads(u, ask'[u])
    BY DEF RequestsSound
  <2>1. CASE u = q
    BY <1>4, <2>1 DEF UnderWay
  <2>2. CASE u # q /\ ask[u].step = "await" /\ ask[u].from = q
    BY <1>5, <2>2 DEF UnderWay
  <2>3. CASE u # q /\ ~(ask[u].step = "await" /\ ask[u].from = q)
    <3>1. ask'[u] = ask[u]
      BY <1>6, <2>3
    <3>2. ask[u].step = "await" => Shares(ask[u], ask')
      <4> SUFFICES ASSUME ask[u].step = "await" PROVE Shares(ask[u], ask')
        OBVIOUS
      <4> DEFINE f == ask[u].from
      <4>1. f \in Asks /\ ask[f].step \in InCall /\ ask[f].kind = ask[u].kind
        BY DEF RoutesInv, RequestsSound, Shares
      <4>2. f # q /\ ask[f].step # "await"
        BY <2>3, <4>1 DEF InCall
      <4>3. ask'[f] = ask[f]
        BY <1>6, <4>1, <4>2
      <4> QED BY <4>1, <4>3 DEF Shares
    <3>3. ask[u].step = "refresh" => Younger(ask[u], session'[ask[u].order])
      <4> SUFFICES ASSUME ask[u].step = "refresh"
                   PROVE  Younger(ask[u], session'[ask[u].order])
        OBVIOUS
      <4>1. ask[u] \in OpenAsks /\ ask[u].order \in RouteOrders
        BY AskTyped DEF RoutesInv, UnderWay, OpenAsks
      <4>2. Younger(ask[u], session[ask[u].order])
        BY DEF RoutesInv, RequestsSound
      <4>3. Kept(q).at >= ask[u].now
        BY <1>3, <4>1, ClockHolds DEF UnderWay
      <4>4. \/ session'[ask[u].order] = session[ask[u].order]
            \/ session'[ask[u].order] = Kept(q)
        BY <4>1 DEF RoutesInv, RoutesTyped
      <4> QED BY <4>2, <4>3, <4>4 DEF Younger
    <3> QED BY <3>1, <3>2, <3>3 DEF RoutesInv, RequestsSound
  <2> QED BY <2>1, <2>2, <2>3
<1> QED BY <1>7, <1>8, <1>9

\* The call leaves the table, and its route becomes the order's.
LEMMA StoresKeeps ==
  ASSUME RoutesInv, NEW q \in Asks, Stores(q)
  PROVE  RoutesInv'
<1> DEFINE a == ask[q]
           p == <<a.order, a.kind>>
           what == IF a.ok THEN Made(q) ELSE Failed
           own == IF a.ok THEN Made(q) ELSE Own(a)
<1>1. /\ a.step = "store"
      /\ inflight' = [inflight EXCEPT ![p] = NoCall]
      /\ session' = session \/ session' = [session EXCEPT ![a.order] = Kept(q)]
      /\ Closes(q, what, own)
      /\ UNCHANGED <<deliveryVars, clock, slots>>
  BY DEF Stores, StoresWith
<1>2. a \in OpenAsks /\ a.order \in RouteOrders /\ a.kind \in Kinds
  BY <1>1, AskTyped DEF RoutesInv, UnderWay, OpenAsks
<1>3. /\ Made(q) \in Bares /\ Made(q).kind = a.kind
      /\ Made(q).place = a.place /\ Made(q).at = clock
      /\ Kept(q) \in Sessions
  BY <1>2, MadeTyped
<1>4. a.now - clock < HoldLimit
  BY <1>1, <1>2, ClockHolds DEF UnderWay
<1>5. Sound(a, clock)
  BY <1>1 DEF RoutesInv, RequestsSound, UnderWay
<1>6. own # Failed => /\ own \in Bares /\ own.kind = a.kind
                      /\ a.now - own.at < HoldLimit /\ own.place = a.place
  BY <1>3, <1>4, <1>5 DEF Own, Sound
<1>7. what \in {Made(q), Failed}
  OBVIOUS
<1> HIDE DEF what, own
<1>8. /\ RequestsSound'
      /\ ask' \in [Asks -> {NotAsked} \cup OpenAsks \cup Replies]
      /\ \A u \in Asks :
           \/ /\ u # q /\ ask'[u] = ask[u]
              /\ ~(ask[u].step = "await" /\ ask[u].from = q)
           \/ /\ u = q \/ ask[u].step = "await"
              /\ ask'[u] \in Replies /\ ask'[u].step = "answered"
  BY <1>1, <1>2, <1>6, <1>7, CallClosesKeeps
<1>9. Callers' = Callers
  BY <1>1, <1>8 DEF Callers
<1>10. \A o \in RouteOrders, k \in Kinds :
         inflight'[<<o, k>>] = IF o = a.order /\ k = a.kind THEN NoCall
                               ELSE inflight[<<o, k>>]
  BY <1>1, <1>2 DEF RoutesInv, RoutesTyped
<1>11. FlightsKnown'
  <2> SUFFICES ASSUME NEW o \in RouteOrders, NEW k \in Kinds, NEW u \in Asks
               PROVE  inflight'[<<o, k>>] = u <=>
                        ask'[u].step \in InCall /\ ask'[u].order = o /\ ask'[u].kind = k
    BY DEF FlightsKnown
  <2>1. inflight[<<o, k>>] = u <=>
          ask[u].step \in InCall /\ ask[u].order = o /\ ask[u].kind = k
    BY DEF RoutesInv, FlightsKnown
  <2>2. inflight[p] = q
    BY <1>1, <1>2 DEF RoutesInv, FlightsKnown, InCall
  <2>3. u # NoCall
    BY AsksNumbered
  <2>4. CASE u = q
    <3>1. ask'[u].step \notin InCall
      BY <1>8, <2>4 DEF InCall
    <3>2. inflight'[<<o, k>>] # q
      BY <1>1, <1>10, <2>1, <2>3, <2>4
    <3> QED BY <2>4, <3>1, <3>2
  <2>5. CASE u # q
    <3>1. ask'[u].step \in InCall <=> ask[u].step \in InCall
      BY <1>8, <2>5 DEF InCall
    <3>2. ask[u].step \in InCall => ask'[u] = ask[u]
      BY <1>8, <2>5 DEF InCall
    <3>3. inflight'[<<o, k>>] = u <=> inflight[<<o, k>>] = u
      BY <1>10, <2>2, <2>3, <2>5
    <3> QED BY <2>1, <3>1, <3>2, <3>3
  <2> QED BY <2>4, <2>5
<1>12. RoutesTyped'
  <2>1. inflight' \in [RouteOrders \X Kinds -> Asks \cup {NoCall}]
    BY <1>1 DEF RoutesInv, RoutesTyped
  <2>2. session' \in [RouteOrders -> Sessions \cup {NoRoute}]
    BY <1>1, <1>3 DEF RoutesInv, RoutesTyped
  <2> QED BY <1>1, <1>8, <2>1, <2>2 DEF RoutesInv, RoutesTyped, deliveryVars
<1> QED BY <1>1, <1>8, <1>9, <1>11, <1>12 DEF RoutesInv

-----------------------------------------------------------------------------
\* The deliveries and the time move on while requests are under way.
LEMMA TimePassesKeeps ==
  ASSUME RoutesInv, UNCHANGED <<serviceVars, ask>>,
         leg' \in [RouteOrders -> Kinds \cup {"over"}],
         place' \in [RouteOrders -> Nat],
         clock' = clock \/ clock' = clock + 1
  PROVE  RoutesInv'
<1>1. UNCHANGED <<session, inflight, slots, ask>>
  BY DEF serviceVars
<1>2. clock \in Nat /\ clock' \in Nat /\ clock <= clock'
  BY DEF RoutesInv, RoutesTyped
<1>3. RoutesTyped'
  BY <1>1, <1>2 DEF RoutesInv, RoutesTyped
<1>4. slots' = Cardinality(Callers')
  <2>1. Callers' = Callers
    BY <1>1 DEF Callers
  <2> QED BY <1>1, <2>1 DEF RoutesInv
<1>5. FlightsKnown'
  <2> SUFFICES ASSUME NEW o \in RouteOrders, NEW k \in Kinds, NEW u \in Asks
               PROVE  inflight'[<<o, k>>] = u <=>
                        ask'[u].step \in InCall /\ ask'[u].order = o /\ ask'[u].kind = k
    BY DEF FlightsKnown
  <2>1. inflight[<<o, k>>] = u <=>
          ask[u].step \in InCall /\ ask[u].order = o /\ ask[u].kind = k
    BY DEF RoutesInv, FlightsKnown
  <2> QED BY <1>1, <2>1
<1>6. RequestsSound'
  <2> SUFFICES ASSUME NEW u \in Asks
               PROVE  /\ ask'[u].step \in UnderWay => Sound(ask'[u], clock')
                      /\ ask'[u].step = "refresh" => Younger(ask'[u], session'[ask'[u].order])
                      /\ ask'[u].step = "await" => Shares(ask'[u], ask')
                      /\ ask'[u].step = "answered" => Leads(u, ask'[u])
    BY DEF RequestsSound
  <2>1. ask[u].step \in UnderWay => Sound(ask[u], clock')
    <3> SUFFICES ASSUME ask[u].step \in UnderWay PROVE Sound(ask[u], clock')
      OBVIOUS
    <3>1. ask[u].now \in Nat
      BY AskTyped DEF RoutesInv, OpenAsks
    <3>2. Sound(ask[u], clock)
      BY DEF RoutesInv, RequestsSound
    <3>3. ask[u].now <= clock
      BY <3>2 DEF Sound
    <3>4. ask[u].now <= clock'
      BY <1>2, <3>1, <3>3
    <3> QED BY <3>2, <3>4 DEF Sound
  <2> QED BY <1>1, <2>1 DEF RoutesInv, RequestsSound
<1> QED BY <1>3, <1>4, <1>5, <1>6 DEF RoutesInv

\* Nobody has asked yet.
LEMMA RoutesInvInit == RoutesInit => RoutesInv
<1> SUFFICES ASSUME RoutesInit PROVE RoutesInv
  OBVIOUS
<1>1. NotAsked.step = "new"
  BY DEF NotAsked
<1>2. \A q \in Asks : ask[q] = NotAsked
  BY DEF RoutesInit
<1>3. RoutesTyped
  BY DEF RoutesInit, RoutesTyped, Kinds, Asks, NoCall
<1>4. slots = Cardinality(Callers)
  <2>1. Callers = {}
    BY <1>1, <1>2 DEF Callers
  <2> QED BY <2>1, FS_EmptySet DEF RoutesInit
<1>5. FlightsKnown
  BY <1>1, <1>2, AsksNumbered DEF RoutesInit, FlightsKnown, InCall
<1>6. RequestsSound
  BY <1>1, <1>2 DEF RequestsSound, UnderWay
<1> QED BY <1>3, <1>4, <1>5, <1>6 DEF RoutesInv

\* Every step keeps the invariant.
LEMMA RoutesInvNext == RoutesInv /\ [RoutesNext]_routeVars => RoutesInv'
<1> SUFFICES ASSUME RoutesInv, [RoutesNext]_routeVars PROVE RoutesInv'
  OBVIOUS
<1>1. ASSUME NEW o \in RouteOrders, LegEnds(o) PROVE RoutesInv'
  <2>1. leg' \in [RouteOrders -> Kinds \cup {"over"}]
    BY <1>1 DEF LegEnds, RoutesInv, RoutesTyped, Kinds
  <2>2. place' \in [RouteOrders -> Nat]
    BY <1>1 DEF LegEnds, RoutesInv, RoutesTyped
  <2> QED BY <1>1, <2>1, <2>2, TimePassesKeeps DEF LegEnds
<1>2. ASSUME NEW o \in RouteOrders, PlaceCorrected(o) PROVE RoutesInv'
  <2>1. leg' \in [RouteOrders -> Kinds \cup {"over"}]
    BY <1>2 DEF PlaceCorrected, RoutesInv, RoutesTyped
  <2>2. place' \in [RouteOrders -> Nat]
    BY <1>2 DEF PlaceCorrected, RoutesInv, RoutesTyped
  <2> QED BY <1>2, <2>1, <2>2, TimePassesKeeps DEF PlaceCorrected
<1>3. CASE RouteTick
  <2>1. /\ leg' \in [RouteOrders -> Kinds \cup {"over"}]
        /\ place' \in [RouteOrders -> Nat]
    BY <1>3 DEF RouteTick, RoutesInv, RoutesTyped, deliveryVars
  <2> QED BY <1>3, <2>1, TimePassesKeeps DEF RouteTick
<1>4. CASE UNCHANGED routeVars
  <2>1. /\ leg' \in [RouteOrders -> Kinds \cup {"over"}]
        /\ place' \in [RouteOrders -> Nat]
    BY <1>4 DEF routeVars, RoutesInv, RoutesTyped, deliveryVars
  <2> QED BY <1>4, <2>1, TimePassesKeeps DEF routeVars
<1>5. ASSUME NEW q \in Asks, Proceeds(q) PROVE RoutesInv'
  BY <1>5, EvaluatesKeeps, RefreshesKeeps, ForgetsKeeps, CallsKeeps, StoresKeeps
     DEF Proceeds
<1> QED BY <1>1, <1>2, <1>3, <1>4, <1>5, AsksKeeps, StopsKeeps DEF RoutesNext

\* For any orders, requests, clocks and budgets, the slots, the table of the
\* calls in flight and what every request knows agree.
THEOREM RoutesInvariant == RoutesSpec => []RoutesInv
BY RoutesInvInit, RoutesInvNext, PTL DEF RoutesSpec

\* A slot is taken exactly while a call runs, and the table names a call exactly
\* from its admission until its route is stored (refresh and its deferred exits):
\* no failure loses a slot, no two calls for one order and destination overlap.
THEOREM SlotsReturned == RoutesSpec => []CallsAccounted
<1>1. RoutesInv => CallsAccounted
  <2> SUFFICES ASSUME RoutesInv PROVE CallsAccounted
    OBVIOUS
  <2>1. slots = Cardinality({q \in Asks : ask[q].step = "call"})
    BY DEF RoutesInv, Callers
  <2>2. ASSUME NEW p \in RouteOrders \X Kinds
        PROVE  {q \in Asks : ask[q].step \in {"call", "store"}
                               /\ <<ask[q].order, ask[q].kind>> = p}
                 = {inflight[p]} \ {NoCall}
    <3>1. PICK o \in RouteOrders, k \in Kinds : p = <<o, k>>
      OBVIOUS
    <3>2. inflight[p] \in Asks \cup {NoCall}
      BY DEF RoutesInv, RoutesTyped
    <3>3. \A q \in Asks : inflight[p] = q <=>
                            ask[q].step \in {"call", "store"} /\ ask[q].order = o /\ ask[q].kind = k
      BY <3>1 DEF RoutesInv, FlightsKnown, InCall
    <3>4. \A q \in Asks : <<ask[q].order, ask[q].kind>> = p <=>
                            ask[q].order = o /\ ask[q].kind = k
      BY <3>1
    <3> QED BY <3>2, <3>3, <3>4, AsksNumbered
  <2> QED BY <2>1, <2>2 DEF CallsAccounted
<1> QED BY <1>1, RoutesInvariant, PTL

\* Whatever the others ask, and whenever legs end and places are corrected, the
\* route a client is given is of the leg its delivery was on when it asked and
\* was not past the hold limit then; it leads to the coordinates of that time
\* too, unless the call was another's and they were corrected between the two.
THEOREM RoutesLeadRight == RoutesSpec => []LeadsWhereAsked
<1>1. RoutesInv => LeadsWhereAsked
  BY DEF RoutesInv, RequestsSound, Leads, LeadsWhereAsked
<1> QED BY <1>1, RoutesInvariant, PTL

-----------------------------------------------------------------------------
(* The budgets: what bounds the calls, the times and the routes told.      *)

Located(w) == w.place \in Places /\ w.at \in 1 .. MaxClock

AskLocated(a) ==
  /\ a.step \in UnderWay => /\ a.place \in Places
                            /\ a.existing \in Bares => Located(a.existing)
  /\ a.step = "answered" => (a.route # Failed => Located(a.route))

SessionLocated(s) == s # NoRoute => Located(s) /\ s.streak \in 0 .. OffSamples

Windows == [start : 0 .. MaxClock, count : 0 .. WindowBudget]

RoutesBounded ==
  /\ place \in [RouteOrders -> Places]
  /\ clock \in 1 .. MaxClock
  /\ attempt \in [RouteOrders \X Kinds -> 0 .. MaxClock]
  /\ failure \in [RouteOrders \X Kinds -> 0 .. MaxClock]
  /\ calls \in [RouteOrders -> 0 .. MaxCallsPerOrder]
  /\ window \in Windows
  /\ slots \in 0 .. MaxConcurrent
  /\ \A o \in RouteOrders : SessionLocated(session[o])
  /\ \A q \in Asks : AskLocated(ask[q])

\* The bounds are numbers.
LEMMA RouteBounds ==
  /\ {MaxPlace, OffSamples, MaxClock, MaxCallsPerOrder, WindowBudget, MaxConcurrent} \subseteq Nat
  /\ MaxClock > 0 /\ WindowBudget > 0
  /\ Places \subseteq Nat
<1>1. /\ {MaxPlace, OffSamples, MaxClock, MaxCallsPerOrder, WindowBudget, MaxConcurrent}
           \subseteq Nat
      /\ MaxClock \in Nat \ {0} /\ WindowBudget \in Nat \ {0}
  BY RoutesAssumption
<1> QED BY <1>1 DEF Places

\* What the types and the bounds say together is the type invariant.
LEMMA RoutesInTypes == RoutesInv /\ RoutesBounded => RoutesTypeOK
<1> SUFFICES ASSUME RoutesInv, RoutesBounded PROVE RoutesTypeOK
  OBVIOUS
<1>1. ASSUME NEW o \in RouteOrders, session[o] # NoRoute
      PROVE  Bare(session[o]) \in RouteOf /\ session[o].streak \in 0 .. OffSamples
  <2>1. session[o] \in Sessions /\ SessionLocated(session[o])
    BY <1>1 DEF RoutesInv, RoutesTyped, RoutesBounded
  <2>2. Located(session[o]) /\ session[o].streak \in 0 .. OffSamples
    BY <1>1, <2>1 DEF SessionLocated
  <2> QED BY <2>1, <2>2 DEF Bare, RouteOf, Located, Sessions
<1>2. ASSUME NEW q \in Asks
      PROVE  /\ ask[q].step \in RouteSteps
             /\ ask[q].step = "answered" =>
                  ask[q].route \in [kind : Kinds, place : Places, at : 1 .. MaxClock] \cup {Failed}
  <2>1. ask[q] \in {NotAsked} \cup OpenAsks \cup Replies /\ AskLocated(ask[q])
    BY DEF RoutesInv, RoutesTyped, RoutesBounded
  <2>2. CASE ask[q] = NotAsked
    BY <2>2, AskTyped DEF RoutesInv, RouteSteps
  <2>3. CASE ask[q] \in OpenAsks
    BY <2>3 DEF OpenAsks, UnderWay, RouteSteps
  <2>4. CASE ask[q] \in Replies
    <3>1. ask[q].step = "answered" /\ ask[q].route \in Ways \cup {Failed}
      BY <2>4 DEF Replies
    <3>2. ask[q].route # Failed => Located(ask[q].route)
      BY <2>1, <3>1 DEF AskLocated
    <3> QED BY <3>1, <3>2 DEF Ways, Located, RouteSteps
  <2> QED BY <2>1, <2>2, <2>3, <2>4
<1> QED BY <1>1, <1>2 DEF RoutesInv, RoutesTyped, RoutesBounded, RoutesTypeOK, Windows

\* One request moves, and its new state keeps to the places and times.
LEMMA AsksLocated ==
  ASSUME RoutesInv, RoutesBounded, NEW q \in Asks, NEW a,
         ask' = [ask EXCEPT ![q] = a], AskLocated(a)
  PROVE  \A u \in Asks : AskLocated(ask'[u])
<1>1. \A u \in Asks : ask'[u] = IF u = q THEN a ELSE ask[u]
  BY DEF RoutesInv, RoutesTyped
<1> QED BY <1>1 DEF RoutesBounded

\* A route that is told was one of a session, of a request, or is none.
LEMMA AnswerLocated ==
  ASSUME NEW a, NEW w, w # Failed => Located(w)
  PROVE  AskLocated(Answered(a, w))
<1>1. CASE w = Failed
  <2>1. Answered(a, w) = [step |-> "answered", route |-> Failed]
    BY <1>1 DEF Answered
  <2> DEFINE b == [step |-> "answered", route |-> Failed]
  <2>2. b.step = "answered" /\ b.route = Failed
    OBVIOUS
  <2> HIDE DEF b
  <2>3. AskLocated(b)
    BY <2>2 DEF AskLocated, UnderWay
  <2> QED BY <2>1, <2>3 DEF b
<1>2. CASE w # Failed
  <2> DEFINE way == [kind |-> w.kind, place |-> w.place, at |-> w.at]
             b == [step |-> "answered", kind |-> a.kind, place |-> a.place, now |-> a.now,
                   from |-> a.from, route |-> way]
  <2>1. Answered(a, w) = b
    BY <1>2 DEF Answered
  <2>2. way.place = w.place /\ way.at = w.at
    OBVIOUS
  <2>3. b.step = "answered" /\ b.route = way
    OBVIOUS
  <2> HIDE DEF b, way
  <2>4. Located(way)
    BY <1>2, <2>2 DEF Located
  <2>5. AskLocated(b)
    BY <2>3, <2>4 DEF AskLocated, UnderWay
  <2> QED BY <2>1, <2>5
<1> QED BY <1>1, <1>2

\* A route of a session, as it is told.
LEMMA BareLocated ==
  ASSUME RoutesInv, RoutesBounded, NEW o \in RouteOrders, session[o] # NoRoute
  PROVE  Located(Bare(session[o])) /\ Bare(session[o]) \in Bares
<1>1. session[o] \in Sessions /\ SessionLocated(session[o])
  BY DEF RoutesInv, RoutesTyped, RoutesBounded
<1>2. /\ Bare(session[o]) \in Bares /\ Bare(session[o]).place = session[o].place
      /\ Bare(session[o]).at = session[o].at
  BY <1>1, BareTyped
<1> QED BY <1>1, <1>2 DEF SessionLocated, Located

-----------------------------------------------------------------------------
\* Counting a sample stops at the number that makes a deviation.
LEMMA CountedLocated ==
  ASSUME NEW s \in Sessions, SessionLocated(s), s # NoRoute, NEW sample \in Samples
  PROVE  SessionLocated(Counted(s, sample))
<1>1. Located(s) /\ s.streak \in 0 .. OffSamples /\ OffSamples \in Nat
  BY RouteBounds DEF SessionLocated
<1>2. CASE sample = "seen"
  BY <1>2 DEF Counted
<1>3. CASE sample # "seen"
  <2>1. PICK n \in 0 .. OffSamples : Counted(s, sample) = [s EXCEPT !.streak = n]
    <3>1. 0 \in 0 .. OffSamples
      BY <1>1
    <3>2. CASE sample = "on"
      BY <3>1, <3>2 DEF Counted
    <3>3. CASE sample = "off"
      <4> DEFINE n == IF s.streak < OffSamples THEN s.streak + 1 ELSE s.streak
      <4>1. n \in 0 .. OffSamples
        BY <1>1
      <4>2. Counted(s, sample) = [s EXCEPT !.streak = n]
        BY <3>3 DEF Counted
      <4> QED BY <4>1, <4>2
    <3> QED BY <1>3, <3>2, <3>3 DEF Samples
  <2> DEFINE c == [s EXCEPT !.streak = n]
  <2>2. c.place = s.place /\ c.at = s.at /\ c.streak = n
    BY DEF Sessions
  <2> HIDE DEF c
  <2>3. SessionLocated(c)
    BY <1>1, <2>2 DEF SessionLocated, Located
  <2> QED BY <2>1, <2>3 DEF c
<1> QED BY <1>2, <1>3

\* The request begins where its delivery leads.
LEMMA AsksWithin ==
  ASSUME RoutesInv, RoutesBounded, NEW q \in Asks, NEW o \in RouteOrders, AsksRoute(q, o)
  PROVE  RoutesBounded'
<1>1. UNCHANGED <<deliveryVars, clock, attempt, failure, calls, window, slots>>
  BY DEF AsksRoute
<1>2. /\ \A p \in RouteOrders : SessionLocated(session'[p])
      /\ \A u \in Asks : AskLocated(ask'[u])
  <2>1. CASE leg[o] = "over"
    <3> DEFINE b == [step |-> "answered", route |-> Failed]
    <3>1. /\ session' = [session EXCEPT ![o] = NoRoute]
          /\ ask' = [ask EXCEPT ![q] = b]
      BY <2>1 DEF AsksRoute, Forgotten
    <3>2. b.step = "answered" /\ b.route = Failed
      OBVIOUS
    <3> HIDE DEF b
    <3>3. AskLocated(b)
      BY <3>2 DEF AskLocated, UnderWay
    <3>4. \A p \in RouteOrders : session'[p] = NoRoute \/ session'[p] = session[p]
      BY <3>1 DEF RoutesInv, RoutesTyped
    <3> QED BY <3>1, <3>3, <3>4, AsksLocated DEF RoutesBounded, SessionLocated
  <2>2. CASE leg[o] # "over"
    <3> DEFINE b == Asked(o)
    <3>1. UNCHANGED session /\ ask' = [ask EXCEPT ![q] = b]
      BY <2>2 DEF AsksRoute
    <3>2. b.step = "evaluate" /\ b.place = place[o] /\ b.existing = NoRoute
      BY DEF Asked
    <3>3. NoRoute \notin Bares
      BY DEF NoRoute, Bares
    <3> HIDE DEF b
    <3>4. AskLocated(b)
      BY <3>2, <3>3 DEF AskLocated, RoutesBounded
    <3> QED BY <3>1, <3>4, AsksLocated DEF RoutesBounded
  <2> QED BY <2>1, <2>2
<1> QED BY <1>1, <1>2 DEF RoutesBounded, deliveryVars

\* A request is answered from the session, or keeps what that has.
LEMMA EvaluatesWithin ==
  ASSUME RoutesInv, RoutesBounded, NEW q \in Asks, NEW sample \in Samples, Evaluates(q, sample)
  PROVE  RoutesBounded'
<1> DEFINE a == ask[q]
           o == a.order
           s == session[o]
           reason == Reason(s, a)
           counted == IF reason = "" THEN Counted(s, sample) ELSE s
           why == IF reason = "" /\ Strayed(counted, a.now) THEN "off_route" ELSE reason
           e == IF s = NoRoute THEN NoRoute ELSE Bare(s)
           b == [a EXCEPT !.step = "refresh", !.why = why, !.existing = e]
<1>1. /\ a.step = "evaluate"
      /\ Swept([session EXCEPT ![o] = counted])
      /\ UNCHANGED <<deliveryVars, clock, attempt, failure, calls, window, slots>>
  BY DEF Evaluates, EvaluatesWith
<1>2. \/ why = "" /\ ask' = [ask EXCEPT ![q] = Answered(a, Bare(s))]
      \/ why # "" /\ ask' = [ask EXCEPT ![q] = b]
  BY DEF Evaluates, EvaluatesWith, Answer
<1>3. a \in OpenAsks /\ o \in RouteOrders /\ s \in Sessions \cup {NoRoute}
  BY <1>1, AskTyped DEF RoutesInv, RoutesTyped, UnderWay, OpenAsks
<1>4. AskLocated(a) /\ SessionLocated(s)
  BY <1>3 DEF RoutesBounded
<1>5. reason = "" => s \in Sessions /\ s # NoRoute
  BY <1>3, NoReason
<1>6. SessionLocated(counted)
  <2>1. CASE reason = ""
    BY <1>4, <1>5, <2>1, CountedLocated
  <2>2. CASE reason # ""
    BY <1>4, <2>2
  <2> QED BY <2>1, <2>2
<1>7. why = "" => reason = ""
  OBVIOUS
<1>8. s # NoRoute => Located(Bare(s)) /\ Bare(s) \in Bares
  BY <1>3, BareLocated
<1>9. NoRoute \notin Bares
  BY DEF NoRoute, Bares
<1> HIDE DEF counted, why, reason
<1>10. \A p \in RouteOrders : SessionLocated(session'[p])
  <2>1. PICK evicted \in SUBSET RouteOrders :
          session' = [p \in RouteOrders |-> IF p \in evicted THEN NoRoute
                                            ELSE [session EXCEPT ![o] = counted][p]]
    BY <1>1 DEF Swept
  <2>2. \A p \in RouteOrders :
          session'[p] = NoRoute \/ session'[p] = IF p = o THEN counted ELSE session[p]
    BY <1>3, <2>1 DEF RoutesInv, RoutesTyped
  <2> QED BY <1>6, <2>2 DEF RoutesBounded, SessionLocated
<1>11. \A u \in Asks : AskLocated(ask'[u])
  <2>1. CASE why = ""
    BY <1>2, <1>5, <1>7, <1>8, <2>1, AnswerLocated, AsksLocated
  <2>2. CASE why # ""
    <3>1. b.step = "refresh" /\ b.existing = e /\ b.place = a.place
      BY <1>3 DEF OpenAsks
    <3>2. e \in Bares => Located(e)
      BY <1>8, <1>9
    <3>3. a.place \in Places
      BY <1>1, <1>4 DEF AskLocated, UnderWay
    <3> HIDE DEF b, e
    <3>4. AskLocated(b)
      BY <3>1, <3>2, <3>3 DEF AskLocated
    <3> QED BY <1>2, <2>2, <3>4, AsksLocated
  <2> QED BY <2>1, <2>2
<1> QED BY <1>1, <1>10, <1>11 DEF RoutesBounded, deliveryVars

\* A window that has passed counts from zero.
LEMMA WindowTyped ==
  ASSUME RoutesBounded PROVE WindowNow \in Windows
<1>1. window \in Windows /\ clock \in 1 .. MaxClock
  BY DEF RoutesBounded
<1>2. clock \in 0 .. MaxClock /\ 0 \in 0 .. WindowBudget
  BY <1>1, RouteBounds
<1>3. PICK zero \in 0 .. WindowBudget : zero = 0
  BY <1>2
<1>4. [start |-> clock, count |-> zero] \in Windows
  BY <1>2, <1>3 DEF Windows
<1> QED BY <1>1, <1>3, <1>4 DEF WindowNow

\* A request joins a call, takes another's route, is refused or calls.
LEMMA RefreshesWithin ==
  ASSUME RoutesInv, RoutesInv', RoutesBounded, NEW q \in Asks, Refreshes(q)
  PROVE  RoutesBounded'
<1> DEFINE a == ask[q]
           p == <<a.order, a.kind>>
<1>1. /\ a.step = "refresh"
      /\ UNCHANGED <<deliveryVars, clock, failure>>
  BY DEF Refreshes
<1>2. a \in OpenAsks /\ a.order \in RouteOrders
  BY <1>1, AskTyped DEF RoutesInv, UnderWay, OpenAsks
<1>3. /\ AskLocated(a) /\ a.place \in Places /\ (a.existing \in Bares => Located(a.existing))
      /\ Sound(a, clock)
  BY <1>1 DEF RoutesBounded, AskLocated, UnderWay, RoutesInv, RequestsSound
<1>4. p \in RouteOrders \X Kinds
  BY <1>2 DEF OpenAsks
<1>5. WindowNow \in Windows
  BY WindowTyped
<1>6. CASE JoinsCall(q)
  <2> DEFINE b == [a EXCEPT !.step = "await", !.from = inflight[p]]
  <2>1. ask' = [ask EXCEPT ![q] = b]
    BY <1>6 DEF JoinsCall
  <2>2. b.step = "await" /\ b.existing = a.existing /\ b.place = a.place
    BY <1>2 DEF OpenAsks
  <2> HIDE DEF b
  <2>3. AskLocated(b)
    BY <1>3, <2>2 DEF AskLocated
  <2> QED BY <1>1, <1>6, <2>1, <2>3, AsksLocated DEF JoinsCall, RoutesBounded, deliveryVars
<1>7. CASE Replaced(a) /\ TakesReplaced(q)
  <2>1. session[a.order] # NoRoute
    BY <1>7 DEF Replaced
  <2>2. Located(Bare(session[a.order]))
    BY <1>2, <2>1, BareLocated
  <2>3. AskLocated(Answered(a, Bare(session[a.order])))
    BY <2>2, AnswerLocated
  <2>4. ask' = [ask EXCEPT ![q] = Answered(a, Bare(session[a.order]))]
    BY <1>7 DEF TakesReplaced, Answer
  <2> QED BY <1>1, <1>7, <2>3, <2>4, AsksLocated DEF TakesReplaced, RoutesBounded, deliveryVars
<1>8. CASE Refused(q)
  <2>1. window' \in Windows
    BY <1>5, <1>8 DEF Refused, RoutesBounded
  <2>2. \A u \in Asks : AskLocated(ask'[u])
    <3>1. CASE a.why = "off_route"
      <4>1. Located(a.existing)
        BY <1>3, <3>1 DEF Sound
      <4>2. ask' = [ask EXCEPT ![q] = Answered(a, a.existing)]
        BY <1>8, <3>1 DEF Refused, Answer
      <4> QED BY <4>1, <4>2, AnswerLocated, AsksLocated
    <3>2. CASE a.why = "expired"
      <4> DEFINE b == [a EXCEPT !.step = "forget"]
      <4>1. ask' = [ask EXCEPT ![q] = b]
        BY <1>8, <3>2 DEF Refused
      <4>2. b.step = "forget" /\ b.existing = a.existing /\ b.place = a.place
        BY <1>2 DEF OpenAsks
      <4> HIDE DEF b
      <4>3. AskLocated(b)
        BY <1>3, <4>2 DEF AskLocated
      <4> QED BY <4>1, <4>3, AsksLocated
    <3>3. CASE a.why # "off_route" /\ a.why # "expired"
      <4>1. ask' = [ask EXCEPT ![q] = Answered(a, Failed)]
        BY <1>8, <3>3 DEF Refused, Answer
      <4> QED BY <4>1, AnswerLocated, AsksLocated
    <3> QED BY <3>1, <3>2, <3>3
  <2> QED BY <1>1, <1>8, <2>1, <2>2 DEF Refused, RoutesBounded, deliveryVars
<1>9. CASE Admits(p) /\ Admitted(q)
  <2>1. /\ calls[a.order] < MaxCallsPerOrder /\ WindowNow.count < WindowBudget
        /\ slots < MaxConcurrent
    BY <1>9 DEF Admits
  <2>2. /\ attempt' = [attempt EXCEPT ![p] = clock]
        /\ calls' = [calls EXCEPT ![a.order] = calls[a.order] + 1]
        /\ window' = [WindowNow EXCEPT !.count = WindowNow.count + 1]
        /\ slots' = slots + 1
        /\ UNCHANGED session
    BY <1>9 DEF Admitted
  <2>3. attempt' \in [RouteOrders \X Kinds -> 0 .. MaxClock]
    <3>1. clock \in 0 .. MaxClock
      BY RouteBounds DEF RoutesBounded
    <3> QED BY <2>2, <3>1 DEF RoutesBounded
  <2>4. calls' \in [RouteOrders -> 0 .. MaxCallsPerOrder]
    <3>1. calls[a.order] + 1 \in 0 .. MaxCallsPerOrder
      <4>1. calls[a.order] \in 0 .. MaxCallsPerOrder
        BY <1>2 DEF RoutesBounded
      <4> QED BY <2>1, <4>1, RouteBounds
    <3> QED BY <2>2, <3>1 DEF RoutesBounded
  <2>5. window' \in Windows
    <3>1. WindowNow.count \in 0 .. WindowBudget
      BY <1>5 DEF Windows
    <3>2. WindowNow.count + 1 \in 0 .. WindowBudget
      BY <2>1, <3>1, RouteBounds
    <3> QED BY <1>5, <2>2, <3>2 DEF Windows
  <2>6. slots' \in 0 .. MaxConcurrent
    BY <2>1, <2>2, RouteBounds DEF RoutesBounded
  <2>7. \A u \in Asks : AskLocated(ask'[u])
    <3> DEFINE b == [a EXCEPT !.step = "call", !.from = q]
    <3>1. ask' = [ask EXCEPT ![q] = b]
      BY <1>9 DEF Admitted
    <3>2. b.step = "call" /\ b.existing = a.existing /\ b.place = a.place
      BY <1>2 DEF OpenAsks
    <3> HIDE DEF b
    <3>3. AskLocated(b)
      BY <1>3, <3>2 DEF AskLocated
    <3> QED BY <3>1, <3>3, AsksLocated
  <2> QED BY <1>1, <2>2, <2>3, <2>4, <2>5, <2>6, <2>7 DEF RoutesBounded, deliveryVars
<1>10. \/ JoinsCall(q)
       \/ Replaced(a) /\ TakesReplaced(q)
       \/ Refused(q)
       \/ Admits(p) /\ Admitted(q)
  BY DEF Refreshes
<1> QED BY <1>6, <1>7, <1>8, <1>9, <1>10

\* An expired route goes.
LEMMA ForgetsWithin ==
  ASSUME RoutesInv, RoutesBounded, NEW q \in Asks, Forgets(q)
  PROVE  RoutesBounded'
<1>1. /\ ask[q].step = "forget"
      /\ session' = [session EXCEPT ![ask[q].order] = NoRoute]
      /\ ask' = [ask EXCEPT ![q] = Answered(ask[q], Failed)]
      /\ UNCHANGED <<deliveryVars, clock, attempt, failure, calls, window, slots>>
  BY DEF Forgets, Forgotten, Answer
<1>2. \A p \in RouteOrders : session'[p] = NoRoute \/ session'[p] = session[p]
  BY <1>1 DEF RoutesInv, RoutesTyped
<1>3. \A u \in Asks : AskLocated(ask'[u])
  BY <1>1, AnswerLocated, AsksLocated
<1> QED BY <1>1, <1>2, <1>3 DEF RoutesBounded, SessionLocated, deliveryVars

\* A client leaves.
LEMMA StopsWithin ==
  ASSUME RoutesInv, RoutesBounded, NEW q \in Asks, StopsWaiting(q)
  PROVE  RoutesBounded'
<1>1. /\ ask' = [ask EXCEPT ![q] = Answered(ask[q], Failed)]
      /\ UNCHANGED <<deliveryVars, clock, serviceVars>>
  BY DEF StopsWaiting, Answer
<1>2. \A u \in Asks : AskLocated(ask'[u])
  BY <1>1, AnswerLocated, AsksLocated
<1> QED BY <1>1, <1>2 DEF RoutesBounded, deliveryVars, serviceVars

\* A call is tried again, or ends and gives its slot back.
LEMMA CallsWithin ==
  ASSUME RoutesInv, RoutesInv', RoutesBounded, NEW q \in Asks, NEW result \in TryResults,
         Calls(q, result)
  PROVE  RoutesBounded'
<1> DEFINE a == ask[q]
           again == [a EXCEPT !.tries = a.tries + 1]
           ended == [a EXCEPT !.step = "store", !.ok = (result = "ok"), !.tries = 0]
<1>1. /\ a.step = "call"
      /\ UNCHANGED <<deliveryVars, clock, session, attempt, failure, calls, window>>
  BY DEF Calls
<1>2. \/ ask' = [ask EXCEPT ![q] = again] /\ slots' = slots
      \/ ask' = [ask EXCEPT ![q] = ended] /\ slots' = slots - 1
  BY DEF Calls, TriesAgain, EndsCall
<1>3. a \in OpenAsks /\ AskLocated(a)
  BY <1>1, AskTyped DEF RoutesInv, RoutesBounded, UnderWay
<1>4. /\ again.step = a.step /\ again.existing = a.existing /\ again.place = a.place
      /\ ended.step = "store" /\ ended.existing = a.existing /\ ended.place = a.place
  BY <1>3 DEF OpenAsks
<1> HIDE DEF again, ended
<1>5. AskLocated(again) /\ AskLocated(ended)
  BY <1>1, <1>3, <1>4 DEF AskLocated, UnderWay
<1>6. slots' \in 0 .. MaxConcurrent
  BY <1>2, RouteBounds DEF RoutesInv, RoutesTyped, RoutesBounded
<1>7. \A u \in Asks : AskLocated(ask'[u])
  BY <1>2, <1>5, AsksLocated
<1> QED BY <1>1, <1>6, <1>7 DEF RoutesBounded, deliveryVars

\* The route made leads where the request asked, now.
LEMMA StoresWithin ==
  ASSUME RoutesInv, RoutesBounded, NEW q \in Asks, Stores(q)
  PROVE  RoutesBounded'
<1> DEFINE a == ask[q]
           p == <<a.order, a.kind>>
           made == Made(q)
           kept == Kept(q)
           what == IF a.ok THEN made ELSE Failed
           own == IF a.ok THEN made ELSE Own(a)
<1>1. /\ a.step = "store"
      /\ \/ session' = [session EXCEPT ![a.order] = kept]
            /\ failure' = [failure EXCEPT ![p] = Never]
         \/ failure' = [failure EXCEPT ![p] = clock] /\ UNCHANGED session
      /\ Closes(q, what, own)
      /\ UNCHANGED <<deliveryVars, clock, attempt, calls, window, slots>>
  BY DEF Stores, StoresWith
<1>2. a \in OpenAsks /\ a.order \in RouteOrders /\ Sound(a, clock) /\ p \in RouteOrders \X Kinds
  BY <1>1, AskTyped DEF RoutesInv, RequestsSound, UnderWay, OpenAsks
<1>3. a.place \in Places /\ (a.existing \in Bares => Located(a.existing))
  BY <1>1 DEF RoutesBounded, AskLocated, UnderWay
<1>4. /\ made.place = a.place /\ made.at = clock
      /\ kept.place = a.place /\ kept.at = clock /\ kept.streak = 0
  BY DEF Made, Kept
<1> HIDE DEF made, kept
<1>5. clock \in 1 .. MaxClock /\ clock \in 0 .. MaxClock /\ Never \in 0 .. MaxClock
      /\ 0 \in 0 .. OffSamples
  BY RouteBounds DEF RoutesBounded, Never
<1>6. Located(made) /\ SessionLocated(kept)
  BY <1>3, <1>4, <1>5 DEF Located, SessionLocated
<1>7. /\ what # Failed => Located(what)
      /\ own # Failed => Located(own)
  BY <1>2, <1>3, <1>6 DEF Own, Sound
<1>8. AskLocated(Answered(a, own)) /\ \A u \in Asks : AskLocated(Answered(ask[u], what))
  BY <1>7, AnswerLocated
<1> HIDE DEF what, own
<1>9. \A u \in Asks : AskLocated(ask'[u])
  BY <1>1, <1>8 DEF Closes, RoutesBounded
<1>10. failure' \in [RouteOrders \X Kinds -> 0 .. MaxClock]
  BY <1>1, <1>2, <1>5 DEF RoutesBounded
<1>11. \A o \in RouteOrders : SessionLocated(session'[o])
  BY <1>1, <1>6 DEF RoutesInv, RoutesTyped, RoutesBounded
<1> QED BY <1>1, <1>9, <1>10, <1>11 DEF RoutesBounded, deliveryVars

\* Deliveries go on, coordinates are corrected and time passes.
LEMMA TimePassesWithin ==
  ASSUME RoutesInv, RoutesBounded,
         (\E o \in RouteOrders : LegEnds(o) \/ PlaceCorrected(o)) \/ RouteTick
  PROVE  RoutesBounded'
<1>1. UNCHANGED serviceVars /\ UNCHANGED ask
  BY DEF LegEnds, PlaceCorrected, RouteTick
<1>2. place' \in [RouteOrders -> Places] /\ clock' \in 1 .. MaxClock
  <2>1. CASE \E o \in RouteOrders : LegEnds(o)
    BY <2>1 DEF LegEnds, RoutesBounded
  <2>2. CASE \E o \in RouteOrders : PlaceCorrected(o)
    <3>1. PICK o \in RouteOrders : PlaceCorrected(o)
      BY <2>2
    <3>2. place[o] \in Places /\ place[o] < MaxPlace /\ UNCHANGED clock
          /\ place' = [place EXCEPT ![o] = place[o] + 1]
      BY <3>1 DEF PlaceCorrected, RoutesBounded
    <3>3. place[o] + 1 \in Places
      BY <3>2, RouteBounds DEF Places
    <3> QED BY <3>2, <3>3 DEF RoutesBounded
  <2>3. CASE RouteTick
    BY <2>3, RouteBounds DEF RouteTick, RoutesBounded, deliveryVars
  <2> QED BY <2>1, <2>2, <2>3
<1> QED BY <1>1, <1>2 DEF RoutesBounded, serviceVars

-----------------------------------------------------------------------------
\* The bounds hold at first.
LEMMA RoutesStartWithin == RoutesInit => RoutesBounded
<1> SUFFICES ASSUME RoutesInit PROVE RoutesBounded
  OBVIOUS
<1>1. 0 \in Places /\ 1 \in 1 .. MaxClock /\ 0 \in 0 .. MaxClock /\ 0 \in 0 .. MaxCallsPerOrder
      /\ 0 \in 0 .. WindowBudget /\ 0 \in 0 .. MaxConcurrent /\ Never = 0
  BY RouteBounds, RoutesAssumption DEF Never, Places
<1>2. window \in Windows
  <2>1. PICK zero \in 0 .. MaxClock : zero = 0
    BY <1>1
  <2>2. PICK none \in 0 .. WindowBudget : none = 0
    BY <1>1
  <2>3. [start |-> zero, count |-> none] \in Windows
    BY DEF Windows
  <2> QED BY <1>1, <2>1, <2>2, <2>3 DEF RoutesInit
<1>3. \A o \in RouteOrders : SessionLocated(session[o])
  BY DEF RoutesInit, SessionLocated
<1>4. \A q \in Asks : AskLocated(ask[q])
  <2>1. AskLocated(NotAsked)
    BY DEF AskLocated, NotAsked, UnderWay
  <2> QED BY <2>1 DEF RoutesInit
<1> QED BY <1>1, <1>2, <1>3, <1>4 DEF RoutesInit, RoutesBounded

\* The bounds hold after every step.
LEMMA RoutesStayWithin ==
  RoutesInv /\ RoutesBounded /\ [RoutesNext]_routeVars => RoutesBounded'
<1> SUFFICES ASSUME RoutesInv, RoutesBounded, [RoutesNext]_routeVars PROVE RoutesBounded'
  OBVIOUS
<1>1. RoutesInv'
  BY RoutesInvNext
<1>2. CASE UNCHANGED routeVars
  BY <1>2 DEF RoutesBounded, routeVars, deliveryVars, serviceVars
<1>3. CASE RoutesNext
  <2>1. CASE (\E o \in RouteOrders : LegEnds(o) \/ PlaceCorrected(o)) \/ RouteTick
    BY <2>1, TimePassesWithin
  <2>2. CASE \E o \in RouteOrders : \E q \in Asks : AsksRoute(q, o)
    BY <2>2, AsksWithin
  <2>3. CASE \E q \in Asks : Proceeds(q)
    BY <1>1, <2>3, EvaluatesWithin, RefreshesWithin, ForgetsWithin, CallsWithin, StoresWithin
    DEF Proceeds
  <2>4. CASE \E q \in Asks : StopsWaiting(q)
    BY <2>4, StopsWithin
  <2> QED BY <1>3, <2>1, <2>2, <2>3, <2>4 DEF RoutesNext
<1> QED BY <1>2, <1>3

\* The budgets are kept: never more calls for an order, in a window or at a
\* time than are allowed, and no time or place the service was not told.
THEOREM RoutesTyping == RoutesSpec => []RoutesTypeOK
<1>1. RoutesInit => RoutesInv /\ RoutesBounded
  BY RoutesInvInit, RoutesStartWithin
<1>2. RoutesInv /\ RoutesBounded /\ [RoutesNext]_routeVars => (RoutesInv /\ RoutesBounded)'
  BY RoutesInvNext, RoutesStayWithin
<1>3. RoutesInv /\ RoutesBounded => RoutesTypeOK
  BY RoutesInTypes
<1> QED BY <1>1, <1>2, <1>3, PTL DEF RoutesSpec

-----------------------------------------------------------------------------
(* Chat.                                                                   *)

\* A request that has been admitted.
Sends == [step : {"insert", "commit", "deliver"}, sender : Users, client : ClientIds,
          rider : ChatRiders, held : SUBSET ChatRiders, id : Nat]
Numbered == {"commit", "deliver"}

ChatTyped ==
  /\ rider \in ChatRiders \cup {Nobody}
  /\ messages \subseteq Rows
  /\ lastId \in Nat /\ lastId <= MaxMessages
  /\ request \in [Requests -> {Idle} \cup Sends]
  /\ told \in [Ids -> Nat]
  /\ known \in [Readers -> SUBSET Ids]
  /\ cursor \in [Readers -> Nat]

\* A message belongs to a rider who has had the delivery since it was asked for.
Rightful(m) == m.rider \in m.held /\ (m.sender # Customer => m.rider = m.sender)
RequestsHonest == \A q \in Requests : request[q].step # "idle" => Rightful(request[q])

\* A number is handed out once, and nobody was told of it before its turn.
NumbersTaken ==
  /\ \A m \in messages : m.id <= lastId
  /\ \A m, n \in messages : m.id = n.id => m = n
  /\ \A q \in Requests : request[q].step \in Numbered =>
       request[q].id \in Ids /\ request[q].id <= lastId /\ told[request[q].id] = 0
  /\ \A q, p \in Requests :
       request[q].step \in Numbered /\ request[p].step \in Numbered
         /\ request[q].id = request[p].id => q = p
  /\ \A i \in Ids : i > lastId => told[i] = 0

\* The key of an insert in progress is not in the table, nor in progress twice.
KeysTaken ==
  \A q \in Requests : request[q].step = "commit" =>
    /\ \A m \in messages : m.id # request[q].id /\ ~SameKey(m, request[q])
    /\ \A p \in Requests : request[p].step = "commit" /\ SameKey(request[p], request[q]) => p = q

\* What is about to be told is stored; what was fetched last is, too.
StoredBefore ==
  /\ \A q \in Requests : request[q].step = "deliver" => \E m \in messages : m.id = request[q].id
  /\ \A u \in Readers : cursor[u] = 0 \/ \E m \in messages : m.id = cursor[u]

ChatInv ==
  /\ ChatTyped
  /\ RequestsHonest /\ NumbersTaken /\ KeysTaken /\ StoredBefore
  /\ ThreadsKeptApart /\ SentOnce /\ NothingSkipped

-----------------------------------------------------------------------------
\* Some message of a set of numbered ones has the highest number.
LEMMA HighestOne ==
  ASSUME NEW S \in SUBSET Ids, S # {}
  PROVE  Max(S) \in S /\ \A y \in S : Max(S) >= y
<1> DEFINE N == MaxMessages
           T == {n \in Nat : N - n \in S}
           less == OpToRel(<, Nat)
<1>0. N \in Nat /\ S \subseteq 1 .. N
  BY ChatAssumption DEF Ids
<1> HIDE DEF N
<1>1. T # {}
  <2>1. PICK x \in S : TRUE
    OBVIOUS
  <2>2. N - x \in Nat /\ N - (N - x) = x
    BY <1>0
  <2> QED BY <2>1, <2>2
<1>2. PICK n \in T : \A k \in T : <<k, n>> \notin less
  <2>1. T \subseteq Nat
    OBVIOUS
  <2> QED BY <1>1, <2>1, NatLessThanWellFounded, WFMin
<1>3. \A k \in T : ~(k < n)
  BY <1>2 DEF OpToRel
<1>4. \A y \in S : N - n >= y
  <2> SUFFICES ASSUME NEW y \in S PROVE N - n >= y
    OBVIOUS
  <2>1. y \in Nat /\ N - y \in Nat /\ N - (N - y) = y /\ n \in Nat
    BY <1>0
  <2>2. N - y \in T
    BY <2>1
  <2>3. ~(N - y < n)
    BY <1>3, <2>2
  <2> HIDE DEF T, less
  <2> QED BY <1>0, <2>1, <2>3
<1> QED BY <1>2, <1>4 DEF Max

\* A request that does something is a record of all its fields.
LEMMA RequestTyped ==
  ASSUME ChatTyped, NEW q \in Requests
  PROVE  /\ request[q] \in {Idle} \cup Sends
         /\ request[q] = Idle \/ request[q].step # "idle"
         /\ request[q].step # "idle" => request[q] \in Sends
         /\ Idle.step = "idle"
<1>1. request[q] \in {Idle} \cup Sends
  BY DEF ChatTyped
<1>2. Idle.step = "idle"
  BY DEF Idle
<1>3. request[q] \in Sends => request[q].step # "idle"
  BY DEF Sends
<1> QED BY <1>1, <1>2, <1>3

\* Requests come, go and wait, the delivery changes hands: the thread is as it was.
LEMMA SameThread ==
  ASSUME ChatInv, rider' \in ChatRiders \cup {Nobody},
         request' \in [Requests -> {Idle} \cup Sends], RequestsHonest',
         \A q \in Requests :
           \/ request'[q].step \notin Numbered
           \/ /\ request'[q].step = request[q].step /\ request'[q].id = request[q].id
              /\ request'[q].sender = request[q].sender
              /\ request'[q].client = request[q].client,
         UNCHANGED <<messages, lastId, told, known, cursor>>
  PROVE  ChatInv'
<1>1. ChatTyped'
  BY DEF ChatInv, ChatTyped
<1>2. NumbersTaken'
  BY DEF ChatInv, NumbersTaken
<1>3. KeysTaken'
  <2> SUFFICES ASSUME NEW q \in Requests, request'[q].step = "commit"
               PROVE  /\ \A m \in messages : m.id # request'[q].id /\ ~SameKey(m, request'[q])
                      /\ \A p \in Requests : request'[p].step = "commit"
                           /\ SameKey(request'[p], request'[q]) => p = q
    BY DEF KeysTaken
  <2>1. /\ request[q].step = "commit" /\ request'[q].id = request[q].id
        /\ request'[q].sender = request[q].sender /\ request'[q].client = request[q].client
    BY DEF Numbered
  <2>2. \A p \in Requests : request'[p].step = "commit" =>
          /\ request[p].step = "commit"
          /\ request'[p].sender = request[p].sender /\ request'[p].client = request[p].client
    BY DEF Numbered
  <2> QED BY <2>1, <2>2 DEF ChatInv, KeysTaken, SameKey
<1>4. StoredBefore'
  BY DEF ChatInv, StoredBefore, Numbered
<1>5. ThreadsKeptApart' /\ SentOnce' /\ NothingSkipped'
  BY DEF ChatInv, ThreadsKeptApart, SentOnce, NothingSkipped, Scope
<1> QED BY <1>1, <1>2, <1>3, <1>4, <1>5 DEF ChatInv

\* A request is admitted or ends.
LEMMA RequestMoves ==
  ASSUME ChatInv, NEW q \in Requests, NEW a \in {Idle} \cup Sends,
         a.step \notin Numbered, a.step # "idle" => Rightful(a),
         request' = [request EXCEPT ![q] = a],
         UNCHANGED <<rider, messages, lastId, told, known, cursor>>
  PROVE  ChatInv'
<1>1. request' \in [Requests -> {Idle} \cup Sends]
  BY DEF ChatInv, ChatTyped
<1>2. \A p \in Requests : request'[p] = IF p = q THEN a ELSE request[p]
  BY DEF ChatInv, ChatTyped
<1>3. RequestsHonest'
  BY <1>2 DEF ChatInv, RequestsHonest
<1>4. rider' \in ChatRiders \cup {Nobody}
  BY DEF ChatInv, ChatTyped
<1> QED BY <1>1, <1>2, <1>3, <1>4, SameThread

\* The delivery is taken, and every request in progress remembers by whom.
LEMMA HandoverKeeps ==
  ASSUME ChatInv, NEW r \in ChatRiders, RiderTakes(r)
  PROVE  ChatInv'
<1>1. /\ rider' = r
      /\ request' = [q \in Requests |-> IF request[q] = Idle THEN Idle
                                        ELSE [request[q] EXCEPT !.held = @ \cup {r}]]
      /\ UNCHANGED <<messages, lastId, told, known, cursor>>
  BY DEF RiderTakes
<1>2. ASSUME NEW q \in Requests
      PROVE  /\ request'[q] \in {Idle} \cup Sends
             /\ \/ request[q] = Idle /\ request'[q] = Idle
                \/ /\ request[q] \in Sends
                   /\ request'[q].step = request[q].step /\ request'[q].id = request[q].id
                   /\ request'[q].sender = request[q].sender
                   /\ request'[q].client = request[q].client
                   /\ request'[q].rider = request[q].rider
                   /\ request[q].held \subseteq request'[q].held
  <2>1. CASE request[q] = Idle
    BY <1>1, <2>1
  <2>2. CASE request[q] # Idle
    <3>1. request[q] \in Sends
      BY <2>2 DEF ChatInv, ChatTyped
    <3>2. request'[q] = [request[q] EXCEPT !.held = request[q].held \cup {r}]
      BY <1>1, <2>2
    <3> QED BY <3>1, <3>2 DEF Sends
  <2> QED BY <2>1, <2>2
<1>3. request' \in [Requests -> {Idle} \cup Sends]
  <2>1. request' = [q \in Requests |-> request'[q]]
    BY <1>1
  <2> QED BY <1>2, <2>1
<1>4. RequestsHonest'
  BY <1>2, RequestTyped DEF ChatInv, RequestsHonest, Rightful
<1>5. \A q \in Requests : request'[q] = Idle => request'[q].step \notin Numbered
  BY RequestTyped DEF ChatInv, Numbered
<1> QED BY <1>1, <1>2, <1>3, <1>4, <1>5, SameThread

\* What is admitted belongs to the rider it names.
LEMMA AsksKeepsThread ==
  ASSUME ChatInv, NEW q \in Requests, NEW u \in Users, NEW client \in ClientIds,
         AsksToSend(q, u, client)
  PROVE  ChatInv'
<1> DEFINE a == [step |-> "insert", sender |-> u, client |-> client,
                 rider |-> rider, held |-> {rider}, id |-> 0]
<1>1. /\ request' = [request EXCEPT ![q] = a]
      /\ rider # Nobody /\ (Role(u) = "rider" => rider = u)
      /\ UNCHANGED <<rider, messages, lastId, told, known, cursor>>
  BY DEF AsksToSend, CanSend
<1>2. rider \in ChatRiders
  BY <1>1 DEF ChatInv, ChatTyped
<1>3. a \in Sends
  BY <1>2 DEF Sends
<1>4. a.step = "insert" /\ Rightful(a)
  BY <1>1 DEF Rightful, Role
<1> HIDE DEF a
<1> QED BY <1>1, <1>3, <1>4, RequestMoves DEF Numbered

\* A number is taken for a key that is neither stored nor in progress.
LEMMA NumberKeeps ==
  ASSUME ChatInv, NEW q \in Requests, request[q].step = "insert", TakesNumber(q),
         \A other \in Requests \ {q} :
           request[other].step = "commit" => ~SameKey(request[other], request[q]),
         ~\E m \in messages : SameKey(m, request[q]),
         UNCHANGED <<rider, messages, told, known, cursor>>
  PROVE  ChatInv'
<1> DEFINE a == [request[q] EXCEPT !.step = "commit", !.id = lastId + 1]
<1>1. /\ request' = [request EXCEPT ![q] = a]
      /\ lastId' = lastId + 1 /\ lastId < MaxMessages
  BY DEF TakesNumber
<1>2. request[q] \in Sends /\ lastId \in Nat /\ MaxMessages \in Nat
  BY RequestTyped, ChatAssumption DEF ChatInv, ChatTyped
<1>3. lastId + 1 \in Ids /\ lastId + 1 \in Nat /\ lastId + 1 <= MaxMessages
  BY <1>1, <1>2 DEF Ids
<1>4. a \in Sends
  BY <1>2, <1>3 DEF Sends
<1>5. /\ a.step = "commit" /\ a.id = lastId + 1 /\ a.sender = request[q].sender
      /\ a.client = request[q].client /\ a.rider = request[q].rider /\ a.held = request[q].held
  BY <1>2 DEF Sends
<1> HIDE DEF a
<1>6. \A p \in Requests : request'[p] = IF p = q THEN a ELSE request[p]
  BY <1>1 DEF ChatInv, ChatTyped
<1>7. ChatTyped'
  BY <1>1, <1>3, <1>4 DEF ChatInv, ChatTyped
<1>8. RequestsHonest'
  BY <1>5, <1>6 DEF ChatInv, RequestsHonest, Rightful
<1>9. NumbersTaken'
  <2>1. \A m \in messages : m.id \in Nat /\ m.id <= lastId
    BY DEF ChatInv, NumbersTaken, ChatTyped, Rows, Ids
  <2>2. \A m \in messages : m.id <= lastId + 1
    BY <1>2, <2>1
  <2>3. told[lastId + 1] = 0
    <3>1. lastId + 1 > lastId
      BY <1>2
    <3> QED BY <1>3, <3>1 DEF ChatInv, NumbersTaken
  <2>4. \A p \in Requests \ {q} : request[p].step \in Numbered =>
          /\ request[p].id \in Ids /\ request[p].id <= lastId + 1 /\ told[request[p].id] = 0
          /\ request[p].id # lastId + 1
    <3> SUFFICES ASSUME NEW p \in Requests \ {q}, request[p].step \in Numbered
                 PROVE  /\ request[p].id \in Ids /\ request[p].id <= lastId + 1
                        /\ told[request[p].id] = 0 /\ request[p].id # lastId + 1
      OBVIOUS
    <3>1. request[p].id \in Ids /\ request[p].id <= lastId /\ told[request[p].id] = 0
      BY DEF ChatInv, NumbersTaken
    <3>2. request[p].id \in Nat
      BY <3>1 DEF Ids
    <3>3. request[p].id <= lastId + 1 /\ request[p].id # lastId + 1
      BY <1>2, <3>1, <3>2
    <3> QED BY <3>1, <3>3
  <2>5. \A i \in Ids : i > lastId + 1 => told[i] = 0
    <3>1. \A i \in Ids : i > lastId + 1 => i > lastId
      BY <1>2 DEF Ids
    <3> QED BY <3>1 DEF ChatInv, NumbersTaken
  <2>6. \A p \in Requests : request'[p].step \in Numbered =>
          /\ request'[p].id \in Ids /\ request'[p].id <= lastId + 1 /\ told[request'[p].id] = 0
    BY <1>2, <1>3, <1>5, <1>6, <2>3, <2>4
  <2>7. \A p, s \in Requests :
          request'[p].step \in Numbered /\ request'[s].step \in Numbered
            /\ request'[p].id = request'[s].id => p = s
    <3> SUFFICES ASSUME NEW p \in Requests, NEW s \in Requests,
                        request'[p].step \in Numbered, request'[s].step \in Numbered,
                        request'[p].id = request'[s].id
                 PROVE  p = s
      OBVIOUS
    <3>1. CASE p = q \/ s = q
      BY <1>5, <1>6, <2>4, <3>1
    <3>2. CASE p # q /\ s # q
      BY <1>6, <3>2 DEF ChatInv, NumbersTaken
    <3> QED BY <3>1, <3>2
  <2> QED BY <1>1, <2>2, <2>5, <2>6, <2>7 DEF ChatInv, NumbersTaken
<1>10. KeysTaken'
  <2> SUFFICES ASSUME NEW p \in Requests, request'[p].step = "commit"
               PROVE  /\ \A m \in messages : m.id # request'[p].id /\ ~SameKey(m, request'[p])
                      /\ \A s \in Requests : request'[s].step = "commit"
                           /\ SameKey(request'[s], request'[p]) => s = p
    BY DEF KeysTaken
  <2>1. CASE p = q
    <3>1. \A m \in messages : m.id # lastId + 1
      BY <1>2 DEF ChatInv, NumbersTaken, ChatTyped, Rows, Ids
    <3> QED BY <1>5, <1>6, <2>1, <3>1 DEF SameKey
  <2>2. CASE p # q
    BY <1>5, <1>6, <2>2 DEF ChatInv, KeysTaken, SameKey
  <2> QED BY <2>1, <2>2
<1>11. StoredBefore'
  BY <1>5, <1>6 DEF ChatInv, StoredBefore
<1>12. ThreadsKeptApart' /\ SentOnce' /\ NothingSkipped'
  BY DEF ChatInv, ThreadsKeptApart, SentOnce, NothingSkipped, Scope
<1> QED BY <1>7, <1>8, <1>9, <1>10, <1>11, <1>12 DEF ChatInv

\* The statement finds the row, or takes a number.
LEMMA InsertsKeeps ==
  ASSUME ChatInv, NEW q \in Requests, Inserts(q)
  PROVE  ChatInv'
<1>1. CASE \E m \in messages : SameKey(m, request[q])
  <2>1. /\ request' = [request EXCEPT ![q] = Idle]
        /\ UNCHANGED <<rider, messages, lastId, told, known, cursor>>
    BY <1>1 DEF Inserts
  <2> QED BY <2>1, RequestTyped, RequestMoves DEF ChatInv, Numbered
<1>2. CASE ~\E m \in messages : SameKey(m, request[q])
  BY <1>2, NumberKeeps DEF Inserts
<1> QED BY <1>1, <1>2

\* The row becomes visible under its number, and nobody has fetched that far
\* unless it says so.
LEMMA ChatCommitKeeps ==
  ASSUME ChatInv, NEW q \in Requests, CommitsMessage(q)
  PROVE  ChatInv'
<1> DEFINE p == request[q]
           m == Stored(p)
           a == [p EXCEPT !.step = "deliver"]
<1>1. /\ p.step = "commit"
      /\ messages' = messages \cup {m}
      /\ request' = [request EXCEPT ![q] = a]
      /\ UNCHANGED <<rider, lastId, told, known, cursor>>
  BY DEF CommitsMessage
<1>2. p \in Sends
  BY <1>1, RequestTyped DEF ChatInv
<1>3. p.id \in Ids /\ p.id <= lastId /\ told[p.id] = 0
  BY <1>1 DEF ChatInv, NumbersTaken, Numbered
<1>4. Rightful(p)
  BY <1>1 DEF ChatInv, RequestsHonest
<1>5. /\ m.id = p.id /\ m.sender = p.sender /\ m.client = p.client /\ m.rider = p.rider
      /\ m.held = p.held /\ m.read = FALSE
      /\ m.overtaken = \E u \in Readers : cursor[u] > p.id
  BY DEF Stored
<1>6. m \in Rows
  <2>1. (\E u \in Readers : cursor[u] > p.id) \in BOOLEAN
    OBVIOUS
  <2>2. p.sender \in Users /\ p.client \in ClientIds /\ p.rider \in ChatRiders
        /\ p.held \in SUBSET ChatRiders
    BY <1>2 DEF Sends
  <2> QED BY <1>3, <2>1, <2>2 DEF Stored, Rows
<1>7. a \in Sends /\ a.step = "deliver" /\ a.id = p.id /\ a.rider = p.rider /\ a.held = p.held
      /\ a.sender = p.sender
  BY <1>2 DEF Sends
<1>8. \A n \in messages : n.id # p.id /\ ~SameKey(n, p)
  BY <1>1 DEF ChatInv, KeysTaken
<1> HIDE DEF m, a
<1>9. \A s \in Requests : request'[s] = IF s = q THEN a ELSE request[s]
  BY <1>1 DEF ChatInv, ChatTyped
<1>10. ChatTyped'
  BY <1>1, <1>6, <1>7 DEF ChatInv, ChatTyped
<1>11. RequestsHonest'
  BY <1>4, <1>7, <1>9 DEF ChatInv, RequestsHonest, Rightful
<1>12. NumbersTaken'
  <2>1. \A n \in messages' : n.id <= lastId
    BY <1>1, <1>3, <1>5 DEF ChatInv, NumbersTaken
  <2>2. \A n, o \in messages' : n.id = o.id => n = o
    BY <1>1, <1>5, <1>8 DEF ChatInv, NumbersTaken
  <2>3. \A s \in Requests : request'[s].step \in Numbered =>
          request[s].step \in Numbered /\ request'[s].id = request[s].id
    BY <1>1, <1>7, <1>9 DEF Numbered
  <2> QED BY <1>1, <2>1, <2>2, <2>3 DEF ChatInv, NumbersTaken
<1>13. KeysTaken'
  <2> SUFFICES ASSUME NEW s \in Requests, request'[s].step = "commit"
               PROVE  /\ \A n \in messages' : n.id # request'[s].id /\ ~SameKey(n, request'[s])
                      /\ \A o \in Requests : request'[o].step = "commit"
                           /\ SameKey(request'[o], request'[s]) => o = s
    BY DEF KeysTaken
  <2>1. s # q /\ request'[s] = request[s] /\ request[s].step = "commit"
    BY <1>7, <1>9
  <2>2. p.id # request[s].id
    BY <1>1, <2>1 DEF ChatInv, NumbersTaken, Numbered
  <2>3. ~SameKey(p, request[s])
    BY <1>1, <2>1 DEF ChatInv, KeysTaken
  <2>4. m.id # request[s].id /\ ~SameKey(m, request[s])
    BY <1>5, <2>2, <2>3 DEF SameKey
  <2>5. \A n \in messages : n.id # request[s].id /\ ~SameKey(n, request[s])
    BY <2>1 DEF ChatInv, KeysTaken
  <2>6. \A o \in Requests : request'[o].step = "commit" =>
          request[o].step = "commit" /\ request'[o] = request[o]
    BY <1>7, <1>9
  <2>7. \A o \in Requests : request[o].step = "commit" /\ SameKey(request[o], request[s]) => o = s
    BY <2>1 DEF ChatInv, KeysTaken
  <2> QED BY <1>1, <2>1, <2>4, <2>5, <2>6, <2>7
<1>14. StoredBefore'
  <2>1. \A s \in Requests : request'[s].step = "deliver" =>
          \E n \in messages' : n.id = request'[s].id
    BY <1>1, <1>5, <1>7, <1>9 DEF ChatInv, StoredBefore
  <2>2. \A u \in Readers : cursor'[u] = 0 \/ \E n \in messages' : n.id = cursor'[u]
    BY <1>1 DEF ChatInv, StoredBefore
  <2> QED BY <2>1, <2>2 DEF StoredBefore
<1>15. ThreadsKeptApart'
  BY <1>1, <1>4, <1>5 DEF ChatInv, ThreadsKeptApart, Rightful
<1>16. SentOnce'
  <2>1. \A n, o \in messages' : SameKey(n, o) => n = o
    <3> SUFFICES ASSUME NEW n \in messages', NEW o \in messages', SameKey(n, o) PROVE n = o
      OBVIOUS
    <3>1. n \in messages => ~SameKey(n, m) /\ ~SameKey(m, n)
      BY <1>5, <1>8 DEF SameKey
    <3>2. o \in messages => ~SameKey(o, m) /\ ~SameKey(m, o)
      BY <1>5, <1>8 DEF SameKey
    <3> QED BY <1>1, <3>1, <3>2 DEF ChatInv, SentOnce
  <2> QED BY <1>1, <2>1 DEF ChatInv, SentOnce
<1>17. NothingSkipped'
  <2>1. ASSUME ~m.overtaken, NEW u \in Readers, m.id <= cursor[u]
        PROVE  FALSE
    <3>1. cursor[u] \in Nat /\ p.id \in Nat /\ p.id > 0
      BY <1>3 DEF ChatInv, ChatTyped, Ids
    <3>2. ~(cursor[u] > p.id)
      BY <1>5, <2>1
    <3>3. cursor[u] = p.id
      BY <1>5, <2>1, <3>1, <3>2
    <3>4. \E n \in messages : n.id = p.id
      BY <3>1, <3>3 DEF ChatInv, StoredBefore
    <3> QED BY <1>8, <3>4
  <2> SUFFICES ASSUME NEW n \in messages', ~n.overtaken
               PROVE  /\ \A u \in Readers :
                           n \in Scope(u)' /\ n.id <= cursor[u] => n.id \in known[u]
                      /\ n.read /\ Recipient(n) \in Readers => n.id \in known[Recipient(n)]
    BY <1>1 DEF NothingSkipped
  <2>2. CASE n = m
    BY <1>5, <2>1, <2>2
  <2>3. CASE n # m
    <3>1. n \in messages
      BY <1>1, <2>3
    <3>2. \A u \in Readers : n \in Scope(u)' => n \in Scope(u)
      BY <3>1 DEF Scope
    <3> QED BY <3>1, <3>2 DEF ChatInv, NothingSkipped
  <2> QED BY <2>2, <2>3
<1> QED BY <1>10, <1>11, <1>12, <1>13, <1>14, <1>15, <1>16, <1>17 DEF ChatInv

\* The other side is told, for the first time.
LEMMA DeliversKeeps ==
  ASSUME ChatInv, NEW q \in Requests, Delivers(q)
  PROVE  ChatInv'
<1> DEFINE i == request[q].id
           m == CHOOSE x \in messages : x.id = i
<1>1. /\ request[q].step = "deliver"
      /\ told' = [told EXCEPT ![m.id] = told[m.id] + 1]
      /\ request' = [request EXCEPT ![q] = Idle]
      /\ UNCHANGED <<rider, messages, lastId, known, cursor>>
  BY DEF Delivers
<1>2. m.id = i
  <2>1. \E x \in messages : x.id = i
    BY <1>1 DEF ChatInv, StoredBefore
  <2> QED BY <2>1
<1>3. i \in Ids /\ i <= lastId /\ told[i] = 0
  BY <1>1 DEF ChatInv, NumbersTaken, Numbered
<1> HIDE DEF m
<1>4. told' = [told EXCEPT ![i] = 1]
  BY <1>1, <1>2, <1>3
<1> HIDE DEF i
<1>5. /\ told' \in [Ids -> Nat]
      /\ \A j \in Ids : told'[j] = IF j = i THEN 1 ELSE told[j]
  BY <1>3, <1>4 DEF ChatInv, ChatTyped
<1>6. \A s \in Requests : request'[s] = IF s = q THEN Idle ELSE request[s]
  BY <1>1 DEF ChatInv, ChatTyped
<1>7. Idle.step = "idle"
  BY DEF Idle
<1>8. ChatTyped'
  <2>1. request' \in [Requests -> {Idle} \cup Sends]
    BY <1>1 DEF ChatInv, ChatTyped
  <2> QED BY <1>1, <1>5, <2>1 DEF ChatInv, ChatTyped
<1>9. RequestsHonest'
  BY <1>6, <1>7 DEF ChatInv, RequestsHonest
<1>10. NumbersTaken'
  <2>1. ASSUME NEW s \in Requests, request'[s].step \in Numbered
        PROVE  /\ request[s].step \in Numbered /\ request'[s] = request[s]
               /\ request[s].id \in Ids /\ request[s].id <= lastId /\ told'[request[s].id] = 0
    <3>1. s # q /\ request'[s] = request[s]
      BY <1>6, <1>7, <2>1 DEF Numbered
    <3>2. request[s].step \in Numbered
      BY <2>1, <3>1
    <3>3. request[s].id \in Ids /\ request[s].id <= lastId /\ told[request[s].id] = 0
      BY <3>2 DEF ChatInv, NumbersTaken
    <3>4. request[s].id # i
      BY <1>1, <3>1, <3>2 DEF ChatInv, NumbersTaken, Numbered, i
    <3> QED BY <1>5, <3>1, <3>2, <3>3, <3>4
  <2>2. \A j \in Ids : j > lastId => told'[j] = 0
    <3>1. i \in Nat /\ lastId \in Nat /\ i <= lastId
      BY <1>3 DEF ChatInv, ChatTyped, Ids
    <3>2. ~(i > lastId)
      BY <3>1
    <3> QED BY <1>5, <3>2 DEF ChatInv, NumbersTaken
  <2> QED BY <1>1, <2>1, <2>2 DEF ChatInv, NumbersTaken
<1>11. KeysTaken'
  <2>1. \A s \in Requests : request'[s].step = "commit" => request'[s] = request[s]
    BY <1>6, <1>7
  <2> QED BY <1>1, <2>1 DEF ChatInv, KeysTaken
<1>12. StoredBefore'
  BY <1>1, <1>6, <1>7 DEF ChatInv, StoredBefore
<1>13. SentOnce'
  <2>1. \A j \in Ids : told'[j] <= 1
    BY <1>5 DEF ChatInv, SentOnce
  <2> QED BY <1>1, <2>1 DEF ChatInv, SentOnce
<1>14. ThreadsKeptApart' /\ NothingSkipped'
  BY <1>1 DEF ChatInv, ThreadsKeptApart, NothingSkipped, Scope
<1> QED BY <1>8, <1>9, <1>10, <1>11, <1>12, <1>13, <1>14 DEF ChatInv

\* The numbers after a user's cursor.
LEMMA PageTyped ==
  ASSUME ChatInv, NEW u \in Readers
  PROVE  LET new == {m.id : m \in {x \in Scope(u) : x.id > cursor[u]}} IN
         /\ new \in SUBSET Ids /\ IsFiniteSet(new) /\ Page(u) \subseteq new
         /\ \A i, j \in new : i \in Page(u) /\ j <= i => j \in Page(u)
<1> DEFINE new == {m.id : m \in {x \in Scope(u) : x.id > cursor[u]}}
<1>1. new \in SUBSET Ids
  BY DEF Scope, ChatInv, ChatTyped, Rows
<1>2. IsFiniteSet(new)
  <2>1. IsFiniteSet(Ids)
    BY ChatAssumption, FS_Interval DEF Ids
  <2> QED BY <1>1, <2>1, FS_Subset
<1>3. Page(u) = {i \in new : Cardinality({j \in new : j < i}) < ChatPage}
  BY DEF Page
<1> HIDE DEF new
<1>4. ASSUME NEW i \in new, NEW j \in new, i \in Page(u), j <= i
      PROVE  j \in Page(u)
  <2> DEFINE A == {k \in new : k < i}
             B == {k \in new : k < j}
  <2>1. B \in SUBSET A
    <3>1. new \subseteq Nat
      BY <1>1 DEF Ids
    <3>2. \A k \in new : k < j => k < i
      BY <1>4, <3>1
    <3> QED BY <3>2
  <2>2. IsFiniteSet(A) /\ IsFiniteSet(B)
    BY <1>2, FS_Subset
  <2>3. Cardinality(A) < ChatPage
    BY <1>3, <1>4
  <2> HIDE DEF A, B
  <2>4. /\ Cardinality(A) \in Nat /\ Cardinality(B) \in Nat
        /\ Cardinality(B) <= Cardinality(A)
    BY <2>1, <2>2, FS_Subset, FS_CardinalityType
  <2>5. Cardinality(B) < ChatPage
    BY <2>3, <2>4, ChatAssumption
  <2> QED BY <1>3, <2>5 DEF B
<1>5. Page(u) \subseteq new
  BY <1>3
<1>6. \A i, j \in new : i \in Page(u) /\ j <= i => j \in Page(u)
  BY <1>4
<1> QED BY <1>1, <1>2, <1>5, <1>6 DEF new

\* The page goes on from the cursor without leaving a message out.
LEMMA ListsKeeps ==
  ASSUME ChatInv, NEW u \in Readers, ListsMessages(u)
  PROVE  ChatInv'
<1> DEFINE new == {m.id : m \in {x \in Scope(u) : x.id > cursor[u]}}
           top == Max(Page(u))
<1>1. /\ Page(u) # {}
      /\ known' = [known EXCEPT ![u] = @ \cup Page(u)]
      /\ cursor' = [cursor EXCEPT ![u] = top]
      /\ UNCHANGED <<rider, messages, lastId, request, told>>
  BY DEF ListsMessages
<1>2. /\ new \in SUBSET Ids /\ Page(u) \subseteq new
      /\ \A i, j \in new : i \in Page(u) /\ j <= i => j \in Page(u)
  BY PageTyped
<1>3. top \in Page(u) /\ \A y \in Page(u) : top >= y
  <2>1. Page(u) \in SUBSET Ids
    BY <1>2
  <2> QED BY <1>1, <2>1, HighestOne
<1>4. \E m \in messages : m.id = top
  BY <1>2, <1>3 DEF Scope
<1>5. top \in Ids /\ top \in new
  BY <1>2, <1>3
<1>6. \A m \in Scope(u) : m.id > cursor[u] => m.id \in new
  OBVIOUS
<1> HIDE DEF top, new
<1>7. \A v \in Readers : /\ cursor'[v] = IF v = u THEN top ELSE cursor[v]
                         /\ known'[v] = IF v = u THEN known[u] \cup Page(u) ELSE known[v]
  BY <1>1 DEF ChatInv, ChatTyped
<1>8. ChatTyped'
  <2>1. known' \in [Readers -> SUBSET Ids]
    BY <1>1, <1>2 DEF ChatInv, ChatTyped
  <2>2. cursor' \in [Readers -> Nat]
    BY <1>1, <1>5 DEF ChatInv, ChatTyped, Ids
  <2> QED BY <1>1, <2>1, <2>2 DEF ChatInv, ChatTyped
<1>9. StoredBefore'
  BY <1>1, <1>4, <1>7 DEF ChatInv, StoredBefore
<1>10. NothingSkipped'
  <2> SUFFICES ASSUME NEW m \in messages, ~m.overtaken
               PROVE  /\ \A v \in Readers :
                           m \in Scope(v) /\ m.id <= cursor'[v] => m.id \in known'[v]
                      /\ m.read /\ Recipient(m) \in Readers => m.id \in known'[Recipient(m)]
    BY <1>1 DEF NothingSkipped, Scope
  <2>1. /\ \A v \in Readers : m \in Scope(v) /\ m.id <= cursor[v] => m.id \in known[v]
        /\ m.read /\ Recipient(m) \in Readers => m.id \in known[Recipient(m)]
    BY DEF ChatInv, NothingSkipped
  <2>2. \A v \in Readers : known[v] \subseteq known'[v]
    BY <1>7
  <2>3. ASSUME m \in Scope(u), m.id <= top PROVE m.id \in known'[u]
    <3>1. CASE m.id <= cursor[u]
      BY <2>1, <2>2, <2>3, <3>1
    <3>2. CASE ~(m.id <= cursor[u])
      <4>1. m.id \in Nat /\ cursor[u] \in Nat
        BY DEF ChatInv, ChatTyped, Rows, Ids
      <4>2. m.id > cursor[u]
        BY <3>2, <4>1
      <4>3. m.id \in new
        BY <1>6, <2>3, <4>2
      <4>4. m.id \in Page(u)
        BY <1>2, <1>3, <1>5, <2>3, <4>3
      <4> QED BY <1>7, <4>4
    <3> QED BY <3>1, <3>2
  <2> QED BY <1>7, <2>1, <2>2, <2>3
<1>11. RequestsHonest' /\ NumbersTaken' /\ KeysTaken' /\ ThreadsKeptApart' /\ SentOnce'
  BY <1>1 DEF ChatInv, RequestsHonest, NumbersTaken, KeysTaken, ThreadsKeptApart, SentOnce
<1> QED BY <1>8, <1>9, <1>10, <1>11 DEF ChatInv

\* Only what the app has fetched is marked.
LEMMA MarksKeeps ==
  ASSUME ChatInv, NEW u \in Readers, MarksRead(u)
  PROVE  ChatInv'
<1> DEFINE Seen(m) == m \in Scope(u) /\ m.id <= cursor[u] /\ Role(m.sender) # Role(u)
           Marked(m) == IF Seen(m) THEN [m EXCEPT !.read = TRUE] ELSE m
<1>1. /\ messages' = {Marked(m) : m \in messages}
      /\ UNCHANGED <<rider, lastId, request, told, known, cursor>>
  BY DEF MarksRead
<1>2. ASSUME NEW m \in messages
      PROVE  /\ Marked(m) \in Rows /\ Marked(m).id = m.id /\ Marked(m).sender = m.sender
             /\ Marked(m).client = m.client /\ Marked(m).rider = m.rider
             /\ Marked(m).held = m.held /\ Marked(m).overtaken = m.overtaken
             /\ Marked(m).read => m.read \/ Seen(m)
  <2>1. m \in Rows
    BY DEF ChatInv, ChatTyped
  <2> QED BY <2>1 DEF Rows
<1> HIDE DEF Marked
<1>3. \A n \in messages' : \E m \in messages : n = Marked(m)
  BY <1>1
<1>4. ChatTyped'
  BY <1>1, <1>2, <1>3 DEF ChatInv, ChatTyped
<1>5. NumbersTaken'
  <2>1. \A n \in messages' : n.id <= lastId
    BY <1>2, <1>3 DEF ChatInv, NumbersTaken
  <2>2. \A n, o \in messages' : n.id = o.id => n = o
    BY <1>2, <1>3 DEF ChatInv, NumbersTaken
  <2> QED BY <1>1, <2>1, <2>2 DEF ChatInv, NumbersTaken
<1>6. KeysTaken'
  <2> SUFFICES ASSUME NEW q \in Requests, request[q].step = "commit"
               PROVE  /\ \A n \in messages' : n.id # request[q].id /\ ~SameKey(n, request[q])
                      /\ \A p \in Requests : request[p].step = "commit"
                           /\ SameKey(request[p], request[q]) => p = q
    BY <1>1 DEF KeysTaken
  <2>1. \A m \in messages : m.id # request[q].id /\ ~SameKey(m, request[q])
    BY DEF ChatInv, KeysTaken
  <2>2. \A n \in messages' : n.id # request[q].id /\ ~SameKey(n, request[q])
    BY <1>2, <1>3, <2>1 DEF SameKey
  <2> QED BY <2>2 DEF ChatInv, KeysTaken
<1>7. StoredBefore'
  <2>1. \A i : (\E m \in messages : m.id = i) => \E n \in messages' : n.id = i
    BY <1>1, <1>2
  <2> QED BY <1>1, <2>1 DEF ChatInv, StoredBefore
<1>8. ThreadsKeptApart'
  BY <1>2, <1>3 DEF ChatInv, ThreadsKeptApart
<1>9. SentOnce'
  <2>1. \A n, o \in messages' : SameKey(n, o) => n = o
    <3> SUFFICES ASSUME NEW n \in messages', NEW o \in messages', SameKey(n, o) PROVE n = o
      OBVIOUS
    <3>1. PICK m \in messages : n = Marked(m)
      BY <1>3
    <3>2. PICK k \in messages : o = Marked(k)
      BY <1>3
    <3>3. SameKey(m, k)
      BY <1>2, <3>1, <3>2 DEF SameKey
    <3> QED BY <3>1, <3>2, <3>3 DEF ChatInv, SentOnce
  <2> QED BY <1>1, <2>1 DEF ChatInv, SentOnce
<1>10. NothingSkipped'
  <2> SUFFICES ASSUME NEW n \in messages', ~n.overtaken
               PROVE  /\ \A v \in Readers :
                           n \in Scope(v)' /\ n.id <= cursor[v] => n.id \in known[v]
                      /\ n.read /\ Recipient(n) \in Readers => n.id \in known[Recipient(n)]
    BY <1>1 DEF NothingSkipped
  <2>1. PICK m \in messages : n = Marked(m)
    BY <1>3
  <2>2. /\ \A v \in Readers : m \in Scope(v) /\ m.id <= cursor[v] => m.id \in known[v]
        /\ m.read /\ Recipient(m) \in Readers => m.id \in known[Recipient(m)]
    BY <1>2, <2>1 DEF ChatInv, NothingSkipped
  <2>3. Recipient(n) = Recipient(m) /\ n.id = m.id
    BY <1>2, <2>1 DEF Recipient
  <2>4. \A v \in Readers : n \in Scope(v)' => m \in Scope(v)
    BY <1>2, <2>1 DEF Scope
  <2>5. Seen(m) /\ Recipient(m) \in Readers => Recipient(m) = u /\ m.id \in known[u]
    BY <2>2 DEF Scope, Role, Recipient
  <2>6. n.read => m.read \/ Seen(m)
    BY <1>2, <2>1
  <2> QED BY <2>2, <2>3, <2>4, <2>5, <2>6
<1>11. RequestsHonest'
  BY <1>1 DEF ChatInv, RequestsHonest
<1> QED BY <1>4, <1>5, <1>6, <1>7, <1>8, <1>9, <1>10, <1>11 DEF ChatInv

\* Every step keeps the invariant.
LEMMA ChatInvNext == ChatInv /\ [ChatNext]_chatVars => ChatInv'
<1> SUFFICES ASSUME ChatInv, [ChatNext]_chatVars PROVE ChatInv'
  OBVIOUS
<1>1. CASE RiderLeaves \/ DeliveryEnds \/ UNCHANGED chatVars
  <2>1. /\ rider' \in ChatRiders \cup {Nobody}
        /\ UNCHANGED <<messages, lastId, request, told, known, cursor>>
    BY <1>1 DEF RiderLeaves, DeliveryEnds, chatVars, ChatInv, ChatTyped
  <2>2. request' \in [Requests -> {Idle} \cup Sends] /\ RequestsHonest'
    BY <2>1 DEF ChatInv, ChatTyped, RequestsHonest
  <2> QED BY <2>1, <2>2, SameThread
<1>2. ASSUME NEW q \in Requests, RequestFails(q) PROVE ChatInv'
  <2>1. Idle.step \notin Numbered /\ Idle.step = "idle"
    BY DEF Idle, Numbered
  <2> QED BY <1>2, <2>1, RequestMoves DEF RequestFails
<1> QED BY <1>1, <1>2, HandoverKeeps, AsksKeepsThread, InsertsKeeps, ChatCommitKeeps,
           DeliversKeeps, ListsKeeps, MarksKeeps DEF ChatNext

\* An empty thread.
LEMMA ChatInvInit == ChatInit => ChatInv
<1> SUFFICES ASSUME ChatInit PROVE ChatInv
  OBVIOUS
<1>1. \A q \in Requests : request[q] = Idle /\ Idle.step = "idle"
  BY DEF ChatInit, Idle
<1>2. ChatTyped
  BY ChatAssumption DEF ChatInit, ChatTyped
<1>3. RequestsHonest /\ NumbersTaken /\ KeysTaken /\ StoredBefore
  BY <1>1 DEF ChatInit, RequestsHonest, NumbersTaken, KeysTaken, StoredBefore, Numbered
<1>4. ThreadsKeptApart /\ SentOnce /\ NothingSkipped
  BY DEF ChatInit, ThreadsKeptApart, SentOnce, NothingSkipped
<1> QED BY <1>2, <1>3, <1>4 DEF ChatInv

\* For any riders, readers and requests, what is stored, told and fetched agree.
THEOREM ChatInvariant == ChatSpec => []ChatInv
BY ChatInvInit, ChatInvNext, PTL DEF ChatSpec

\* Whoever takes the delivery over while messages are being sent, each stays in
\* the thread of a rider who had it meanwhile, and a rider's own in his.
THEOREM ThreadsApart == ChatSpec => []ThreadsKeptApart
<1>1. ChatInv => ThreadsKeptApart
  BY DEF ChatInv
<1> QED BY <1>1, ChatInvariant, PTL

\* However tries overlap, a message is stored once and told once; page after page
\* leaves none out, and none is marked read unseen, unless its number was
\* overtaken (the INSERT ... ON CONFLICT and List of the chat repository).
THEOREM ThreadWhole == ChatSpec => []ThreadComplete
<1>1. ChatInv => ThreadComplete
  BY DEF ChatInv, ThreadComplete
<1> QED BY <1>1, ChatInvariant, PTL

\* The stage of the delivery says whether a rider has it.
ChatPhased ==
  /\ phase \in {"searching", "active", "closed"}
  /\ (rider = Nobody) = (phase = "searching")
  /\ takes \in 0 .. MaxTakes

\* What the invariant says is, with the stage, the type invariant: the highest
\* message fetched is one that is stored, so its number is within the bound.
LEMMA ChatInTypes == ChatInv /\ ChatPhased => ChatTypeOK
<1> SUFFICES ASSUME ChatInv, ChatPhased PROVE ChatTypeOK
  OBVIOUS
<1>1. \A u \in Readers : cursor[u] \in 0 .. MaxMessages
  <2> SUFFICES ASSUME NEW u \in Readers PROVE cursor[u] \in 0 .. MaxMessages
    OBVIOUS
  <2>1. cursor[u] = 0 \/ \E m \in messages : m.id = cursor[u]
    BY DEF ChatInv, StoredBefore
  <2>2. \A m \in messages : m.id \in 1 .. MaxMessages
    BY DEF ChatInv, ChatTyped, Rows, Ids
  <2> QED BY <2>1, <2>2, ChatAssumption
<1>2. cursor \in [Readers -> 0 .. MaxMessages]
  BY <1>1 DEF ChatInv, ChatTyped
<1>3. \A q \in Requests : request[q].step \in {"idle", "insert", "commit", "deliver"}
  BY DEF ChatInv, ChatTyped, Sends, Idle
<1>4. lastId \in 0 .. MaxMessages
  BY ChatAssumption DEF ChatInv, ChatTyped
<1> QED BY <1>2, <1>3, <1>4 DEF ChatInv, ChatTyped, ChatPhased, ChatTypeOK

\* Whoever takes the delivery is somebody, and there are so many takes.
LEMMA ChatStaysPhased == ChatPhased /\ [ChatNext]_chatVars => ChatPhased'
<1> SUFFICES ASSUME ChatPhased, [ChatNext]_chatVars PROVE ChatPhased'
  OBVIOUS
<1>1. ASSUME UNCHANGED <<rider, takes, phase>> PROVE ChatPhased'
  BY <1>1 DEF ChatPhased
<1>2. ASSUME NEW r \in ChatRiders, RiderTakes(r) PROVE ChatPhased'
  <2>1. r # Nobody /\ rider' = r /\ phase' = "active"
    BY <1>2, ChatAssumption DEF RiderTakes
  <2>2. takes' \in 0 .. MaxTakes
    BY <1>2, ChatAssumption DEF RiderTakes, ChatPhased
  <2> QED BY <2>1, <2>2 DEF ChatPhased
<1>3. CASE RiderLeaves
  BY <1>3 DEF RiderLeaves, ChatPhased
<1>4. CASE DeliveryEnds
  BY <1>4 DEF DeliveryEnds, ChatPhased
<1>5. ASSUME NEW q \in Requests, NEW u \in Users, NEW client \in ClientIds,
             AsksToSend(q, u, client)
      PROVE  ChatPhased'
  BY <1>1, <1>5 DEF AsksToSend
<1>6. ASSUME NEW q \in Requests,
             Inserts(q) \/ CommitsMessage(q) \/ Delivers(q) \/ RequestFails(q)
      PROVE  ChatPhased'
  BY <1>1, <1>6 DEF Inserts, CommitsMessage, Delivers, RequestFails
<1>7. ASSUME NEW u \in Readers, ListsMessages(u) \/ MarksRead(u) PROVE ChatPhased'
  BY <1>1, <1>7 DEF ListsMessages, MarksRead
<1>8. CASE UNCHANGED chatVars
  BY <1>1, <1>8 DEF chatVars
<1> QED BY <1>2, <1>3, <1>4, <1>5, <1>6, <1>7, <1>8 DEF ChatNext

\* Nobody has the delivery at first.
LEMMA ChatStartsPhased == ChatInit => ChatPhased
BY ChatAssumption DEF ChatInit, ChatPhased

\* A delivery is searched for exactly while no rider has it, and no app has
\* fetched a message that was not numbered.
THEOREM ChatTyping == ChatSpec => []ChatTypeOK
<1>1. ChatInit => ChatInv /\ ChatPhased
  BY ChatInvInit, ChatStartsPhased
<1>2. ChatInv /\ ChatPhased /\ [ChatNext]_chatVars => (ChatInv /\ ChatPhased)'
  BY ChatInvNext, ChatStaysPhased
<1>3. ChatInv /\ ChatPhased => ChatTypeOK
  BY ChatInTypes
<1> QED BY <1>1, <1>2, <1>3, PTL DEF ChatSpec

-----------------------------------------------------------------------------
(* The hub.                                                                *)

Registered == {"open", "silent", "closed", "leaving"}
Seats == Sockets \cup {NoSocket}

Removals == [socket : Sockets, moved : Seq(Sockets), todo : SUBSET Nat]
Slices == [array : Nat, len : Nat]
Peers == [state : {"new"}] \cup [state : SocketStates \ {"new"}, channel : Channels]
Idles == [state : {"idle"}]
Copies == [state : {"copied"}, channel : Channels, copy : Seq(Sockets), next : Nat \ {0}]
Ranges == [state : {"ranging"}, channel : OrderChannels, slice : Slices, next : Nat \ {0}]
Dones == [state : {"done"}, copied : BOOLEAN, rider : BOOLEAN]

HubTyped ==
  /\ memory \in Seq(Seq(Seats))
  /\ clients \in [Channels -> Slices]
  /\ hubLock \in {Unlocked} \cup Removals
  /\ socket \in [Sockets -> Peers]
  /\ sending \in [HubSends -> Idles \cup Copies \cup Ranges \cup Dones]
  /\ reached \in [HubSends -> [Seats -> Nat]]
  /\ present \in [HubSends -> SUBSET Sockets]
  /\ disturbed \subseteq HubSends

\* A slice can be read: its array is that long, and has a client in each place.
Readable(arrays, slice) ==
  slice.len > 0 => /\ slice.array \in 1 .. Len(arrays)
                   /\ slice.len <= Len(arrays[slice.array])
                   /\ \A k \in 1 .. slice.len : arrays[slice.array][k] \in Sockets

SameArray(slice, other) == slice.len > 0 /\ other.len > 0 /\ slice.array = other.array

\* No two channels share an array.
SlicesSound ==
  /\ \A c \in Channels : Readable(memory, clients[c])
  /\ \A c, d \in Channels : SameArray(clients[c], clients[d]) => c = d

\* The first n places of a row are the connections of a channel, each once.
Roster(row, n, c, sockets) ==
  /\ \A k \in 1 .. n : /\ row[k] \in Sockets
                       /\ sockets[row[k]].state \in Registered
                       /\ sockets[row[k]].channel = c
  /\ \A j, k \in 1 .. n : row[j] = row[k] => j = k
  /\ \A s \in Sockets : sockets[s].state \in Registered /\ sockets[s].channel = c
       => \E k \in 1 .. n : row[k] = s

\* While a client is being removed, its channel is what the removal found.
Removing(c) == hubLock # Unlocked /\ socket[hubLock.socket].channel = c
Row(c) == IF Removing(c) THEN hubLock.moved ELSE memory[clients[c].array]

RostersSound == \A c \in Channels : Roster(Row(c), clients[c].len, c, socket)

\* How far the elements behind the one at place i have moved.
MovedBehind(i, array, moved, todo, n) ==
  /\ todo \subseteq i .. n - 1
  /\ \A k \in 1 .. n :
       array[k] = IF k \in (i .. n - 1) \ todo THEN moved[k + 1] ELSE moved[k]

RemovalSound ==
  /\ \A s \in Sockets : socket[s].state = "leaving" => hubLock.socket = s
  /\ hubLock # Unlocked =>
       LET slice == clients[socket[hubLock.socket].channel] IN
       /\ socket[hubLock.socket].state = "leaving"
       /\ Len(hubLock.moved) = slice.len
       /\ \E i \in 1 .. slice.len :
            /\ hubLock.moved[i] = hubLock.socket
            /\ MovedBehind(i, memory[slice.array], hubLock.moved, hubLock.todo, slice.len)

\* The place a send reads next, in its copy or in the array it ranges over.
Place(arrays, call, k) ==
  IF call.state = "copied" THEN call.copy[k] ELSE arrays[call.slice.array][k]

\* A send goes through those who were present, and has tried who is behind it.
GoesThrough(arrays, call, there, tried) ==
  /\ \A j, k \in 1 .. Length(call) : Place(arrays, call, j) = Place(arrays, call, k) => j = k
  /\ there = {Place(arrays, call, k) : k \in 1 .. Length(call)}
  /\ \A s \in Sockets :
       tried[s] = IF \E k \in 1 .. Length(call) : k < call.next /\ Place(arrays, call, k) = s
                  THEN 1 ELSE 0

\* Nobody but clients who join writes to the array that a send ranges over, and
\* only behind the places it reads.
KeptApart(m) ==
  /\ ~Removing(sending[m].channel)
  /\ \A d \in Channels : SameArray(clients[d], sending[m].slice) =>
       d = sending[m].channel /\ sending[m].slice.len <= clients[d].len

SendSound(m) ==
  LET call == sending[m] IN
  /\ reached[m][NoSocket] = 0
  /\ call.state = "idle" => \A s \in Sockets : reached[m][s] = 0
  /\ call.state = "ranging" => Readable(memory, call.slice)
  /\ call.state = "ranging" /\ m \notin disturbed => KeptApart(m)
  /\ call.state = "copied" \/ (call.state = "ranging" /\ m \notin disturbed) =>
       GoesThrough(memory, call, present[m], reached[m])
  /\ call.state = "done" =>
       /\ call.rider => call.copied
       /\ call.copied \/ m \notin disturbed =>
            \A s \in Sockets : reached[m][s] = IF s \in present[m] THEN 1 ELSE 0

SendsSound == \A m \in HubSends : SendSound(m)

HubInv == HubTyped /\ SlicesSound /\ RostersSound /\ RemovalSound /\ SendsSound

-----------------------------------------------------------------------------

\* The listeners of a channel are the places its slice shows.
LEMMA ListenersAre ==
  ASSUME HubTyped, SlicesSound, NEW c \in Channels
  PROVE  /\ Listeners(c) \in Seq(Sockets)
         /\ Len(Listeners(c)) = clients[c].len
         /\ \A k \in 1 .. clients[c].len : Listeners(c)[k] = memory[clients[c].array][k]
<1>1. clients[c].len \in Nat /\ clients[c].array \in Nat
  BY DEF HubTyped, Slices
<1>2. CASE clients[c].len = 0
  BY <1>2 DEF Listeners
<1>3. CASE clients[c].len # 0
  <2> DEFINE a == memory[clients[c].array]
             n == clients[c].len
  <2>1. clients[c].array \in 1 .. Len(memory) /\ n <= Len(a)
        /\ \A k \in 1 .. n : a[k] \in Sockets
    BY <1>1, <1>3 DEF SlicesSound, Readable
  <2>2. a \in Seq(Seats)
    BY <2>1 DEF HubTyped
  <2>3. Listeners(c) = SubSeq(a, 1, n)
    BY <1>3 DEF Listeners
  <2> HIDE DEF a
  <2>4. Len(SubSeq(a, 1, n)) = n /\ \A k \in 1 .. n : SubSeq(a, 1, n)[k] = a[k]
    BY <2>1, <2>2, <1>1, <1>3
  <2>5. SubSeq(a, 1, n) \in Seq(Sockets)
    BY <2>1, <2>2, <2>4, <1>1, <1>3
  <2> QED BY <2>3, <2>4, <2>5 DEF a
<1> QED BY <1>2, <1>3

\* append on a full array: the new one begins with the old list and the client.
LEMMA GrownIs ==
  ASSUME NEW list \in Seq(Sockets), NEW s \in Sockets
  PROVE  /\ Grown(list, s) \in Seq(Seats)
         /\ Len(list) + 1 <= Len(Grown(list, s))
         /\ \A k \in 1 .. Len(list) : Grown(list, s)[k] = list[k]
         /\ Grown(list, s)[Len(list) + 1] = s
<1> DEFINE n == IF list = <<>> THEN 0 ELSE Len(list) - 1
           room == [i \in 1 .. n |-> NoSocket]
           begin == Append(list, s)
<1>1. n \in Nat
  OBVIOUS
<1>2. room \in Seq(Seats) /\ Len(room) = n
  BY <1>1 DEF Seats
<1>3. begin \in Seq(Seats) /\ Len(begin) = Len(list) + 1
      /\ begin[Len(list) + 1] = s /\ \A k \in 1 .. Len(list) : begin[k] = list[k]
  BY DEF Seats
<1>4. Grown(list, s) = begin \o room
  BY DEF Grown
<1> HIDE DEF n, room, begin
<1>5. begin \o room \in Seq(Seats) /\ Len(begin \o room) = Len(list) + 1 + n
      /\ \A k \in 1 .. Len(list) + 1 : (begin \o room)[k] = begin[k]
  BY <1>1, <1>2, <1>3
<1> QED BY <1>1, <1>3, <1>4, <1>5

\* The first n places are the same in both rows.
SamePlaces(row, row2, n) == \A k \in 1 .. n : row2[k] = row[k]

\* The same clients are on channel c.
SameClients(peers, peers2, c) ==
  \A s \in Sockets : peers[s].state \in Registered /\ peers[s].channel = c
                     <=> peers2[s].state \in Registered /\ peers2[s].channel = c

\* A roster stays if its places do, and nobody registers or leaves.
LEMMA RosterStays ==
  ASSUME NEW row, NEW row2, NEW n \in Nat, NEW c, NEW peers, NEW peers2,
         Roster(row, n, c, peers), SamePlaces(row, row2, n), SameClients(peers, peers2, c)
  PROVE  Roster(row2, n, c, peers2)
BY DEF Roster, SamePlaces, SameClients

\* One who joins is at the end of the roster.
LEMMA RosterGrows ==
  ASSUME NEW row, NEW row2, NEW n \in Nat, NEW c, NEW s \in Sockets, NEW peers, NEW peers2,
         Roster(row, n, c, peers), \A k \in 1 .. n : row2[k] = row[k], row2[n + 1] = s,
         ~(peers[s].state \in Registered),
         peers2[s].state \in Registered, peers2[s].channel = c,
         \A t \in Sockets \ {s} : peers2[t] = peers[t]
  PROVE  Roster(row2, n + 1, c, peers2)
<1>1. \A k \in 1 .. n + 1 : k \in 1 .. n \/ k = n + 1
  OBVIOUS
<1>2. \A k \in 1 .. n : row[k] # s
  BY DEF Roster
<1>3. n + 1 \in 1 .. n + 1 /\ 1 .. n \subseteq 1 .. n + 1
  OBVIOUS
<1> QED BY <1>1, <1>2, <1>3 DEF Roster

\* Those behind place i have moved down by one.
ClosedUp(row, row2, n, i) ==
  \A k \in 1 .. n - 1 : row2[k] = IF i <= k THEN row[k + 1] ELSE row[k]

\* Client s is registered no more, and the others are as they were.
OnlyLeaves(peers, peers2, s) ==
  /\ ~(peers2[s].state \in Registered)
  /\ \A t \in Sockets \ {s} : peers2[t] = peers[t]

\* When those behind one who leaves have moved down, the rest is the roster.
LEMMA RosterShrinks ==
  ASSUME NEW row, NEW row2, NEW n \in Nat, NEW c, NEW i \in 1 .. n, NEW peers, NEW peers2,
         Roster(row, n, c, peers), ClosedUp(row, row2, n, i), OnlyLeaves(peers, peers2, row[i])
  PROVE  Roster(row2, n - 1, c, peers2)
<1> USE DEF ClosedUp, OnlyLeaves
<1> DEFINE Old(k) == IF i <= k THEN k + 1 ELSE k
<1>1. \A k \in 1 .. n - 1 : Old(k) \in 1 .. n /\ Old(k) # i /\ row2[k] = row[Old(k)]
  OBVIOUS
<1>2. \A j, k \in 1 .. n - 1 : Old(j) = Old(k) => j = k
  OBVIOUS
<1>3. \A k \in 1 .. n : k # i => \E j \in 1 .. n - 1 : Old(j) = k
  <2> SUFFICES ASSUME NEW k \in 1 .. n, k # i PROVE \E j \in 1 .. n - 1 : Old(j) = k
    OBVIOUS
  <2>1. CASE k < i
    <3>1. k \in 1 .. n - 1 /\ Old(k) = k
      BY <2>1
    <3> QED BY <3>1
  <2>2. CASE i < k
    <3>1. k - 1 \in 1 .. n - 1 /\ Old(k - 1) = k
      BY <2>2
    <3> QED BY <3>1
  <2> QED BY <2>1, <2>2
<1> HIDE DEF Old
<1>4. \A k \in 1 .. n : k # i => row[k] # row[i]
  BY DEF Roster
<1>5. \A k \in 1 .. n - 1 : /\ row2[k] \in Sockets
                            /\ peers2[row2[k]].state \in Registered
                            /\ peers2[row2[k]].channel = c
  BY <1>1, <1>4 DEF Roster
<1>6. \A j, k \in 1 .. n - 1 : row2[j] = row2[k] => j = k
  BY <1>1, <1>2 DEF Roster
<1>7. ASSUME NEW s \in Sockets, peers2[s].state \in Registered, peers2[s].channel = c
      PROVE  \E j \in 1 .. n - 1 : row2[j] = s
  <2>1. s # row[i]
    BY <1>7
  <2>2. PICK k \in 1 .. n : row[k] = s
    BY <1>7, <2>1 DEF Roster
  <2>3. PICK j \in 1 .. n - 1 : Old(j) = k
    BY <1>3, <2>1, <2>2
  <2> QED BY <1>1, <2>2, <2>3
<1> QED BY <1>5, <1>6, <1>7 DEF Roster

\* A step that is no step of a send leaves the sends sound, if what they read
\* stays.
LEMMA SendsKept ==
  ASSUME HubTyped, SendsSound, UNCHANGED <<sending, reached, present>>,
         disturbed \subseteq disturbed',
         \A m \in HubSends : sending[m].state = "ranging" =>
           Readable(memory', sending[m].slice),
         \A m \in HubSends : sending[m].state = "ranging" /\ m \notin disturbed' =>
           /\ KeptApart(m)'
           /\ \A k \in 1 .. sending[m].slice.len :
                memory'[sending[m].slice.array][k] = memory[sending[m].slice.array][k]
  PROVE  SendsSound'
<1> SUFFICES ASSUME NEW m \in HubSends PROVE SendSound(m)'
  BY DEF SendsSound
<1> DEFINE call == sending[m]
<1>1. SendSound(m) /\ sending'[m] = call /\ reached'[m] = reached[m] /\ present'[m] = present[m]
  BY DEF SendsSound
<1>2. m \notin disturbed' => m \notin disturbed
  OBVIOUS
<1>3. ASSUME call.state = "copied" PROVE GoesThrough(memory', call, present[m], reached[m])
  BY <1>1, <1>3 DEF SendSound, GoesThrough, Place, Length
<1>4. ASSUME call.state = "ranging", m \notin disturbed'
      PROVE  GoesThrough(memory', call, present[m], reached[m])
  <2>1. GoesThrough(memory, call, present[m], reached[m])
    BY <1>1, <1>2, <1>4 DEF SendSound
  <2>2. \A k \in 1 .. Length(call) : Place(memory', call, k) = Place(memory, call, k)
    BY <1>4 DEF Length, Place
  <2> HIDE DEF call
  <2> QED BY <2>1, <2>2 DEF GoesThrough
<1>5. call.state = "ranging" /\ m \notin disturbed' => KeptApart(m)'
  OBVIOUS
<1>6. call.state = "ranging" => Readable(memory', call.slice)
  OBVIOUS
<1> HIDE DEF call
<1> QED BY <1>1, <1>2, <1>3, <1>4, <1>5, <1>6 DEF SendSound

\* A step that neither joins nor removes leaves slices, rosters and removal.
LEMMA PlacesKept ==
  ASSUME HubTyped, SlicesSound, RostersSound, RemovalSound,
         UNCHANGED <<memory, clients, hubLock>>,
         \A s \in Sockets :
           /\ socket'[s].channel = socket[s].channel
           /\ socket'[s].state \in Registered <=> socket[s].state \in Registered
           /\ socket'[s].state = "leaving" <=> socket[s].state = "leaving"
  PROVE  /\ SlicesSound' /\ RostersSound' /\ RemovalSound'
         /\ \A c : Removing(c)' <=> Removing(c)
<1>1. SlicesSound'
  BY DEF SlicesSound
<1>2. hubLock # Unlocked => hubLock.socket \in Sockets
  BY DEF HubTyped, Removals
<1>3. \A c : Removing(c)' <=> Removing(c)
  BY <1>2 DEF Removing
<1>4. RostersSound'
  <2> SUFFICES ASSUME NEW c \in Channels PROVE Roster(Row(c)', clients'[c].len, c, socket')
    BY DEF RostersSound
  <2>1. Roster(Row(c), clients[c].len, c, socket) /\ clients[c].len \in Nat
    BY DEF RostersSound, HubTyped, Slices
  <2>2. Row(c)' = Row(c)
    BY <1>3 DEF Row
  <2>3. SamePlaces(Row(c), Row(c), clients[c].len) /\ SameClients(socket, socket', c)
    BY DEF SamePlaces, SameClients
  <2> QED BY <2>1, <2>2, <2>3, RosterStays
<1>5. RemovalSound'
  BY <1>2 DEF RemovalSound
<1> QED BY <1>1, <1>3, <1>4, <1>5

\* So do the sends, when all that changes is the state of a connection.
LEMMA SendsLeft ==
  ASSUME HubTyped, SendsSound, UNCHANGED <<memory, clients, sending, reached, present, disturbed>>,
         \A c : Removing(c)' <=> Removing(c)
  PROVE  SendsSound'
<1>1. \A m \in HubSends : SendSound(m)
  BY DEF SendsSound
<1>2. \A m \in HubSends : sending[m].state = "ranging" => Readable(memory', sending[m].slice)
  BY <1>1 DEF SendSound
<1>3. \A m \in HubSends : sending[m].state = "ranging" /\ m \notin disturbed' =>
        /\ KeptApart(m)'
        /\ \A k \in 1 .. sending[m].slice.len :
             memory'[sending[m].slice.array][k] = memory[sending[m].slice.array][k]
  BY <1>1 DEF SendSound, KeptApart
<1> QED BY <1>2, <1>3, SendsKept

\* A peer that falls silent, or whose connection ends, stays on its channel.
LEMMA SocketTurns ==
  ASSUME HubInv, NEW s \in Sockets, NEW next \in {"silent", "closed"},
         socket[s].state \in {"open", "silent"},
         socket' = [socket EXCEPT ![s].state = next],
         UNCHANGED <<memory, clients, hubLock, sending, reached, present, disturbed>>
  PROVE  HubInv'
<1> USE DEF HubInv
<1>1. socket[s] \in [state : SocketStates \ {"new"}, channel : Channels]
  BY DEF HubTyped, Peers
<1>2. [socket[s] EXCEPT !.state = next] \in [state : SocketStates \ {"new"}, channel : Channels]
      /\ [socket[s] EXCEPT !.state = next].state = next
      /\ [socket[s] EXCEPT !.state = next].channel = socket[s].channel
  BY <1>1 DEF SocketStates
<1>3. /\ socket' = [socket EXCEPT ![s] = [socket[s] EXCEPT !.state = next]]
      /\ socket'[s] = [socket[s] EXCEPT !.state = next]
      /\ \A t \in Sockets : t # s => socket'[t] = socket[t]
  BY DEF HubTyped
<1>4. HubTyped'
  BY <1>2, <1>3 DEF HubTyped, Peers
<1>5. \A t \in Sockets :
        /\ socket'[t].channel = socket[t].channel
        /\ socket'[t].state \in Registered <=> socket[t].state \in Registered
        /\ socket'[t].state = "leaving" <=> socket[t].state = "leaving"
  BY <1>2, <1>3 DEF Registered
<1>6. SlicesSound' /\ RostersSound' /\ RemovalSound' /\ \A c : Removing(c)' <=> Removing(c)
  BY <1>5, PlacesKept
<1>7. SendsSound'
  BY <1>6, SendsLeft
<1> QED BY <1>4, <1>6, <1>7

\* A step that changes no more than the sends leaves everything else.
LEMMA SendsOnly ==
  ASSUME HubInv, UNCHANGED <<memory, clients, hubLock, socket>>, SendsSound',
         sending' \in [HubSends -> Idles \cup Copies \cup Ranges \cup Dones],
         reached' \in [HubSends -> [Seats -> Nat]],
         present' \in [HubSends -> SUBSET Sockets],
         disturbed' = disturbed
  PROVE  HubInv'
<1>1. HubTyped'
  BY DEF HubInv, HubTyped
<1>2. SlicesSound' /\ RostersSound' /\ RemovalSound'
  BY PlacesKept DEF HubInv
<1> QED BY <1>1, <1>2 DEF HubInv

\* A send that is not the one that goes on stays as it is.
LEMMA OtherSends ==
  ASSUME SendsSound, UNCHANGED <<memory, clients, hubLock, socket, disturbed>>,
         NEW m \in HubSends, NEW n \in HubSends, n # m,
         sending'[n] = sending[n], reached'[n] = reached[n], present'[n] = present[n]
  PROVE  SendSound(n)'
BY DEF SendsSound, SendSound, KeptApart, Removing

\* What is not tried yet has not been reached.
LEMMA GoesOnStep ==
  ASSUME NEW arrays, NEW call \in Copies \cup Ranges, NEW there, NEW tried \in [Seats -> Nat],
         GoesThrough(arrays, call, there, tried), call.next <= Length(call),
         Place(arrays, call, call.next) \in Sockets
  PROVE  GoesThrough(arrays, [call EXCEPT !.next = call.next + 1], there,
                     [tried EXCEPT ![Place(arrays, call, call.next)] =
                                      tried[Place(arrays, call, call.next)] + 1])
<1> DEFINE later == [call EXCEPT !.next = call.next + 1]
           s == Place(arrays, call, call.next)
           after == [tried EXCEPT ![s] = tried[s] + 1]
<1>1. call.next \in Nat \ {0} /\ Length(call) \in Nat /\ later.next = call.next + 1
  BY DEF Copies, Ranges, Length, Slices
<1>2. Length(later) = Length(call) /\ \A k : Place(arrays, later, k) = Place(arrays, call, k)
  BY DEF Copies, Ranges, Length, Place
<1>3. s \in Sockets /\ after[s] = tried[s] + 1 /\ \A t \in Sockets : t # s => after[t] = tried[t]
  BY DEF Seats
<1>4. \A k \in 1 .. Length(call) : k < call.next + 1 <=> k < call.next \/ k = call.next
  BY <1>1
<1>5. call.next \in 1 .. Length(call)
  BY <1>1
<1>6. \A k \in 1 .. Length(call) : Place(arrays, call, k) = s => k = call.next
  BY <1>5 DEF GoesThrough
<1>7. tried[s] = 0
  <2>1. ~\E k \in 1 .. Length(call) : k < call.next /\ Place(arrays, call, k) = s
    BY <1>1, <1>6
  <2> QED BY <1>3, <2>1 DEF GoesThrough
<1>8. Place(arrays, call, call.next) = s
  OBVIOUS
<1> HIDE DEF later, s, after
<1>9. \A t \in Sockets :
        after[t] = IF \E k \in 1 .. Length(call) : k < later.next /\ Place(arrays, call, k) = t
                   THEN 1 ELSE 0
  <2> SUFFICES ASSUME NEW t \in Sockets
               PROVE  after[t] = IF \E k \in 1 .. Length(call) :
                                      k < later.next /\ Place(arrays, call, k) = t
                                 THEN 1 ELSE 0
    OBVIOUS
  <2>1. CASE t = s
    BY <2>1, <1>1, <1>3, <1>4, <1>5, <1>7, <1>8
  <2>2. CASE t # s
    <3>1. (\E k \in 1 .. Length(call) : k < later.next /\ Place(arrays, call, k) = t)
          <=> (\E k \in 1 .. Length(call) : k < call.next /\ Place(arrays, call, k) = t)
      BY <2>2, <1>1, <1>4, <1>8
    <3> QED BY <3>1, <2>2, <1>3 DEF GoesThrough
  <2> QED BY <2>1, <2>2
<1>10. GoesThrough(arrays, later, there, after)
  BY <1>2, <1>9 DEF GoesThrough
<1> QED BY <1>10 DEF later, s, after

\* SendToRider and SendToOrder begin with everybody present and nobody tried.
LEMMA StartsKeep ==
  ASSUME HubInv, NEW m \in HubSends,
         \/ \E c \in RiderChannels : SendToRider(m, c)
         \/ \E c \in OrderChannels : SendToOrder(m, c)
  PROVE  HubInv'
<1>1. PICK c \in Channels :
        \/ StartsSend(m, c, KeepsCopy(c))
        \/ c \in OrderChannels /\ StartsSend(m, c, KeepsSlice(c))
  BY DEF SendToRider, SendToOrder, Channels
<1> DEFINE n == clients[c].len
           row == memory[clients[c].array]
<1>0. PICK keeps : /\ StartsSend(m, c, keeps)
                   /\ keeps = KeepsCopy(c) \/ (c \in OrderChannels /\ keeps = KeepsSlice(c))
  BY <1>1
<1>2. /\ sending[m].state = "idle" /\ hubLock = Unlocked
      /\ sending' = [sending EXCEPT ![m] = keeps]
      /\ keeps = KeepsCopy(c) \/ (c \in OrderChannels /\ keeps = KeepsSlice(c))
      /\ present' = [present EXCEPT ![m] = ToSet(Listeners(c))]
      /\ UNCHANGED <<memory, clients, hubLock, socket, reached, disturbed>>
  BY <1>0 DEF StartsSend
<1>3. /\ Listeners(c) \in Seq(Sockets) /\ Len(Listeners(c)) = n
      /\ \A k \in 1 .. n : Listeners(c)[k] = row[k]
  BY ListenersAre DEF HubInv
<1>4. clients[c] \in Slices /\ n \in Nat
  BY DEF HubInv, HubTyped, Slices
<1>5. keeps \in Copies \cup Ranges
  BY <1>2, <1>3, <1>4 DEF KeepsCopy, KeepsSlice, Copies, Ranges
<1>6. ToSet(Listeners(c)) = {row[k] : k \in 1 .. n} /\ ToSet(Listeners(c)) \subseteq Sockets
  BY <1>3, <1>4 DEF ToSet
<1>7. Roster(row, n, c, socket)
  BY <1>2 DEF HubInv, RostersSound, Row, Removing
<1>8. Length(keeps) = n /\ \A k \in 1 .. n : Place(memory, keeps, k) = row[k]
  BY <1>2, <1>3 DEF KeepsCopy, KeepsSlice, Length, Place
<1>9. keeps.next = 1 /\ (keeps.state = "copied" \/ keeps = KeepsSlice(c))
  BY <1>2 DEF KeepsCopy, KeepsSlice
<1>10. SendSound(m)
  BY DEF HubInv, SendsSound
<1>11. /\ present'[m] = {row[k] : k \in 1 .. n} /\ reached'[m] = reached[m]
       /\ sending'[m] = keeps
  BY <1>2, <1>6 DEF HubInv, HubTyped
<1>12. keeps.state \in {"copied", "ranging"}
  BY <1>5 DEF Copies, Ranges
<1>13. keeps = KeepsSlice(c) => keeps.slice = clients[c] /\ keeps.channel = c
  BY DEF KeepsSlice
<1>14. \A s \in Sockets : reached[m][s] = 0
  BY <1>2, <1>10 DEF SendSound
<1> HIDE DEF n, row
<1>15. GoesThrough(memory, keeps, present'[m], reached'[m])
  <2>1. \A k \in 1 .. n : ~(k < 1)
    BY <1>4
  <2> QED BY <1>7, <1>8, <1>9, <1>11, <1>14, <2>1 DEF GoesThrough, Roster
<1>16. /\ Readable(memory, clients[c])
       /\ \A d \in Channels : SameArray(clients[d], clients[c]) => d = c
  BY DEF HubInv, SlicesSound
<1>17. KeepsSlice(c) = keeps => /\ ~Removing(c)'
         /\ \A d \in Channels : SameArray(clients'[d], keeps.slice) =>
              d = c /\ keeps.slice.len <= clients'[d].len
  BY <1>2, <1>4, <1>13, <1>16 DEF Removing, n
<1>18. SendSound(m)'
  <2>1. reached'[m][NoSocket] = 0
    BY <1>10, <1>11 DEF SendSound
  <2>2. keeps.state = "ranging" => Readable(memory', keeps.slice)
    BY <1>2, <1>9, <1>13, <1>16
  <2>3. keeps.state = "ranging" => KeptApart(m)'
    BY <1>9, <1>11, <1>13, <1>17 DEF KeptApart
  <2>4. GoesThrough(memory', keeps, present'[m], reached'[m])
    BY <1>2, <1>15
  <2> QED BY <1>11, <1>12, <2>1, <2>2, <2>3, <2>4 DEF SendSound
<1>19. \A o \in HubSends : o # m =>
         sending'[o] = sending[o] /\ reached'[o] = reached[o] /\ present'[o] = present[o]
  BY <1>2 DEF HubInv, HubTyped
<1>20. SendsSound'
  <2>1. ASSUME NEW o \in HubSends, o # m PROVE SendSound(o)'
    BY <2>1, <1>2, <1>19, OtherSends DEF HubInv
  <2> QED BY <2>1, <1>18 DEF SendsSound
<1>21. sending' \in [HubSends -> Idles \cup Copies \cup Ranges \cup Dones]
  BY <1>2, <1>5 DEF HubInv, HubTyped
<1>22. present' \in [HubSends -> SUBSET Sockets] /\ reached' \in [HubSends -> [Seats -> Nat]]
  BY <1>2, <1>6 DEF HubInv, HubTyped
<1> QED BY <1>2, <1>20, <1>21, <1>22, SendsOnly

\* A call in progress.
LEMMA RunningCalls ==
  ASSUME HubTyped, NEW m \in HubSends, sending[m].state \in {"copied", "ranging"}
  PROVE  sending[m] \in Copies \cup Ranges
BY DEF HubTyped, Idles, Dones

\* A send reads a client, never an empty place.
LEMMA ReadsClient ==
  ASSUME HubTyped, SendsSound, NEW m \in HubSends,
         sending[m].state \in {"copied", "ranging"}, sending[m].next <= Length(sending[m])
  PROVE  Client(sending[m]) = Place(memory, sending[m], sending[m].next)
         /\ Client(sending[m]) \in Sockets
<1> DEFINE call == sending[m]
<1>1. call \in Copies \cup Ranges
  BY RunningCalls
<1>2. Client(call) = Place(memory, call, call.next)
  BY DEF Client, Place
<1>3. SendSound(m)
  BY DEF SendsSound
<1>4. CASE call.state = "copied"
  <2>1. call.copy \in Seq(Sockets) /\ call.next \in 1 .. Len(call.copy)
    BY <1>1, <1>4 DEF Copies, Ranges, Length
  <2> QED BY <2>1, <1>2, <1>4 DEF Place
<1>5. CASE call.state = "ranging"
  <2>1. call.slice.len \in Nat /\ call.next \in 1 .. call.slice.len
    BY <1>1, <1>5 DEF Copies, Ranges, Slices, Length
  <2>2. memory[call.slice.array][call.next] \in Sockets
    BY <1>3, <1>5, <2>1 DEF SendSound, Readable
  <2> QED BY <2>2, <1>2, <1>5 DEF Place
<1> QED BY <1>4, <1>5

\* A send that tries the next client goes on through those who were present.
LEMMA TriesKeep ==
  ASSUME HubInv, NEW m \in HubSends, TriesNext(m)
  PROVE  HubInv'
<1> DEFINE call == sending[m]
           s == Client(call)
           later == [call EXCEPT !.next = call.next + 1]
           after == [reached[m] EXCEPT ![s] = reached[m][s] + 1]
<1>1. /\ call.state \in {"copied", "ranging"} /\ call.next <= Length(call)
      /\ UNCHANGED <<memory, clients, hubLock, socket, present, disturbed>>
  BY DEF TriesNext, TakesPlace
<1>2. call \in Copies \cup Ranges
  BY <1>1, RunningCalls DEF HubInv
<1>3. s = Place(memory, call, call.next) /\ s \in Sockets /\ s # NoSocket
  BY <1>1, ReadsClient DEF HubInv, Sockets, NoSocket
<1>4. sending' = [sending EXCEPT ![m] = later] /\ reached' = [reached EXCEPT ![m] = after]
  BY DEF TriesNext, TakesPlace, HubInv, HubTyped
<1>5. later \in Copies \cup Ranges /\ later.state = call.state /\ later.channel = call.channel
      /\ (call.state = "ranging" => later.slice = call.slice)
  BY <1>2 DEF Copies, Ranges
<1>6. /\ reached[m] \in [Seats -> Nat] /\ after \in [Seats -> Nat]
      /\ after[NoSocket] = reached[m][NoSocket]
  <2>1. reached[m] \in [Seats -> Nat]
    BY DEF HubInv, HubTyped
  <2>2. s \in Seats /\ NoSocket \in Seats
    BY <1>3 DEF Seats
  <2> HIDE DEF s
  <2> QED BY <2>1, <2>2, <1>3
<1>7. sending'[m] = later /\ reached'[m] = after /\ present'[m] = present[m]
  BY <1>1, <1>4 DEF HubInv, HubTyped
<1>8. SendSound(m)
  BY DEF HubInv, SendsSound
<1>9. GoesThrough(memory, call, present[m], reached[m])
        => GoesThrough(memory, later, present[m], after)
  <2>1. reached[m] \in [Seats -> Nat]
    BY DEF HubInv, HubTyped
  <2> QED BY <2>1, <1>1, <1>2, <1>3, GoesOnStep
<1> HIDE DEF later, after, s
<1>10. SendSound(m)'
  <2>1. reached'[m][NoSocket] = 0
    BY <1>6, <1>7, <1>8 DEF SendSound
  <2>2. later.state = "ranging" => Readable(memory', later.slice)
    BY <1>1, <1>5, <1>8 DEF SendSound
  <2>3. later.state = "ranging" /\ m \notin disturbed => KeptApart(m)'
    BY <1>1, <1>5, <1>7, <1>8 DEF SendSound, KeptApart, Removing
  <2>4. later.state = "copied" \/ (later.state = "ranging" /\ m \notin disturbed)
          => GoesThrough(memory', later, present'[m], reached'[m])
    BY <1>1, <1>5, <1>7, <1>8, <1>9 DEF SendSound
  <2> QED BY <1>1, <1>5, <1>7, <2>1, <2>2, <2>3, <2>4 DEF SendSound
<1>11. \A o \in HubSends : o # m =>
         sending'[o] = sending[o] /\ reached'[o] = reached[o] /\ present'[o] = present[o]
  BY <1>1, <1>4 DEF HubInv, HubTyped
<1>12. SendsSound'
  <2>1. ASSUME NEW o \in HubSends, o # m PROVE SendSound(o)'
    BY <2>1, <1>1, <1>11, OtherSends DEF HubInv
  <2> QED BY <2>1, <1>10 DEF SendsSound
<1>13. sending' \in [HubSends -> Idles \cup Copies \cup Ranges \cup Dones]
  BY <1>4, <1>5 DEF HubInv, HubTyped
<1>14. reached' \in [HubSends -> [Seats -> Nat]]
  BY <1>4, <1>6 DEF HubInv, HubTyped
<1> QED BY <1>1, <1>12, <1>13, <1>14, SendsOnly DEF HubInv, HubTyped

\* A send ends when it has tried everybody.
LEMMA EndsKeep ==
  ASSUME HubInv, NEW m \in HubSends, EndsSend(m)
  PROVE  HubInv'
<1> DEFINE call == sending[m]
           over == [state |-> "done", copied |-> call.state = "copied",
                    rider |-> call.channel \in RiderChannels]
<1>1. /\ call.state \in {"copied", "ranging"} /\ call.next > Length(call)
      /\ sending' = [sending EXCEPT ![m] = over]
      /\ UNCHANGED <<memory, clients, hubLock, socket, reached, present, disturbed>>
  BY DEF EndsSend
<1>2. call \in Copies \cup Ranges
  BY <1>1, RunningCalls DEF HubInv
<1>3. over \in Dones /\ over.state = "done" /\ (over.copied <=> call.state = "copied")
      /\ (over.rider <=> call.channel \in RiderChannels)
  <2>1. \A b, r \in BOOLEAN :
          /\ [state |-> "done", copied |-> b, rider |-> r] \in Dones
          /\ [state |-> "done", copied |-> b, rider |-> r].state = "done"
          /\ [state |-> "done", copied |-> b, rider |-> r].copied = b
          /\ [state |-> "done", copied |-> b, rider |-> r].rider = r
    BY DEF Dones
  <2>2. (call.state = "copied") \in BOOLEAN /\ (call.channel \in RiderChannels) \in BOOLEAN
    OBVIOUS
  <2> HIDE DEF call
  <2> QED BY <2>1, <2>2
<1>4. call.state # "copied" => call.channel \notin RiderChannels
  BY <1>2, HubAssumption DEF Copies, Ranges
<1>5. sending'[m] = over /\ reached'[m] = reached[m] /\ present'[m] = present[m]
  BY <1>1 DEF HubInv, HubTyped
<1>6. SendSound(m)
  BY DEF HubInv, SendsSound
<1>7. Length(call) \in Nat /\ call.next \in Nat
  BY <1>2 DEF Copies, Ranges, Length, Slices
<1>8. \A k \in 1 .. Length(call) : k < call.next
  BY <1>1, <1>7
<1> HIDE DEF over
<1>9. GoesThrough(memory, call, present[m], reached[m])
        => \A s \in Sockets : reached[m][s] = IF s \in present[m] THEN 1 ELSE 0
  BY <1>8 DEF GoesThrough
<1>10. SendSound(m)'
  <2>1. over.copied \/ m \notin disturbed
          => \A s \in Sockets : reached[m][s] = IF s \in present[m] THEN 1 ELSE 0
    BY <1>1, <1>3, <1>6, <1>9 DEF SendSound
  <2> QED BY <1>1, <1>3, <1>4, <1>5, <1>6, <2>1 DEF SendSound
<1>11. \A o \in HubSends : o # m =>
         sending'[o] = sending[o] /\ reached'[o] = reached[o] /\ present'[o] = present[o]
  BY <1>1 DEF HubInv, HubTyped
<1>12. SendsSound'
  <2>1. ASSUME NEW o \in HubSends, o # m PROVE SendSound(o)'
    BY <2>1, <1>1, <1>11, OtherSends DEF HubInv
  <2> QED BY <2>1, <1>10 DEF SendsSound
<1>13. sending' \in [HubSends -> Idles \cup Copies \cup Ranges \cup Dones]
  BY <1>1, <1>3 DEF HubInv, HubTyped
<1> QED BY <1>1, <1>12, <1>13, SendsOnly DEF HubInv, HubTyped

\* Where a client who joins is written: behind the others, in their array or in
\* a new one.
Appended(s, c, slice) ==
  LET n == clients[c].len IN
  /\ memory' \in Seq(Seq(Seats)) /\ Len(memory) <= Len(memory')
  /\ slice \in Slices /\ slice.len = n + 1 /\ clients' = [clients EXCEPT ![c] = slice]
  /\ slice.array \in 1 .. Len(memory') /\ n + 1 <= Len(memory'[slice.array])
  /\ memory'[slice.array][n + 1] = s
  /\ \A k \in 1 .. n : memory'[slice.array][k] = memory[clients[c].array][k]
  /\ \A a \in 1 .. Len(memory) :
       /\ Len(memory'[a]) = Len(memory[a])
       /\ \A k \in 1 .. Len(memory[a]) :
            memory'[a][k] = memory[a][k]
              \/ (memory'[a][k] = s /\ n > 0 /\ a = clients[c].array /\ k = n + 1)
  /\ (slice.array = clients[c].array /\ n > 0) \/ slice.array > Len(memory)

\* append does that.
LEMMA JoinsAppends ==
  ASSUME HubInv, NEW s \in Sockets, NEW c \in Channels, Joins(s, c)
  PROVE  \E slice : Appended(s, c, slice)
<1> DEFINE n == clients[c].len
           b == clients[c].array
           rows == memory[b]
<1>1. n \in Nat /\ b \in Nat /\ clients[c] \in Slices /\ memory \in Seq(Seq(Seats))
      /\ clients \in [Channels -> Slices]
  BY DEF HubInv, HubTyped, Slices
<1>2. CASE n > 0 /\ n < Len(rows)
  <2> DEFINE new == [rows EXCEPT ![n + 1] = s]
             slice == [array |-> b, len |-> n + 1]
  <2>1. b \in 1 .. Len(memory)
    BY <1>2 DEF HubInv, SlicesSound, Readable
  <2>2. rows \in Seq(Seats) /\ n + 1 \in 1 .. Len(rows) /\ s \in Seats
    BY <1>1, <1>2, <2>1 DEF Seats
  <2>3. memory' = [memory EXCEPT ![b] = new]
    BY <1>2 DEF Joins
  <2>4. clients' = [clients EXCEPT ![c] = slice]
    <3>1. clients' = [clients EXCEPT ![c] = [clients[c] EXCEPT !.len = n + 1]]
      BY <1>2 DEF Joins
    <3>2. [clients[c] EXCEPT !.len = n + 1] = slice
      BY <1>1 DEF Slices
    <3> QED BY <3>1, <3>2
  <2>5. slice \in Slices /\ slice.len = n + 1 /\ slice.array = b
    BY <1>1 DEF Slices
  <2> HIDE DEF slice
  <2>6. new \in Seq(Seats) /\ Len(new) = Len(rows) /\ new[n + 1] = s
        /\ \A k \in 1 .. Len(rows) : k # n + 1 => new[k] = rows[k]
    BY <2>2
  <2> HIDE DEF new
  <2>7. memory' \in Seq(Seq(Seats)) /\ Len(memory') = Len(memory) /\ memory'[b] = new
        /\ \A a \in 1 .. Len(memory) : a # b => memory'[a] = memory[a]
    BY <1>1, <2>1, <2>3, <2>6
  <2>8. \A k \in 1 .. n : new[k] = rows[k]
    <3>1. Len(rows) \in Nat
      BY <2>2
    <3>2. \A k \in 1 .. n : k \in 1 .. Len(rows) /\ k # n + 1
      <4> HIDE DEF n, rows
      <4> QED BY <3>1, <1>1, <1>2
    <3> QED BY <3>2, <2>6
  <2>9. \A a \in 1 .. Len(memory) :
          /\ Len(memory'[a]) = Len(memory[a])
          /\ \A k \in 1 .. Len(memory[a]) :
               memory'[a][k] = memory[a][k]
                 \/ (memory'[a][k] = s /\ n > 0 /\ a = b /\ k = n + 1)
    <3>1. ASSUME NEW a \in 1 .. Len(memory), a = b
          PROVE  /\ Len(memory'[a]) = Len(memory[a])
                 /\ \A k \in 1 .. Len(memory[a]) :
                      memory'[a][k] = memory[a][k]
                        \/ (memory'[a][k] = s /\ n > 0 /\ a = b /\ k = n + 1)
      BY <3>1, <1>2, <2>6, <2>7
    <3> QED BY <3>1, <2>7
  <2>10. Appended(s, c, slice)
    <3>1. slice.array \in 1 .. Len(memory') /\ n + 1 <= Len(memory'[slice.array])
          /\ memory'[slice.array][n + 1] = s
      BY <2>1, <2>2, <2>5, <2>6, <2>7
    <3>2. \A k \in 1 .. n : memory'[slice.array][k] = rows[k]
      BY <2>5, <2>7, <2>8
    <3>3. Len(memory) <= Len(memory')
      BY <1>1, <2>7
    <3> QED BY <1>2, <2>4, <2>5, <2>7, <2>9, <3>1, <3>2, <3>3 DEF Appended
  <2> QED BY <2>10
<1>3. CASE ~(n > 0 /\ n < Len(rows))
  <2> DEFINE new == Grown(Listeners(c), s)
             slice == [array |-> Len(memory) + 1, len |-> n + 1]
  <2>1. memory' = Append(memory, new) /\ clients' = [clients EXCEPT ![c] = slice]
    BY <1>3 DEF Joins
  <2>2. slice \in Slices /\ slice.len = n + 1 /\ slice.array = Len(memory) + 1
    BY <1>1 DEF Slices
  <2> HIDE DEF slice
  <2>3. /\ Listeners(c) \in Seq(Sockets) /\ Len(Listeners(c)) = n
        /\ \A k \in 1 .. n : Listeners(c)[k] = rows[k]
    BY ListenersAre DEF HubInv
  <2>4. /\ new \in Seq(Seats) /\ n + 1 <= Len(new) /\ new[n + 1] = s
        /\ \A k \in 1 .. n : new[k] = Listeners(c)[k]
    BY <2>3, GrownIs
  <2> HIDE DEF new
  <2>5. /\ memory' \in Seq(Seq(Seats)) /\ Len(memory') = Len(memory) + 1
        /\ memory'[Len(memory) + 1] = new
        /\ \A a \in 1 .. Len(memory) : memory'[a] = memory[a]
    BY <1>1, <2>1, <2>4
  <2>6. Len(memory) \in Nat
    BY <1>1
  <2>7. Appended(s, c, slice)
    <3>1. slice.array \in 1 .. Len(memory') /\ n + 1 <= Len(memory'[slice.array])
          /\ memory'[slice.array][n + 1] = s
      BY <2>2, <2>4, <2>5, <2>6
    <3>2. \A k \in 1 .. n : memory'[slice.array][k] = rows[k]
      BY <2>2, <2>3, <2>4, <2>5
    <3>3. Len(memory) <= Len(memory') /\ slice.array > Len(memory)
      BY <2>2, <2>5, <2>6
    <3> QED BY <2>1, <2>2, <2>5, <3>1, <3>2, <3>3 DEF Appended
  <2> QED BY <2>7
<1> QED BY <1>2, <1>3

\* Whoever joins is added to one roster, and to nothing a send reads.
LEMMA JoinsKeep ==
  ASSUME HubInv, NEW s \in Sockets, NEW c \in Channels, Joins(s, c)
  PROVE  HubInv'
<1> DEFINE n == clients[c].len
           b == clients[c].array
           member == [state |-> "open", channel |-> c]
<1>1. PICK slice : Appended(s, c, slice)
  BY JoinsAppends
<1>2. /\ socket[s].state = "new" /\ hubLock = Unlocked
      /\ socket' = [socket EXCEPT ![s] = member]
      /\ UNCHANGED <<hubLock, pending, sending, reached, present, disturbed>>
  BY DEF Joins
<1>3. n \in Nat /\ b \in Nat /\ memory \in Seq(Seq(Seats)) /\ clients \in [Channels -> Slices]
      /\ \A d \in Channels : clients[d].len \in Nat /\ clients[d].array \in Nat
  BY DEF HubInv, HubTyped, Slices
<1>4. member \in Peers /\ member.state = "open" /\ member.channel = c
  BY DEF Peers, SocketStates
<1> HIDE DEF member
<1>5. /\ socket'[s] = member /\ \A t \in Sockets \ {s} : socket'[t] = socket[t]
      /\ socket' \in [Sockets -> Peers]
  BY <1>2, <1>4 DEF HubInv, HubTyped
<1>6. /\ ~(socket[s].state \in Registered)
      /\ socket'[s].state \in Registered /\ socket'[s].channel = c
  BY <1>2, <1>4, <1>5 DEF Registered
<1>7. /\ clients'[c] = slice /\ \A d \in Channels \ {c} : clients'[d] = clients[d]
      /\ slice.len = n + 1 /\ slice.array \in Nat /\ clients' \in [Channels -> Slices]
  BY <1>1, <1>3 DEF Appended, Slices
<1>8. HubTyped'
  BY <1>1, <1>2, <1>5, <1>7 DEF HubInv, HubTyped, Appended
<1>9. \A d : ~Removing(d) /\ ~Removing(d)'
  BY <1>2 DEF Removing
\* What could be read can still be read.
<1>10. \A d \in Channels \ {c} : clients[d].len > 0 =>
         clients[d].array # slice.array /\ (n > 0 => clients[d].array # b)
  BY <1>1, <1>3 DEF HubInv, SlicesSound, SameArray, Readable, Appended
<1>11. \A r \in Slices : Readable(memory, r) => Readable(memory', r)
  <2> SUFFICES ASSUME NEW r \in Slices, Readable(memory, r), r.len > 0
               PROVE  /\ r.array \in 1 .. Len(memory') /\ r.len <= Len(memory'[r.array])
                      /\ \A k \in 1 .. r.len : memory'[r.array][k] \in Sockets
    BY DEF Readable
  <2>1. r.array \in 1 .. Len(memory) /\ r.len <= Len(memory[r.array]) /\ r.len \in Nat
        /\ \A k \in 1 .. r.len : memory[r.array][k] \in Sockets
    BY DEF Readable, Slices
  <2>2. memory[r.array] \in Seq(Seats) /\ Len(memory) \in Nat /\ Len(memory') \in Nat
    <3>1. memory \in Seq(Seq(Seats)) /\ memory' \in Seq(Seq(Seats))
      BY <1>1, <1>3 DEF Appended
    <3> QED BY <2>1, <3>1
  <2>3. 1 .. r.len \subseteq 1 .. Len(memory[r.array])
    BY <2>1, <2>2
  <2>4. Len(memory'[r.array]) = Len(memory[r.array])
        /\ \A k \in 1 .. r.len : memory'[r.array][k] = memory[r.array][k] \/ memory'[r.array][k] = s
    BY <1>1, <2>1, <2>3 DEF Appended
  <2>5. Len(memory) <= Len(memory')
    BY <1>1 DEF Appended
  <2> QED BY <2>1, <2>2, <2>4, <2>5
<1>12. Readable(memory', slice)
  <2>1. \A k \in 1 .. n + 1 : k \in 1 .. n \/ k = n + 1
    BY <1>3
  <2>2. \A k \in 1 .. n : memory[b][k] \in Sockets
    BY <1>3 DEF HubInv, SlicesSound, Readable
  <2> QED BY <1>1, <2>1, <2>2 DEF Appended, Readable
<1>13. SlicesSound'
  <2>1. ASSUME NEW d \in Channels PROVE Readable(memory', clients'[d])
    BY <1>3, <1>7, <1>11, <1>12 DEF HubInv, SlicesSound
  <2>2. ASSUME NEW d \in Channels, NEW e \in Channels, SameArray(clients'[d], clients'[e])
        PROVE  d = e
    BY <2>2, <1>7, <1>10 DEF HubInv, SlicesSound, SameArray
  <2> QED BY <2>1, <2>2 DEF SlicesSound
<1>14. ASSUME NEW d \in Channels PROVE Roster(Row(d)', clients'[d].len, d, socket')
  <2>1. Roster(memory[clients[d].array], clients[d].len, d, socket)
    BY <1>9 DEF HubInv, RostersSound, Row
  <2>2. Row(d)' = memory'[clients'[d].array]
    BY <1>9 DEF Row
  <2>3. CASE d = c
    <3>1. memory'[slice.array][n + 1] = s
          /\ \A k \in 1 .. n : memory'[slice.array][k] = memory[b][k]
      BY <1>1 DEF Appended
    <3>2. Roster(memory'[slice.array], n + 1, c, socket')
      BY <2>1, <2>3, <3>1, <1>3, <1>5, <1>6, RosterGrows
    <3> QED BY <2>2, <2>3, <3>2, <1>7
  <2>4. CASE d # c
    <3>1. \A k \in 1 .. clients[d].len :
            memory'[clients[d].array][k] = memory[clients[d].array][k]
      <4> SUFFICES ASSUME NEW k \in 1 .. clients[d].len
                   PROVE  memory'[clients[d].array][k] = memory[clients[d].array][k]
        OBVIOUS
      <4>1. clients[d].len > 0 /\ clients[d].len \in Nat /\ k \in 1 .. clients[d].len
        BY <1>3
      <4>2. clients[d].array \in 1 .. Len(memory) /\ clients[d].len <= Len(memory[clients[d].array])
        BY <4>1 DEF HubInv, SlicesSound, Readable
      <4>3. memory[clients[d].array] \in Seq(Seats)
        BY <1>3, <4>2
      <4>4. k \in 1 .. Len(memory[clients[d].array])
        BY <4>1, <4>2, <4>3
      <4> QED BY <1>1, <1>10, <2>4, <4>1, <4>2, <4>4 DEF Appended
    <3>2. \A t \in Sockets : socket[t].state \in Registered /\ socket[t].channel = d
            <=> socket'[t].state \in Registered /\ socket'[t].channel = d
      BY <2>4, <1>5, <1>6
    <3>3. clients[d].len \in Nat /\ clients'[d] = clients[d]
      BY <2>4, <1>3, <1>7
    <3>4. Roster(memory'[clients[d].array], clients[d].len, d, socket')
      <4> DEFINE old == memory[clients[d].array]
                 new == memory'[clients[d].array]
                 size == clients[d].len
      <4>1. Roster(old, size, d, socket) /\ size \in Nat
        BY <2>1, <3>3
      <4>2. SamePlaces(old, new, size) /\ SameClients(socket, socket', d)
        BY <3>1, <3>2 DEF SamePlaces, SameClients
      <4> HIDE DEF old, new, size
      <4>3. Roster(new, size, d, socket')
        BY <4>1, <4>2, RosterStays
      <4> QED BY <4>3 DEF new, size
    <3> QED BY <2>2, <3>3, <3>4
  <2> QED BY <2>3, <2>4
<1>15. RostersSound'
  BY <1>14 DEF RostersSound
<1>16. RemovalSound'
  BY <1>2, <1>4, <1>5 DEF HubInv, RemovalSound
<1>17. \A m \in HubSends : sending[m].state = "ranging" =>
         sending[m].slice \in Slices /\ Readable(memory, sending[m].slice)
  BY DEF HubInv, HubTyped, SendsSound, SendSound, Idles, Copies, Ranges, Dones
<1>18. ASSUME NEW m \in HubSends, sending[m].state = "ranging", m \notin disturbed'
       PROVE  /\ KeptApart(m)'
              /\ \A k \in 1 .. sending[m].slice.len :
                   memory'[sending[m].slice.array][k] = memory[sending[m].slice.array][k]
  <2> DEFINE read == sending[m].slice
  <2>1. KeptApart(m) /\ read \in Slices /\ Readable(memory, read) /\ read.len \in Nat
    BY <1>2, <1>17, <1>18 DEF HubInv, SendsSound, SendSound, Slices
  <2>2. \A d \in Channels : SameArray(clients[d], read) =>
          d = sending[m].channel /\ read.len <= clients[d].len
    BY <2>1 DEF KeptApart
  <2>3. sending'[m] = sending[m]
    BY <1>2
  <2> HIDE DEF read
  <2>4. ASSUME NEW d \in Channels, SameArray(clients'[d], read)
        PROVE  d = sending[m].channel /\ read.len <= clients'[d].len
    <3>1. CASE d = c
      <4>1. read.array = slice.array /\ read.len > 0
        BY <2>4, <3>1, <1>7 DEF SameArray
      <4>2. read.array \in 1 .. Len(memory) /\ Len(memory) \in Nat
        BY <2>1, <4>1, <1>3 DEF Readable
      <4>3. slice.array = b /\ n > 0
        BY <1>1, <4>1, <4>2 DEF Appended
      <4>4. d = sending[m].channel /\ read.len <= n
        BY <2>2, <3>1, <4>1, <4>3 DEF SameArray
      <4> QED BY <2>1, <3>1, <4>4, <1>3, <1>7
    <3>2. CASE d # c
      BY <2>2, <2>4, <3>2, <1>7
    <3> QED BY <3>1, <3>2
  <2>5. KeptApart(m)'
    BY <2>3, <2>4, <1>9 DEF KeptApart, read
  <2>6. ASSUME NEW k \in 1 .. read.len PROVE memory'[read.array][k] = memory[read.array][k]
    <3>1. read.len > 0 /\ k \in 1 .. read.len
      BY <2>1
    <3>2. read.array \in 1 .. Len(memory) /\ read.len <= Len(memory[read.array])
      BY <2>1, <3>1 DEF Readable
    <3>3. memory[read.array] \in Seq(Seats)
      BY <1>3, <3>2
    <3>4. k \in 1 .. Len(memory[read.array])
      BY <2>1, <3>1, <3>2, <3>3
    <3>5. ~(n > 0 /\ read.array = b /\ k = n + 1)
      BY <2>1, <2>2, <3>1, <1>3 DEF SameArray
    <3> QED BY <1>1, <3>2, <3>4, <3>5 DEF Appended
  <2> QED BY <2>5, <2>6 DEF read
<1>19. SendsSound'
  <2>1. \A m \in HubSends : sending[m].state = "ranging" => Readable(memory', sending[m].slice)
    BY <1>11, <1>17
  <2>2. disturbed \subseteq disturbed' /\ UNCHANGED <<sending, reached, present>>
    BY <1>2
  <2> QED BY <2>1, <2>2, <1>18, SendsKept DEF HubInv
<1> QED BY <1>8, <1>13, <1>15, <1>16, <1>19 DEF HubInv

\* A removal under way, and the places of its slice.
LEMMA RemovalIs ==
  ASSUME HubInv, hubLock # Unlocked
  PROVE  LET c == socket[hubLock.socket].channel IN
         /\ hubLock \in Removals /\ hubLock.socket \in Sockets /\ hubLock.moved \in Seq(Sockets)
         /\ socket[hubLock.socket].state = "leaving" /\ c \in Channels
         /\ clients[c].len \in Nat \ {0} /\ Len(hubLock.moved) = clients[c].len
         /\ clients[c].array \in 1 .. Len(memory)
         /\ clients[c].len <= Len(memory[clients[c].array])
         /\ Removing(c) /\ \A d : Removing(d) => d = c
         /\ Roster(hubLock.moved, clients[c].len, c, socket)
<1> DEFINE s == hubLock.socket
           c == socket[s].channel
<1>1. hubLock \in Removals /\ s \in Sockets /\ hubLock.moved \in Seq(Sockets)
  BY DEF HubInv, HubTyped, Removals
<1>2. socket[s].state = "leaving"
  BY DEF HubInv, RemovalSound
<1>3. c \in Channels
  BY <1>1, <1>2 DEF HubInv, HubTyped, Peers
<1>4. Len(hubLock.moved) = clients[c].len /\ \E i \in 1 .. clients[c].len : TRUE
  BY DEF HubInv, RemovalSound
<1>5. clients[c].len \in Nat \ {0}
  BY <1>3, <1>4 DEF HubInv, HubTyped, Slices
<1>6. clients[c].array \in 1 .. Len(memory) /\ clients[c].len <= Len(memory[clients[c].array])
  BY <1>3, <1>5 DEF HubInv, SlicesSound, Readable
<1>7. Removing(c) /\ \A d : Removing(d) => d = c
  BY DEF Removing
<1>8. Roster(hubLock.moved, clients[c].len, c, socket)
  BY <1>3, <1>7 DEF HubInv, RostersSound, Row
<1> QED BY <1>1, <1>2, <1>3, <1>4, <1>5, <1>6, <1>7, <1>8

\* A removal begins with the roster it found, and disturbs every send on the
\* channel.
LEMMA StartsLeavingKeep ==
  ASSUME HubInv, NEW s \in Sockets, StartsLeaving(s)
  PROVE  HubInv'
<1> DEFINE c == socket[s].channel
           n == clients[c].len
           row == memory[clients[c].array]
           list == Listeners(c)
           i == CHOOSE k \in 1 .. n : list[k] = s
           gone == [socket[s] EXCEPT !.state = "leaving"]
           lock == [socket |-> s, moved |-> list, todo |-> i .. n - 1]
<1>1. /\ socket[s].state = "closed" /\ hubLock = Unlocked /\ hubLock' = lock
      /\ socket' = [socket EXCEPT ![s].state = "leaving"]
      /\ disturbed' = disturbed \cup
           {m \in HubSends : sending[m].state \in {"copied", "ranging"} /\ sending[m].channel = c}
      /\ UNCHANGED <<memory, clients, sending, reached, present>>
  BY DEF StartsLeaving, Displaced
<1>2. c \in Channels
  BY <1>1 DEF HubInv, HubTyped, Peers
<1>3. n \in Nat
  BY <1>2 DEF HubInv, HubTyped, Slices
<1>4. list \in Seq(Sockets) /\ Len(list) = n /\ \A k \in 1 .. n : list[k] = row[k]
  BY <1>2, ListenersAre DEF HubInv
<1>5. Roster(row, n, c, socket)
  BY <1>1, <1>2 DEF HubInv, RostersSound, Row, Removing
<1>6. i \in 1 .. n /\ list[i] = s
  <2>1. \E k \in 1 .. n : list[k] = s
    <3>1. socket[s].state \in Registered
      BY <1>1 DEF Registered
    <3>2. PICK k \in 1 .. n : row[k] = s
      BY <1>5, <3>1 DEF Roster
    <3>3. list[k] = row[k]
      BY <1>4, <3>2
    <3> QED BY <3>2, <3>3
  <2> HIDE DEF list
  <2> QED BY <2>1
<1>7. gone \in Peers /\ gone.state = "leaving" /\ gone.channel = c
  <2>1. socket[s] \in [state : SocketStates \ {"new"}, channel : Channels]
    BY <1>1 DEF HubInv, HubTyped, Peers
  <2> QED BY <2>1 DEF Peers, SocketStates
<1>8. /\ socket'[s] = gone /\ \A t \in Sockets : t # s => socket'[t] = socket[t]
      /\ socket' \in [Sockets -> Peers]
  <2>1. socket' = [socket EXCEPT ![s] = gone]
    BY <1>1 DEF HubInv, HubTyped
  <2> HIDE DEF gone
  <2> QED BY <2>1, <1>7 DEF HubInv, HubTyped
<1> HIDE DEF gone, i
<1>9. lock \in Removals /\ lock.socket = s /\ lock.moved = list /\ lock.todo = i .. n - 1
  <2>1. i .. n - 1 \in SUBSET Nat
    BY <1>3, <1>6
  <2> HIDE DEF list
  <2> QED BY <2>1, <1>4 DEF Removals
<1> HIDE DEF lock
<1>10. lock # Unlocked
  BY <1>9 DEF Unlocked, Sockets, NoSocket
<1> HIDE DEF list
<1>11. \A d : Removing(d)' <=> d = c
  BY <1>1, <1>7, <1>8, <1>9, <1>10 DEF Removing
<1>12. HubTyped'
  BY <1>1, <1>8, <1>9 DEF HubInv, HubTyped
<1>13. SlicesSound'
  BY <1>1 DEF HubInv, SlicesSound
<1>14. \A t \in Sockets :
         /\ socket[t].state \in Registered <=> socket'[t].state \in Registered
         /\ socket[t].channel = socket'[t].channel
  BY <1>1, <1>7, <1>8 DEF Registered
<1>15. ASSUME NEW d \in Channels PROVE Roster(Row(d)', clients'[d].len, d, socket')
  <2> DEFINE old == memory[clients[d].array]
             new == Row(d)'
             size == clients[d].len
  <2>1. Roster(old, size, d, socket) /\ size \in Nat /\ clients'[d] = clients[d]
    BY <1>1 DEF HubInv, RostersSound, Row, Removing, HubTyped, Slices
  <2>2. SamePlaces(old, new, size)
    BY <1>1, <1>4, <1>9, <1>11 DEF Row, SamePlaces
  <2>3. SameClients(socket, socket', d)
    BY <1>14 DEF SameClients
  <2> HIDE DEF old, new, size
  <2>4. Roster(new, size, d, socket')
    BY <2>1, <2>2, <2>3, RosterStays
  <2> QED BY <2>1, <2>4 DEF new, size
<1>16. RostersSound'
  BY <1>15 DEF RostersSound
<1>17. MovedBehind(i, row, list, i .. n - 1, n)
  BY <1>4 DEF MovedBehind
<1>18. RemovalSound'
  <2>1. \A t \in Sockets : socket'[t].state = "leaving" => hubLock'.socket = t
    BY <1>1, <1>8, <1>9 DEF HubInv, RemovalSound, Unlocked, Sockets, NoSocket
  <2>2. /\ socket'[hubLock'.socket].state = "leaving" /\ socket'[hubLock'.socket].channel = c
        /\ Len(hubLock'.moved) = clients'[c].len
    BY <1>1, <1>4, <1>7, <1>8, <1>9
  <2>3. /\ i \in 1 .. clients'[c].len /\ hubLock'.moved[i] = hubLock'.socket
        /\ MovedBehind(i, memory'[clients'[c].array], hubLock'.moved, hubLock'.todo,
                       clients'[c].len)
    BY <1>1, <1>6, <1>9, <1>17
  <2> HIDE DEF c, n, row
  <2> QED BY <2>1, <2>2, <2>3 DEF RemovalSound
<1>19. SendsSound'
  <2>1. \A m \in HubSends : sending[m].state = "ranging" => Readable(memory', sending[m].slice)
    BY <1>1 DEF HubInv, SendsSound, SendSound
  <2>2. ASSUME NEW m \in HubSends, sending[m].state = "ranging", m \notin disturbed'
        PROVE  /\ KeptApart(m)'
               /\ \A k \in 1 .. sending[m].slice.len :
                    memory'[sending[m].slice.array][k] = memory[sending[m].slice.array][k]
    <3>1. sending[m].channel # c /\ m \notin disturbed
      BY <2>2, <1>1
    <3>2. KeptApart(m)
      BY <2>2, <3>1 DEF HubInv, SendsSound, SendSound
    <3>3. ~Removing(sending[m].channel)'
      BY <3>1, <1>1, <1>11
    <3> QED BY <3>2, <3>3, <1>1 DEF KeptApart
  <2>3. disturbed \subseteq disturbed' /\ UNCHANGED <<sending, reached, present>>
    BY <1>1
  <2> QED BY <2>1, <2>2, <2>3, SendsKept DEF HubInv
<1> QED BY <1>12, <1>13, <1>16, <1>18, <1>19 DEF HubInv

\* Writing one element of a row leaves the others.
LEMMA RowWritten ==
  ASSUME NEW S, NEW row \in Seq(S), NEW i \in 1 .. Len(row), NEW x \in S
  PROVE  LET new == [row EXCEPT ![i] = x] IN
         /\ new \in Seq(S) /\ Len(new) = Len(row) /\ new[i] = x
         /\ \A k \in 1 .. Len(row) : k # i => new[k] = row[k]
OBVIOUS

\* An element that moves down takes a place behind the one who leaves, and no
\* send that is not disturbed reads it.
LEMMA MovesKeep ==
  ASSUME HubInv, NEW i, MovesElement(i)
  PROVE  HubInv'
<1> DEFINE s == hubLock.socket
           c == socket[s].channel
           n == clients[c].len
           a == clients[c].array
           row == memory[a]
           new == [row EXCEPT ![i] = hubLock.moved[i + 1]]
           lock == [hubLock EXCEPT !.todo = hubLock.todo \ {i}]
<1>1. /\ hubLock # Unlocked /\ i \in hubLock.todo
      /\ memory' = [memory EXCEPT ![a][i] = hubLock.moved[i + 1]]
      /\ hubLock' = lock
      /\ UNCHANGED <<clients, socket, pending, sending, reached, present, disturbed>>
  BY DEF MovesElement
<1>2. /\ hubLock \in Removals /\ s \in Sockets /\ hubLock.moved \in Seq(Sockets)
      /\ socket[s].state = "leaving" /\ c \in Channels
      /\ n \in Nat \ {0} /\ Len(hubLock.moved) = n
      /\ a \in 1 .. Len(memory) /\ n <= Len(row)
      /\ Removing(c) /\ \A d : Removing(d) => d = c
  BY <1>1, RemovalIs
<1>3. PICK p \in 1 .. n : /\ hubLock.moved[p] = s
                          /\ MovedBehind(p, row, hubLock.moved, hubLock.todo, n)
  BY <1>1 DEF HubInv, RemovalSound
<1>4. i \in p .. n - 1 /\ p \in 1 .. n /\ n \in Nat
  BY <1>1, <1>2, <1>3 DEF MovedBehind
<1>5. row \in Seq(Seats) /\ i \in 1 .. Len(row) /\ hubLock.moved[i + 1] \in Sockets
  <2>1. row \in Seq(Seats) /\ Len(row) \in Nat
    BY <1>2 DEF HubInv, HubTyped
  <2>2. i \in 1 .. n /\ i + 1 \in 1 .. n
    BY <1>4
  <2>3. hubLock.moved \in Seq(Sockets) /\ Len(hubLock.moved) = n /\ n <= Len(row)
    BY <1>2
  <2> HIDE DEF n, row
  <2>4. hubLock.moved[i + 1] \in Sockets
    BY <2>2, <2>3
  <2>5. i \in 1 .. Len(row)
    BY <2>1, <2>2, <2>3, <1>4
  <2> QED BY <2>1, <2>4, <2>5
<1>6. /\ new \in Seq(Seats) /\ Len(new) = Len(row) /\ new[i] = hubLock.moved[i + 1]
      /\ \A k \in 1 .. Len(row) : k # i => new[k] = row[k]
  <2> HIDE DEF row
  <2> QED BY <1>5, RowWritten DEF Seats
<1>7. memory' = [memory EXCEPT ![a] = new]
  BY <1>1
<1> HIDE DEF new
<1>8. /\ memory' \in Seq(Seq(Seats)) /\ Len(memory') = Len(memory) /\ memory'[a] = new
      /\ \A b \in 1 .. Len(memory) : b # a => memory'[b] = memory[b]
  <2>1. memory \in Seq(Seq(Seats)) /\ a \in 1 .. Len(memory)
    BY <1>2 DEF HubInv, HubTyped
  <2> HIDE DEF a
  <2> QED BY <2>1, <1>6, <1>7
<1>9. lock \in Removals /\ lock.socket = s /\ lock.moved = hubLock.moved
      /\ lock.todo = hubLock.todo \ {i}
  BY <1>2 DEF Removals
<1> HIDE DEF lock
<1>10. lock # Unlocked
  BY <1>2, <1>9 DEF Unlocked, Sockets, NoSocket
<1>11. \A d : Removing(d)' <=> Removing(d)
  BY <1>1, <1>9, <1>10 DEF Removing
<1>12. HubTyped'
  BY <1>1, <1>8, <1>9 DEF HubInv, HubTyped
<1>13. \A slice \in Slices : Readable(memory, slice) => Readable(memory', slice)
  <2> SUFFICES ASSUME NEW slice \in Slices, Readable(memory, slice), slice.len > 0
               PROVE  /\ slice.array \in 1 .. Len(memory')
                      /\ slice.len <= Len(memory'[slice.array])
                      /\ \A k \in 1 .. slice.len : memory'[slice.array][k] \in Sockets
    BY DEF Readable
  <2>1. slice.array \in 1 .. Len(memory) /\ slice.len <= Len(memory[slice.array])
        /\ \A k \in 1 .. slice.len : memory[slice.array][k] \in Sockets
    BY DEF Readable
  <2>2. CASE slice.array # a
    BY <2>1, <2>2, <1>8
  <2>3. CASE slice.array = a
    <3>1. \A k \in 1 .. slice.len : k \in 1 .. Len(row)
      <4>1. slice.len \in Nat /\ slice.len <= Len(row) /\ row \in Seq(Seats)
        BY <2>1, <2>3, <1>5 DEF Slices
      <4> HIDE DEF row
      <4> QED BY <4>1
    <3> QED BY <2>1, <2>3, <3>1, <1>5, <1>6, <1>8
  <2> QED BY <2>2, <2>3
<1>14. SlicesSound'
  <2>1. \A d \in Channels : clients[d] \in Slices
    BY DEF HubInv, HubTyped
  <2> QED BY <2>1, <1>1, <1>13 DEF HubInv, SlicesSound
<1>15. \A d \in Channels : clients[d].len > 0 /\ d # c => clients[d].array # a
  BY <1>2 DEF HubInv, SlicesSound, SameArray
<1>16. ASSUME NEW d \in Channels PROVE Roster(Row(d)', clients'[d].len, d, socket')
  <2> DEFINE old == Row(d)
             later == Row(d)'
             size == clients[d].len
  <2>1. Roster(old, size, d, socket) /\ size \in Nat /\ clients'[d] = clients[d]
    BY <1>1 DEF HubInv, RostersSound, HubTyped, Slices
  <2>2. CASE d = c
    <3>1. later = old
      BY <2>2, <1>1, <1>2, <1>9, <1>11 DEF Row
    <3> QED BY <2>1, <3>1, <1>1
  <2>3. CASE d # c
    <3>1. old = memory[clients[d].array] /\ later = memory'[clients[d].array]
      BY <2>3, <1>1, <1>2, <1>11 DEF Row
    <3>2. size > 0 => clients[d].array \in 1 .. Len(memory) /\ clients[d].array # a
      BY <2>3, <1>15 DEF HubInv, SlicesSound, Readable
    <3>3. SamePlaces(old, later, size)
      <4>1. CASE size > 0
        BY <4>1, <3>1, <3>2, <1>8 DEF SamePlaces
      <4>2. CASE ~(size > 0)
        BY <4>2, <2>1 DEF SamePlaces
      <4> QED BY <4>1, <4>2
    <3>4. SameClients(socket, socket, d)
      BY DEF SameClients
    <3> HIDE DEF old, later, size
    <3>5. Roster(later, size, d, socket)
      BY <2>1, <3>3, <3>4, RosterStays
    <3> QED BY <2>1, <3>5, <1>1 DEF later, size
  <2> QED BY <2>2, <2>3
<1>17. RostersSound'
  BY <1>16 DEF RostersSound
<1>18. MovedBehind(p, new, hubLock.moved, hubLock.todo \ {i}, n)
  <2>1. \A k \in 1 .. n : k \in 1 .. Len(row)
    BY <1>2, <1>5
  <2>2. ASSUME NEW k \in 1 .. n
        PROVE  new[k] = IF k \in (p .. n - 1) \ (hubLock.todo \ {i})
                        THEN hubLock.moved[k + 1] ELSE hubLock.moved[k]
    <3>1. CASE k = i
      BY <3>1, <1>4, <1>6
    <3>2. CASE k # i
      BY <3>2, <2>1, <1>3, <1>6 DEF MovedBehind
    <3> QED BY <3>1, <3>2
  <2> QED BY <2>2, <1>3 DEF MovedBehind
<1>19. RemovalSound'
  <2>1. \A t \in Sockets : socket'[t].state = "leaving" => hubLock'.socket = t
    BY <1>1, <1>9 DEF HubInv, RemovalSound
  <2>2. /\ socket'[hubLock'.socket].state = "leaving" /\ socket'[hubLock'.socket].channel = c
        /\ Len(hubLock'.moved) = clients'[c].len
    BY <1>1, <1>2, <1>9
  <2>3. /\ p \in 1 .. clients'[c].len /\ hubLock'.moved[p] = hubLock'.socket
        /\ MovedBehind(p, memory'[clients'[c].array], hubLock'.moved, hubLock'.todo,
                       clients'[c].len)
    BY <1>1, <1>3, <1>8, <1>9, <1>18
  <2> HIDE DEF c, n, a, row, s
  <2> QED BY <2>1, <2>2, <2>3 DEF RemovalSound
<1>20. \A m \in HubSends : sending[m].state = "ranging" =>
         sending[m].slice \in Slices /\ Readable(memory, sending[m].slice)
  BY DEF HubInv, HubTyped, SendsSound, SendSound, Idles, Copies, Ranges, Dones
<1>21. ASSUME NEW m \in HubSends, sending[m].state = "ranging", m \notin disturbed'
       PROVE  /\ KeptApart(m)'
              /\ \A k \in 1 .. sending[m].slice.len :
                   memory'[sending[m].slice.array][k] = memory[sending[m].slice.array][k]
  <2> DEFINE read == sending[m].slice
  <2>1. KeptApart(m) /\ read \in Slices /\ Readable(memory, read) /\ read.len \in Nat
    BY <1>1, <1>20, <1>21 DEF HubInv, SendsSound, SendSound, Slices
  <2>2. KeptApart(m)'
    BY <2>1, <1>1, <1>11 DEF KeptApart
  <2>3. ~SameArray(clients[c], read)
    BY <2>1, <1>2 DEF KeptApart
  <2> HIDE DEF read
  <2>4. CASE read.len > 0
    <3>1. read.array # a /\ read.array \in 1 .. Len(memory)
      BY <2>1, <2>3, <2>4, <1>2 DEF SameArray, Readable
    <3>2. memory'[read.array] = memory[read.array]
      BY <3>1, <1>8
    <3> QED BY <2>2, <3>2 DEF read
  <2>5. CASE ~(read.len > 0)
    <3>1. \A k \in 1 .. read.len : FALSE
      BY <2>1, <2>5
    <3> QED BY <2>2, <3>1 DEF read
  <2> QED BY <2>4, <2>5
<1>22. SendsSound'
  <2>1. \A m \in HubSends : sending[m].state = "ranging" => Readable(memory', sending[m].slice)
    BY <1>13, <1>20
  <2>2. disturbed \subseteq disturbed' /\ UNCHANGED <<sending, reached, present>>
    BY <1>1
  <2> QED BY <2>1, <2>2, <1>21, SendsKept DEF HubInv
<1> QED BY <1>12, <1>14, <1>17, <1>19, <1>22 DEF HubInv

\* When all have moved, the shorter slice shows the roster without the client.
LEMMA LeavesKeep ==
  ASSUME HubInv, Leaves
  PROVE  HubInv'
<1> DEFINE s == hubLock.socket
           c == socket[s].channel
           n == clients[c].len
           a == clients[c].array
           row == memory[a]
           rest == IF n = 1 THEN NoClients ELSE [array |-> a, len |-> n - 1]
           gone == [socket[s] EXCEPT !.state = "gone"]
<1>1. /\ hubLock # Unlocked /\ hubLock.todo = {}
      /\ clients' = [clients EXCEPT ![c] = rest]
      /\ socket' = [socket EXCEPT ![s].state = "gone"]
      /\ hubLock' = Unlocked
      /\ UNCHANGED <<memory, pending, sending, reached, present, disturbed>>
  BY DEF Leaves
<1>2. /\ hubLock \in Removals /\ s \in Sockets /\ hubLock.moved \in Seq(Sockets)
      /\ socket[s].state = "leaving" /\ c \in Channels
      /\ n \in Nat \ {0} /\ Len(hubLock.moved) = n
      /\ Removing(c) /\ \A d : Removing(d) => d = c
      /\ Roster(hubLock.moved, n, c, socket)
  BY <1>1, RemovalIs
<1>3. PICK p \in 1 .. n : /\ hubLock.moved[p] = s
                          /\ MovedBehind(p, row, hubLock.moved, hubLock.todo, n)
  BY <1>1 DEF HubInv, RemovalSound
<1>4. clients[c] \in Slices
  BY <1>2 DEF HubInv, HubTyped
<1>5. rest \in Slices /\ rest.len = n - 1 /\ (n > 1 => rest.array = a)
  BY <1>2, <1>4 DEF Slices, NoClients
<1> HIDE DEF rest
<1>6. gone \in Peers /\ gone.state = "gone"
  <2>1. socket[s] \in [state : SocketStates \ {"new"}, channel : Channels]
    BY <1>2 DEF HubInv, HubTyped, Peers
  <2> QED BY <2>1 DEF Peers, SocketStates
<1>7. /\ socket'[s] = gone /\ \A t \in Sockets \ {s} : socket'[t] = socket[t]
      /\ socket' \in [Sockets -> Peers]
  <2>1. socket' = [socket EXCEPT ![s] = gone]
    BY <1>1 DEF HubInv, HubTyped
  <2> HIDE DEF gone
  <2> QED BY <2>1, <1>2, <1>6 DEF HubInv, HubTyped
<1> HIDE DEF gone
<1>8. /\ clients'[c] = rest /\ \A d \in Channels \ {c} : clients'[d] = clients[d]
      /\ clients' \in [Channels -> Slices]
  BY <1>1, <1>2, <1>5 DEF HubInv, HubTyped
<1>9. HubTyped'
  BY <1>1, <1>7, <1>8 DEF HubInv, HubTyped
<1>10. \A d : ~Removing(d)'
  BY <1>1 DEF Removing
<1>11. \A other : \A d \in Channels : SameArray(clients'[d], other) => SameArray(clients[d], other)
  BY <1>2, <1>5, <1>8 DEF SameArray
<1>12. \A d, e \in Channels :
         SameArray(clients'[d], clients'[e]) => SameArray(clients[d], clients[e])
  <2> SUFFICES ASSUME NEW d \in Channels, NEW e \in Channels, SameArray(clients'[d], clients'[e])
               PROVE  SameArray(clients[d], clients[e])
    OBVIOUS
  <2>1. SameArray(clients'[d], clients[e])
    BY <1>2, <1>5, <1>8 DEF SameArray
  <2> QED BY <2>1, <1>11
<1>13. SlicesSound'
  <2>1. ASSUME NEW d \in Channels PROVE Readable(memory, clients'[d])
    <3>1. Readable(memory, clients[d])
      BY DEF HubInv, SlicesSound
    <3>2. CASE d = c
      <4>1. ASSUME n > 1 PROVE Readable(memory, rest)
        <5>1. a \in 1 .. Len(memory) /\ n <= Len(row) /\ \A k \in 1 .. n : row[k] \in Sockets
          <6>1. Readable(memory, clients[c]) /\ n > 0
            BY <3>1, <3>2, <4>1, <1>2
          <6> QED BY <6>1 DEF Readable
        <5>2. row \in Seq(Seats) /\ Len(row) \in Nat /\ n \in Nat
          <6>1. n \in Nat
            BY <1>2
          <6>2. row \in Seq(Seats)
            <7>1. memory \in Seq(Seq(Seats)) /\ a \in 1 .. Len(memory)
              BY <5>1 DEF HubInv, HubTyped
            <7> HIDE DEF a
            <7> QED BY <7>1
          <6> HIDE DEF n, row
          <6> QED BY <6>1, <6>2
        <5> HIDE DEF n, row
        <5>3. n - 1 <= Len(row) /\ \A k \in 1 .. n - 1 : row[k] \in Sockets
          BY <5>1, <5>2
        <5> QED BY <5>1, <5>3, <4>1, <1>5 DEF Readable, row
      <4>2. ~(n > 1) => ~(rest.len > 0)
        BY <1>2, <1>5
      <4> QED BY <3>2, <4>1, <4>2, <1>8 DEF Readable
    <3>3. CASE d # c
      BY <3>1, <3>3, <1>8
    <3> QED BY <3>2, <3>3
  <2> QED BY <2>1, <1>1, <1>12 DEF HubInv, SlicesSound
<1>14. ASSUME NEW d \in Channels PROVE Roster(Row(d)', clients'[d].len, d, socket')
  <2>1. Row(d)' = memory[clients'[d].array]
    BY <1>1, <1>10 DEF Row
  <2>2. CASE d = c
    <3> DEFINE moved == hubLock.moved
               later == memory[rest.array]
    <3>1. ClosedUp(moved, later, n, p)
      <4> SUFFICES ASSUME NEW k \in 1 .. n - 1
                   PROVE  later[k] = IF p <= k THEN moved[k + 1] ELSE moved[k]
        BY DEF ClosedUp
      <4>1. later = row /\ k \in 1 .. n
        BY <1>2, <1>5
      <4>2. k \in (p .. n - 1) \ hubLock.todo <=> p <= k
        BY <1>1, <1>2
      <4> QED BY <4>1, <4>2, <1>3 DEF MovedBehind
    <3>2. ~(socket'[moved[p]].state \in Registered)
      BY <1>3, <1>6, <1>7 DEF Registered
    <3>3. OnlyLeaves(socket, socket', moved[p])
      BY <3>2, <1>3, <1>7 DEF OnlyLeaves
    <3>4. Roster(moved, n, c, socket) /\ n \in Nat /\ p \in 1 .. n
      BY <1>2
    <3> HIDE DEF moved, later, n
    <3>5. Roster(later, n - 1, c, socket')
      BY <3>1, <3>3, <3>4, RosterShrinks
    <3> QED BY <2>1, <2>2, <3>5, <1>5, <1>8 DEF later, n
  <2>3. CASE d # c
    <3> DEFINE old == memory[clients[d].array]
               size == clients[d].len
    <3>1. Roster(old, size, d, socket) /\ size \in Nat
      BY <2>3, <1>2 DEF HubInv, RostersSound, Row, HubTyped, Slices
    <3>2. SameClients(socket, socket', d)
      BY <2>3, <1>6, <1>7 DEF Registered, SameClients
    <3>3. SamePlaces(old, old, size)
      BY DEF SamePlaces
    <3> HIDE DEF old, size
    <3>4. Roster(old, size, d, socket')
      BY <3>1, <3>2, <3>3, RosterStays
    <3> QED BY <2>1, <2>3, <3>4, <1>8 DEF old, size
  <2> QED BY <2>2, <2>3
<1>15. RostersSound'
  BY <1>14 DEF RostersSound
<1>16. RemovalSound'
  <2>1. \A t \in Sockets : socket'[t].state # "leaving"
    BY <1>6, <1>7 DEF HubInv, RemovalSound
  <2> QED BY <2>1, <1>1 DEF RemovalSound
<1>17. SendsSound'
  <2>1. \A m \in HubSends : sending[m].state = "ranging" => Readable(memory', sending[m].slice)
    BY <1>1 DEF HubInv, SendsSound, SendSound
  <2>2. ASSUME NEW m \in HubSends, sending[m].state = "ranging", m \notin disturbed'
        PROVE  /\ KeptApart(m)'
               /\ \A k \in 1 .. sending[m].slice.len :
                    memory'[sending[m].slice.array][k] = memory[sending[m].slice.array][k]
    <3> DEFINE read == sending[m].slice
    <3>1. KeptApart(m)
      BY <2>2, <1>1 DEF HubInv, SendsSound, SendSound
    <3>2. ~SameArray(clients[c], read)
      BY <3>1, <1>2 DEF KeptApart
    <3>3. \A d \in Channels : SameArray(clients'[d], read) =>
            d # c /\ SameArray(clients[d], read)
      BY <3>2, <1>11
    <3>4. \A d \in Channels : SameArray(clients'[d], read) =>
            d = sending[m].channel /\ read.len <= clients'[d].len
      BY <3>1, <3>3, <1>8 DEF KeptApart
    <3>5. sending'[m] = sending[m] /\ memory' = memory
      BY <1>1
    <3>6. KeptApart(m)'
      BY <3>4, <3>5, <1>10 DEF KeptApart
    <3> QED BY <3>5, <3>6
  <2>3. disturbed \subseteq disturbed' /\ UNCHANGED <<sending, reached, present>>
    BY <1>1
  <2> QED BY <2>1, <2>2, <2>3, SendsKept DEF HubInv
<1> QED BY <1>9, <1>13, <1>15, <1>16, <1>17 DEF HubInv

\* A hub without clients and without sends.
LEMMA HubInvInit == HubInit => HubInv
<1> SUFFICES ASSUME HubInit PROVE HubInv
  OBVIOUS
<1>1. HubTyped
  BY DEF HubInit, HubTyped, NoClients, Slices, Peers, Idles, Seats
<1>2. \A c \in Channels : clients[c].len = 0
  BY DEF HubInit, NoClients
<1>3. SlicesSound
  BY <1>2 DEF SlicesSound, Readable, SameArray
<1>4. \A s \in Sockets : socket[s].state = "new"
  BY DEF HubInit
<1>5. RostersSound
  BY <1>2, <1>4 DEF RostersSound, Roster, Registered
<1>6. RemovalSound
  BY <1>4 DEF HubInit, RemovalSound
<1>7. SendsSound
  BY DEF HubInit, SendsSound, SendSound, NoSocket
<1> QED BY <1>1, <1>3, <1>5, <1>6, <1>7 DEF HubInv

\* Every step keeps the hub's invariant.
LEMMA HubInvNext == HubInv /\ [HubNext]_hubVars => HubInv'
<1> SUFFICES ASSUME HubInv, [HubNext]_hubVars PROVE HubInv'
  OBVIOUS
<1>1. ASSUME UNCHANGED <<memory, clients, hubLock, socket, sending, reached, present, disturbed>>
      PROVE  HubInv'
  <2>1. SendsSound'
    BY <1>1, SendsLeft DEF HubInv, Removing
  <2> QED BY <1>1, <2>1, SendsOnly DEF HubInv, HubTyped
<1>2. ASSUME NEW s \in Sockets, NEW c \in Channels, Joins(s, c) PROVE HubInv'
  BY <1>2, JoinsKeep
<1>3. ASSUME NEW s \in Sockets, PeerVanishes(s) PROVE HubInv'
  BY <1>3, SocketTurns DEF PeerVanishes
<1>4. ASSUME NEW s \in Sockets, ConnectionEnds(s) PROVE HubInv'
  BY <1>4, SocketTurns DEF ConnectionEnds
<1>5. ASSUME NEW s \in Sockets, WritesFrame(s) PROVE HubInv'
  BY <1>1, <1>5 DEF WritesFrame
<1>6. ASSUME NEW s \in Sockets, LeavesSteps(s) PROVE HubInv'
  BY <1>6, StartsLeavingKeep, MovesKeep, LeavesKeep DEF LeavesSteps
<1>7. ASSUME NEW m \in HubSends, \/ \E c \in RiderChannels : SendToRider(m, c)
                                 \/ \E c \in OrderChannels : SendToOrder(m, c)
      PROVE  HubInv'
  BY <1>7, StartsKeep
<1>8. ASSUME NEW m \in HubSends, TriesNext(m) PROVE HubInv'
  BY <1>8, TriesKeep
<1>9. ASSUME NEW m \in HubSends, EndsSend(m) PROVE HubInv'
  BY <1>9, EndsKeep
<1>10. CASE UNCHANGED hubVars
  BY <1>1, <1>10 DEF hubVars
<1> QED BY <1>2, <1>3, <1>4, <1>5, <1>6, <1>7, <1>8, <1>9, <1>10 DEF HubNext

\* The lists of clients, the removal and the sends fit together.
THEOREM HubInvariant == HubSpec => []HubInv
BY HubInvInit, HubInvNext, PTL DEF HubSpec

\* A message to a rider is tried once on every connection the rider had, one to
\* an order's channel too unless a listener leaves meanwhile, and no send meets
\* an empty place, however many connections come and go.
THEOREM ListenersReached == HubSpec => []EveryListenerOnce
<1>1. HubInv => EveryListenerOnce
  <2> SUFFICES ASSUME HubInv, NEW m \in HubSends
               PROVE  /\ reached[m][NoSocket] = 0
                      /\ sending[m].state = "done" /\ (sending[m].rider \/ m \notin disturbed) =>
                           \A s \in Sockets : reached[m][s] = IF s \in present[m] THEN 1 ELSE 0
    BY DEF EveryListenerOnce
  <2>1. SendSound(m)
    BY DEF HubInv, SendsSound
  <2> QED BY <2>1 DEF SendSound
<1> QED BY <1>1, HubInvariant, PTL

\* A channel without clients has no slice, and a send channel has its size.
HubBounded ==
  /\ pending \in [Sockets -> 0 .. SendBuffer]
  /\ \A c \in Channels : clients[c].len = 0 => clients[c].array = 0

\* What the invariant and the bounds say together is the type invariant.
LEMMA HubInTypes == HubInv /\ HubBounded => HubTypeOK
<1> SUFFICES ASSUME HubInv, HubBounded PROVE HubTypeOK
  OBVIOUS
<1>1. Len(memory) \in Nat /\ \A a \in DOMAIN memory : memory[a] \in Seq(Sockets \cup {NoSocket})
  <2>1. memory \in Seq(Seq(Sockets \cup {NoSocket}))
    BY DEF HubInv, HubTyped, Seats
  <2> QED BY <2>1
<1>2. ASSUME NEW c \in Channels
      PROVE  /\ clients[c].array \in 0 .. Len(memory)
             /\ clients[c].len > 0 => clients[c].len <= Len(memory[clients[c].array])
  <2>1. clients[c].len \in Nat
    BY DEF HubInv, HubTyped, Slices
  <2>2. CASE clients[c].len = 0
    BY <1>1, <2>2 DEF HubBounded
  <2>3. CASE clients[c].len > 0
    <3>1. Readable(memory, clients[c])
      BY DEF HubInv, SlicesSound
    <3> QED BY <1>1, <2>3, <3>1 DEF Readable
  <2> QED BY <2>1, <2>2, <2>3
<1>3. hubLock.socket \in Sockets \cup {NoSocket}
  BY DEF HubInv, HubTyped, Unlocked, Removals
<1>4. \A s \in Sockets : socket[s].state \in SocketStates
  BY DEF HubInv, HubTyped, Peers, SocketStates
<1>5. \A m \in HubSends : sending[m].state \in SendStates
  BY DEF HubInv, HubTyped, Idles, Copies, Ranges, Dones, SendStates
<1>6. /\ reached \in [HubSends -> [Sockets \cup {NoSocket} -> Nat]]
      /\ present \in [HubSends -> SUBSET Sockets]
      /\ disturbed \subseteq HubSends
  BY DEF HubInv, HubTyped, Seats
<1>7. pending \in [Sockets -> 0 .. SendBuffer]
  BY DEF HubBounded
<1> QED BY <1>1, <1>2, <1>3, <1>4, <1>5, <1>6, <1>7, Zenon DEF HubTypeOK

\* The channel of a removal has clients, and those are counted.
LEMMA LeaversCounted ==
  ASSUME HubInv, hubLock # Unlocked, NEW c \in Channels, c = socket[hubLock.socket].channel
  PROVE  clients[c].len \in Nat /\ clients[c].len > 0
<1>1. clients[c].len \in Nat
  BY DEF HubInv, HubTyped, Slices
<1>2. \E i \in 1 .. clients[c].len : TRUE
  BY DEF HubInv, RemovalSound
<1> QED BY <1>1, <1>2

\* Send channels fill up to their size, and a last client takes the slice away.
LEMMA HubStaysBounded == HubInv /\ HubBounded /\ [HubNext]_hubVars => HubBounded'
<1> SUFFICES ASSUME HubInv, HubBounded, [HubNext]_hubVars PROVE HubBounded'
  OBVIOUS
<1>1. ASSUME UNCHANGED <<clients, pending>> PROVE HubBounded'
  BY <1>1 DEF HubBounded
<1>2. ASSUME NEW s \in Sockets, NEW c \in Channels, Joins(s, c) PROVE HubBounded'
  <2>1. UNCHANGED pending
    BY <1>2 DEF Joins
  <2>2. clients[c].len \in Nat /\ clients[c] \in Slices
    BY DEF HubInv, HubTyped, Slices
  <2>3. \E slice : clients' = [clients EXCEPT ![c] = slice] /\ slice.len = clients[c].len + 1
    <3>1. CASE clients' = [clients EXCEPT ![c].len = clients[c].len + 1]
      <4>1. [clients[c] EXCEPT !.len = clients[c].len + 1].len = clients[c].len + 1
        BY <2>2 DEF Slices
      <4> QED BY <3>1, <4>1
    <3>2. CASE clients' = [clients EXCEPT ![c] =
                             [array |-> Len(memory) + 1, len |-> clients[c].len + 1]]
      <4> DEFINE slice == [array |-> Len(memory) + 1, len |-> clients[c].len + 1]
      <4>1. slice.len = clients[c].len + 1 /\ clients' = [clients EXCEPT ![c] = slice]
        BY <3>2
      <4> HIDE DEF slice
      <4> QED BY <4>1
    <3>3. \/ clients' = [clients EXCEPT ![c].len = clients[c].len + 1]
          \/ clients' = [clients EXCEPT ![c] =
                           [array |-> Len(memory) + 1, len |-> clients[c].len + 1]]
      BY <1>2, Zenon DEF Joins
    <3> QED BY <3>1, <3>2, <3>3
  <2>4. \A d \in Channels : d # c => clients'[d] = clients[d]
    BY <2>3 DEF HubInv, HubTyped
  <2>5. clients'[c].len # 0
    BY <2>2, <2>3 DEF HubInv, HubTyped
  <2> QED BY <2>1, <2>4, <2>5 DEF HubBounded
<1>3. ASSUME NEW s \in Sockets,
             PeerVanishes(s) \/ ConnectionEnds(s) \/ StartsLeaving(s)
               \/ \E i \in 1 .. MaxSockets : MovesElement(i)
      PROVE  HubBounded'
  BY <1>1, <1>3 DEF PeerVanishes, ConnectionEnds, StartsLeaving, MovesElement
<1>4. ASSUME NEW s \in Sockets, WritesFrame(s) PROVE HubBounded'
  <2>1. /\ pending[s] \in 0 .. SendBuffer /\ pending[s] > 0 /\ SendBuffer \in Nat
        /\ pending' = [pending EXCEPT ![s] = pending[s] - 1] /\ UNCHANGED clients
    BY <1>4, HubAssumption DEF WritesFrame, HubBounded
  <2>2. pending[s] - 1 \in 0 .. SendBuffer
    BY <2>1
  <2> QED BY <2>1, <2>2 DEF HubBounded
<1>5. CASE Leaves
  <2> DEFINE c == socket[hubLock.socket].channel
             rest == IF clients[c].len = 1 THEN NoClients
                     ELSE [array |-> clients[c].array, len |-> clients[c].len - 1]
  <2>1. hubLock # Unlocked /\ clients' = [clients EXCEPT ![c] = rest] /\ UNCHANGED pending
    BY <1>5 DEF Leaves
  <2>2. c \in Channels /\ rest.len = 0 => rest.array = 0
    BY <2>1, LeaversCounted DEF NoClients
  <2> HIDE DEF c, rest
  <2>3. \A d \in Channels : clients'[d] = IF d = c THEN rest ELSE clients[d]
    BY <2>1 DEF HubInv, HubTyped
  <2> QED BY <2>1, <2>2, <2>3 DEF HubBounded
<1>6. ASSUME NEW m \in HubSends,
             \/ \E c \in RiderChannels : SendToRider(m, c)
             \/ \E c \in OrderChannels : SendToOrder(m, c)
             \/ EndsSend(m)
      PROVE  HubBounded'
  BY <1>1, <1>6 DEF SendToRider, SendToOrder, StartsSend, EndsSend
<1>7. ASSUME NEW m \in HubSends, TriesNext(m) PROVE HubBounded'
  <2>1. PICK s : pending' = IF s # NoSocket /\ pending[s] < SendBuffer
                            THEN [pending EXCEPT ![s] = pending[s] + 1] ELSE pending
    BY <1>7 DEF TriesNext
  <2>2. UNCHANGED clients
    BY <1>7 DEF TriesNext, TakesPlace
  <2>3. pending' \in [Sockets -> 0 .. SendBuffer]
    <3>1. CASE s \in Sockets /\ pending[s] < SendBuffer
      <4>1. pending[s] + 1 \in 0 .. SendBuffer
        BY <3>1, HubAssumption DEF HubBounded
      <4> QED BY <2>1, <4>1 DEF HubBounded
    <3>2. CASE ~(s \in Sockets /\ pending[s] < SendBuffer)
      BY <2>1, <3>2 DEF HubBounded
    <3> QED BY <3>1, <3>2
  <2> QED BY <2>2, <2>3 DEF HubBounded
<1>8. CASE UNCHANGED hubVars
  BY <1>1, <1>8 DEF hubVars
<1> QED BY <1>2, <1>3, <1>4, <1>5, <1>6, <1>7, <1>8 DEF HubNext, LeavesSteps

\* No channel has a client at first.
LEMMA HubStartsBounded == HubInit => HubBounded
<1>1. 0 \in 0 .. SendBuffer
  BY HubAssumption
<1> QED BY <1>1 DEF HubInit, HubBounded, NoClients

\* No send channel overflows, and every slice is within its array.
THEOREM HubTyping == HubSpec => []HubTypeOK
<1>1. HubInit => HubInv /\ HubBounded
  BY HubInvInit, HubStartsBounded
<1>2. HubInv /\ HubBounded /\ [HubNext]_hubVars => (HubInv /\ HubBounded)'
  BY HubInvNext, HubStaysBounded
<1>3. HubInv /\ HubBounded => HubTypeOK
  BY HubInTypes
<1> QED BY <1>1, <1>2, <1>3, PTL DEF HubSpec

-----------------------------------------------------------------------------
(* Push.                                                                   *)

LookingUp == [step |-> "lookup"]
PushStates == Sending \cup {NotPushed, PushDone, LookingUp}
Flying(ps) == {p \in Pushes : ps[p] \notin {NotPushed, PushDone}}

\* The mutex is held by the push that mints.
HeldBy(m, ps) ==
  /\ m \in {NobodyMints} \cup Pushes
  /\ \A p \in Pushes : m = p <=> ps[p].step = "mint"

\* A device that is about to be forgotten is retired.
MayForget(w, alive) == w.step = "remove" => w.device \notin alive
ForgetRetired(ps, alive) == \A p \in Pushes : MayForget(ps[p], alive)

TokensTyped ==
  /\ registered \subseteq Devices /\ live \subseteq Devices
  /\ minted \in 0 .. MaxMinted /\ revoked \in 0 .. minted

PushInv ==
  /\ TokensTyped
  /\ slotsTaken \in 0 .. PushSlots
  /\ slotsTaken = Cardinality(Flying(push))
  /\ push \in [Pushes -> PushStates]
  /\ HeldBy(minting, push)
  /\ ForgetRetired(push, live)

\* It says what the type invariant says, and more.
LEMMA PushInTypes == PushInv => PushTypeOK /\ OnlyRetiredForgotten
<1> SUFFICES ASSUME PushInv PROVE PushTypeOK /\ OnlyRetiredForgotten
  OBVIOUS
<1>1. Flying(push) = {p \in Pushes : InFlight(p)}
  BY DEF Flying, InFlight
<1>2. PushTypeOK
  BY <1>1 DEF PushInv, PushTypeOK, TokensTyped, HeldBy, PushStates, LookingUp
<1>3. OnlyRetiredForgotten
  BY DEF PushInv, ForgetRetired, MayForget, OnlyRetiredForgotten
<1> QED BY <1>2, <1>3

\* There are finitely many pushes.
LEMMA PushesFinite == /\ IsFiniteSet(Pushes)
                      /\ \A ps : IsFiniteSet(Flying(ps)) /\ Cardinality(Flying(ps)) \in Nat
                      /\ NobodyMints \notin Pushes
<1>1. IsFiniteSet(Pushes)
  BY PushAssumption, FS_Interval DEF Pushes
<1>2. ASSUME NEW ps PROVE IsFiniteSet(Flying(ps)) /\ Cardinality(Flying(ps)) \in Nat
  <2>1. Flying(ps) \subseteq Pushes
    BY DEF Flying
  <2>2. IsFiniteSet(Flying(ps))
    BY <1>1, <2>1, FS_Subset
  <2> QED BY <2>2, FS_CardinalityType
<1>3. NobodyMints \notin Pushes
  BY DEF NobodyMints, Pushes
<1> QED BY <1>1, <1>2, <1>3

\* The steps of a push differ.
LEMMA PushStatesDiffer ==
  /\ NotPushed.step = "new" /\ PushDone.step = "done" /\ LookingUp.step = "lookup"
  /\ \A w \in Sending : w.step \in SendSteps
  /\ \A w \in Sending \cup {LookingUp} :
       w \notin {NotPushed, PushDone} /\ w.step \notin {"new", "done"}
<1>1. NotPushed.step = "new" /\ PushDone.step = "done" /\ LookingUp.step = "lookup"
  BY DEF NotPushed, PushDone, LookingUp
<1>2. \A w \in Sending : w.step \in SendSteps
  BY DEF Sending
<1>3. \A w \in Sending \cup {LookingUp} : w.step \notin {"new", "done"}
  BY <1>1, <1>2 DEF SendSteps
<1> QED BY <1>1, <1>2, <1>3

\* A push that is doing something holds a slot.
LEMMA InFlightSends ==
  ASSUME PushInv, NEW p \in Pushes, push[p].step \notin {"new", "done"}
  PROVE  /\ p \in Flying(push)
         /\ push[p].step # "lookup" => push[p] \in Sending
<1>1. push[p] \in PushStates
  BY DEF PushInv
<1>2. push[p] \notin {NotPushed, PushDone}
  BY PushStatesDiffer
<1> QED BY <1>1, <1>2, PushStatesDiffer DEF Flying, PushStates

\* The next state of one push.
LEMMA PushChanged ==
  ASSUME PushInv, NEW p \in Pushes, NEW w \in PushStates, push' = [push EXCEPT ![p] = w],
         HeldBy(minting', push') , live' \subseteq live, MayForget(w, live')
  PROVE  /\ push' \in [Pushes -> PushStates] /\ ForgetRetired(push', live')
         /\ p \notin Flying(push') => Flying(push') = Flying(push) \ {p}
         /\ p \in Flying(push') => Flying(push') = Flying(push) \cup {p}
<1>1. /\ push' \in [Pushes -> PushStates] /\ push'[p] = w
      /\ \A q \in Pushes : q # p => push'[q] = push[q]
  BY DEF PushInv
<1>2. ForgetRetired(push', live')
  BY <1>1 DEF PushInv, ForgetRetired, MayForget
<1>3. \A q \in Pushes : q # p => (q \in Flying(push') <=> q \in Flying(push))
  BY <1>1 DEF Flying
<1>4. Flying(push') \subseteq Pushes /\ Flying(push) \subseteq Pushes
  BY DEF Flying
<1> QED BY <1>1, <1>2, <1>3, <1>4

\* The mutex after a step of one push.
LEMMA MutexMoves ==
  ASSUME PushInv, NEW p \in Pushes, NEW w \in PushStates, push' = [push EXCEPT ![p] = w],
         \/ w.step = "mint" /\ minting = NobodyMints /\ minting' = p
         \/ w.step # "mint" /\ push[p].step # "mint" /\ minting' = minting
         \/ w.step # "mint" /\ push[p].step = "mint" /\ minting' = NobodyMints
  PROVE  HeldBy(minting', push')
<1>1. /\ push'[p] = w
      /\ \A q \in Pushes : q # p => push'[q] = push[q]
  BY DEF PushInv
<1>2. /\ minting \in {NobodyMints} \cup Pushes
      /\ \A q \in Pushes : minting = q <=> push[q].step = "mint"
  BY DEF PushInv, HeldBy
<1>3. minting' \in {NobodyMints} \cup Pushes
  BY <1>2
<1>4. ASSUME NEW q \in Pushes PROVE minting' = q <=> push'[q].step = "mint"
  <2>1. NobodyMints \notin Pushes
    BY PushesFinite
  <2>2. CASE q = p
    BY <1>1, <1>2, <2>1, <2>2
  <2>3. CASE q # p
    <3>1. push'[q].step = "mint" <=> minting = q
      BY <1>1, <1>2, <2>3
    <3>2. minting' = q <=> minting = q
      BY <1>2, <2>1, <2>3
    <3> QED BY <3>1, <3>2
  <2> QED BY <2>2, <2>3
<1> QED BY <1>3, <1>4 DEF HeldBy

\* A push goes on.
LEMMA PushGoesOn ==
  ASSUME PushInv, NEW p \in Pushes, p \in Flying(push),
         NEW w \in Sending, push' = [push EXCEPT ![p] = w],
         HeldBy(minting', push'), live' \subseteq live, MayForget(w, live'),
         TokensTyped', slotsTaken' = slotsTaken
  PROVE  PushInv'
<1>1. w \in PushStates /\ w \notin {NotPushed, PushDone}
  BY PushStatesDiffer DEF PushStates
<1>2. push'[p] = w
  BY DEF PushInv
<1>3. p \in Flying(push')
  BY <1>1, <1>2 DEF Flying
<1>4. /\ push' \in [Pushes -> PushStates] /\ ForgetRetired(push', live')
      /\ Flying(push') = Flying(push) \cup {p}
  BY <1>1, <1>3, PushChanged
<1>5. Flying(push') = Flying(push)
  BY <1>4
<1> QED BY <1>4, <1>5 DEF PushInv

\* A push ends and gives its slot back.
LEMMA PushLeaves ==
  ASSUME PushInv, NEW p \in Pushes, p \in Flying(push), Ends(p),
         HeldBy(minting', push'), live' \subseteq live, TokensTyped'
  PROVE  PushInv'
<1>1. PushDone \in PushStates /\ MayForget(PushDone, live')
  BY PushStatesDiffer DEF PushStates, MayForget
<1>2. push' = [push EXCEPT ![p] = PushDone] /\ slotsTaken' = slotsTaken - 1
  BY DEF Ends
<1>3. push'[p] = PushDone
  BY <1>2 DEF PushInv
<1>4. p \notin Flying(push')
  BY <1>3 DEF Flying
<1>5. /\ push' \in [Pushes -> PushStates] /\ ForgetRetired(push', live')
      /\ Flying(push') = Flying(push) \ {p}
  BY <1>1, <1>2, <1>4, PushChanged
<1>6. /\ IsFiniteSet(Flying(push)) /\ Cardinality(Flying(push')) \in Nat
      /\ Cardinality(Flying(push)) \in Nat
  BY PushesFinite
<1>7. Cardinality(Flying(push')) = Cardinality(Flying(push)) - 1
  BY <1>5, <1>6, FS_RemoveElement
<1>8. slotsTaken' = Cardinality(Flying(push')) /\ slotsTaken' \in 0 .. PushSlots
  BY <1>2, <1>6, <1>7, PushAssumption DEF PushInv
<1> QED BY <1>5, <1>8 DEF PushInv

\* A push goes on to another device, or ends.
LEMMA NextDeviceKeeps ==
  ASSUME PushInv, NEW p \in Pushes, push[p].step \notin {"new", "done"},
         NEW todo \in SUBSET Devices, Ends(p) \/ NextDevice(p, todo),
         \/ push[p].step # "mint" /\ minting' = minting
         \/ push[p].step = "mint" /\ minting' = NobodyMints,
         live' \subseteq live, TokensTyped'
  PROVE  PushInv'
<1>1. p \in Flying(push)
  BY InFlightSends
<1>2. CASE Ends(p)
  <2>1. PushDone \in PushStates /\ PushDone.step # "mint"
    BY PushStatesDiffer DEF PushStates
  <2>2. push' = [push EXCEPT ![p] = PushDone]
    BY <1>2 DEF Ends
  <2>3. HeldBy(minting', push')
    BY <2>1, <2>2, MutexMoves
  <2> QED BY <1>1, <1>2, <2>3, PushLeaves
<1>3. CASE NextDevice(p, todo) /\ ~Ends(p)
  <2>1. PICK d \in todo : SendsTo(p, todo, d)
    BY <1>3 DEF NextDevice
  <2> DEFINE w == [step |-> "token", todo |-> todo \ {d}, device |-> d,
                   attempt |-> 0, token |-> 0]
  <2>2. push' = [push EXCEPT ![p] = w] /\ slotsTaken' = slotsTaken
    BY <2>1 DEF SendsTo
  <2>3. w \in Sending /\ w.step = "token"
    BY PushAssumption DEF Sending, SendSteps
  <2> HIDE DEF w
  <2>4. w \in PushStates /\ MayForget(w, live')
    BY <2>3 DEF PushStates, MayForget
  <2>5. HeldBy(minting', push')
    BY <2>2, <2>3, <2>4, MutexMoves
  <2> QED BY <1>1, <2>2, <2>3, <2>4, <2>5, PushGoesOn
<1> QED BY <1>2, <1>3

-----------------------------------------------------------------------------
\* At first nobody is told anything.
LEMMA PushStart == PushInit => PushInv
<1> SUFFICES ASSUME PushInit PROVE PushInv
  OBVIOUS
<1>1. TokensTyped /\ slotsTaken = 0 /\ minting = NobodyMints
  BY PushAssumption DEF PushInit, TokensTyped
<1>2. push = [p \in Pushes |-> NotPushed] /\ \A p \in Pushes : push[p] = NotPushed
  BY DEF PushInit
<1>3. push \in [Pushes -> PushStates]
  BY <1>2 DEF PushStates
<1>4. Flying(push) = {}
  BY <1>2 DEF Flying
<1>5. HeldBy(minting, push) /\ ForgetRetired(push, live)
  BY <1>1, <1>2, PushesFinite, PushStatesDiffer DEF HeldBy, ForgetRetired, MayForget
<1>6. slotsTaken \in 0 .. PushSlots /\ slotsTaken = Cardinality(Flying(push))
  BY <1>1, <1>4, FS_EmptySet, PushAssumption
<1> QED BY <1>1, <1>3, <1>5, <1>6 DEF PushInv

\* What devices and Google do.
LEMMA OutsidersKeep ==
  ASSUME PushInv,
         (\E d \in Devices : Registers(d) \/ SignsOut(d) \/ Retires(d)) \/ RevokesToken
  PROVE  PushInv'
<1>1. /\ live' \subseteq live
      /\ UNCHANGED <<minted, slotsTaken, minting, push>>
  BY DEF Registers, SignsOut, Retires, RevokesToken
<1>2. registered' \subseteq Devices
  BY DEF PushInv, TokensTyped, Registers, SignsOut, Retires, RevokesToken
<1>3. revoked' \in {revoked, minted}
  BY DEF Registers, SignsOut, Retires, RevokesToken
<1>4. minted \in Nat /\ revoked \in 0 .. minted /\ minted \in 0 .. minted
  BY PushAssumption DEF PushInv, TokensTyped
<1>5. TokensTyped'
  BY <1>1, <1>2, <1>3, <1>4 DEF PushInv, TokensTyped
<1>6. ForgetRetired(push, live')
  BY <1>1 DEF PushInv, ForgetRetired, MayForget
<1> QED BY <1>1, <1>5, <1>6 DEF PushInv

\* A push takes a free slot, or is dropped.
LEMMA DispatchesKeeps ==
  ASSUME PushInv, NEW p \in Pushes, Dispatches(p)
  PROVE  PushInv'
<1>1. push[p] = NotPushed /\ push[p].step = "new" /\ p \notin Flying(push)
  BY PushStatesDiffer DEF Dispatches, Flying
<1>2. UNCHANGED <<registered, live, minted, revoked, minting>> /\ TokensTyped'
  BY DEF Dispatches, PushInv, TokensTyped
<1>3. CASE slotsTaken < PushSlots
  <2>1. push' = [push EXCEPT ![p] = LookingUp] /\ slotsTaken' = slotsTaken + 1
    BY <1>3 DEF Dispatches, LookingUp
  <2>2. LookingUp \in PushStates /\ LookingUp.step = "lookup" /\ MayForget(LookingUp, live')
    BY PushStatesDiffer DEF PushStates, MayForget
  <2>3. HeldBy(minting', push')
    BY <1>1, <1>2, <2>1, <2>2, MutexMoves
  <2>4. push'[p] = LookingUp
    BY <2>1 DEF PushInv
  <2>5. p \in Flying(push')
    BY <2>4, PushStatesDiffer DEF Flying
  <2>6. /\ push' \in [Pushes -> PushStates] /\ ForgetRetired(push', live')
        /\ Flying(push') = Flying(push) \cup {p}
    BY <1>2, <2>1, <2>2, <2>3, <2>5, PushChanged
  <2>7. Cardinality(Flying(push')) = Cardinality(Flying(push)) + 1
    BY <1>1, <2>6, PushesFinite, FS_AddElement
  <2>8. slotsTaken' \in 0 .. PushSlots
    BY <1>3, <2>1, PushAssumption DEF PushInv
  <2> QED BY <1>2, <2>1, <2>3, <2>6, <2>7, <2>8 DEF PushInv
<1>4. CASE ~(slotsTaken < PushSlots)
  <2>1. push' = [push EXCEPT ![p] = PushDone] /\ slotsTaken' = slotsTaken
    BY <1>4 DEF Dispatches
  <2>2. PushDone \in PushStates /\ PushDone.step = "done" /\ MayForget(PushDone, live')
    BY PushStatesDiffer DEF PushStates, MayForget
  <2>3. HeldBy(minting', push')
    BY <1>1, <1>2, <2>1, <2>2, MutexMoves
  <2>4. push'[p] = PushDone
    BY <2>1 DEF PushInv
  <2>5. p \notin Flying(push')
    BY <2>4 DEF Flying
  <2>6. /\ push' \in [Pushes -> PushStates] /\ ForgetRetired(push', live')
        /\ Flying(push') = Flying(push) \ {p}
    BY <1>2, <2>1, <2>2, <2>3, <2>5, PushChanged
  <2>7. Flying(push') = Flying(push)
    BY <1>1, <2>6
  <2> QED BY <1>2, <2>1, <2>3, <2>6, <2>7 DEF PushInv
<1> QED BY <1>3, <1>4

\* The registered devices are sent to, one after the other.
LEMMA LooksUpTokensKeeps ==
  ASSUME PushInv, NEW p \in Pushes, LooksUpTokens(p)
  PROVE  PushInv'
<1>1. /\ push[p].step = "lookup" /\ (Ends(p) \/ NextDevice(p, registered))
      /\ UNCHANGED <<registered, live, minted, revoked, minting>>
  BY DEF LooksUpTokens
<1>2. TokensTyped' /\ registered \in SUBSET Devices
  BY <1>1 DEF PushInv, TokensTyped
<1> QED BY <1>1, <1>2, NextDeviceKeeps

\* A token is taken from the cache, or the mutex is.
LEMMA TakesTokenKeeps ==
  ASSUME PushInv, NEW p \in Pushes, TakesToken(p)
  PROVE  PushInv'
<1>1. /\ push[p].step = "token" /\ minting = NobodyMints
      /\ UNCHANGED <<registered, live, minted, revoked, slotsTaken>>
  BY DEF TakesToken
<1>2. push[p] \in Sending /\ p \in Flying(push)
  BY <1>1, InFlightSends
<1>3. TokensTyped' /\ minted \in 0 .. MaxMinted
  BY <1>1 DEF PushInv, TokensTyped
<1>4. \E w \in Sending : /\ push' = [push EXCEPT ![p] = w]
                         /\ \/ w.step = "mint" /\ minting' = p
                            \/ w.step = "post" /\ minting' = minting
  <2>1. CASE minted > 0 /\ push[p].attempt = 0
    <3> DEFINE w == [push[p] EXCEPT !.step = "post", !.token = minted]
    <3>1. w \in Sending /\ w.step = "post"
      BY <1>2, <1>3 DEF Sending, SendSteps
    <3>2. push' = [push EXCEPT ![p] = w] /\ minting' = minting
      BY <2>1 DEF TakesToken
    <3> HIDE DEF w
    <3> QED BY <3>1, <3>2
  <2>2. CASE ~(minted > 0 /\ push[p].attempt = 0)
    <3> DEFINE w == [push[p] EXCEPT !.step = "mint"]
    <3>1. w \in Sending /\ w.step = "mint"
      BY <1>2 DEF Sending, SendSteps
    <3>2. push' = [push EXCEPT ![p] = w] /\ minting' = p
      BY <2>2 DEF TakesToken
    <3> HIDE DEF w
    <3> QED BY <3>1, <3>2
  <2> QED BY <2>1, <2>2
<1>5. PICK w \in Sending : /\ push' = [push EXCEPT ![p] = w]
                           /\ \/ w.step = "mint" /\ minting' = p
                              \/ w.step = "post" /\ minting' = minting
  BY <1>4
<1>6. w \in PushStates /\ MayForget(w, live')
  BY <1>5 DEF PushStates, MayForget
<1>7. HeldBy(minting', push')
  BY <1>1, <1>5, <1>6, MutexMoves
<1> QED BY <1>1, <1>2, <1>3, <1>5, <1>6, <1>7, PushGoesOn

\* A new access token gives the mutex back.
LEMMA MintSucceedsKeeps ==
  ASSUME PushInv, NEW p \in Pushes, MintSucceeds(p)
  PROVE  PushInv'
<1> DEFINE w == [push[p] EXCEPT !.step = "post", !.token = minted + 1]
<1>1. /\ push[p].step = "mint" /\ minted < MaxMinted /\ minted' = minted + 1
      /\ push' = [push EXCEPT ![p] = w] /\ minting' = NobodyMints
      /\ UNCHANGED <<registered, live, revoked, slotsTaken>>
  BY DEF MintSucceeds
<1>2. push[p] \in Sending /\ p \in Flying(push)
  BY <1>1, InFlightSends
<1>3. /\ minted \in 0 .. MaxMinted /\ revoked \in 0 .. minted
      /\ minted + 1 \in 0 .. MaxMinted /\ revoked \in 0 .. minted + 1
  BY <1>1, PushAssumption DEF PushInv, TokensTyped
<1>4. TokensTyped'
  BY <1>1, <1>3 DEF PushInv, TokensTyped
<1>5. w \in Sending /\ w.step = "post"
  BY <1>2, <1>3 DEF Sending, SendSteps
<1> HIDE DEF w
<1>6. w \in PushStates /\ MayForget(w, live')
  BY <1>5 DEF PushStates, MayForget
<1>7. HeldBy(minting', push')
  BY <1>1, <1>5, <1>6, MutexMoves
<1> QED BY <1>1, <1>2, <1>4, <1>5, <1>6, <1>7, PushGoesOn

\* So does one that could not be had.
LEMMA MintFailsKeeps ==
  ASSUME PushInv, NEW p \in Pushes, MintFails(p)
  PROVE  PushInv'
<1>1. /\ push[p].step = "mint" /\ minting' = NobodyMints /\ NextDevice(p, push[p].todo)
      /\ UNCHANGED <<registered, live, minted, revoked>>
  BY DEF MintFails
<1>2. push[p].todo \in SUBSET Devices
  BY <1>1, InFlightSends DEF Sending
<1>3. TokensTyped'
  BY <1>1 DEF PushInv, TokensTyped
<1> QED BY <1>1, <1>2, <1>3, NextDeviceKeeps

\* A device is put up for removal only when FCM says it is retired.
LEMMA PostsKeeps ==
  ASSUME PushInv, NEW p \in Pushes, Posts(p)
  PROVE  PushInv'
<1>1. PICK answer \in Answers(push[p]) : PostGives(p, answer)
  BY DEF Posts
<1>2. /\ push[p].step = "post"
      /\ UNCHANGED <<registered, live, minted, revoked, minting>>
  BY <1>1 DEF Posts, PostGives
<1>3. push[p] \in Sending /\ p \in Flying(push)
  BY <1>2, InFlightSends
<1>4. TokensTyped' /\ push[p].todo \in SUBSET Devices
  BY <1>2, <1>3 DEF PushInv, TokensTyped, Sending
<1>5. CASE answer = "retired"
  <2> DEFINE w == [push[p] EXCEPT !.step = "remove"]
  <2>1. push' = [push EXCEPT ![p] = w] /\ slotsTaken' = slotsTaken
    BY <1>1, <1>5 DEF PostGives
  <2>2. w \in Sending /\ w.step = "remove" /\ w.device = push[p].device
    BY <1>3 DEF Sending, SendSteps
  <2>3. push[p].device \notin live
    BY <1>1, <1>5 DEF Answers
  <2> HIDE DEF w
  <2>4. w \in PushStates /\ MayForget(w, live')
    BY <1>2, <2>2, <2>3 DEF PushStates, MayForget
  <2>5. HeldBy(minting', push')
    BY <1>2, <2>1, <2>2, <2>4, MutexMoves
  <2> QED BY <1>2, <1>3, <1>4, <2>1, <2>2, <2>4, <2>5, PushGoesOn
<1>6. CASE answer = "again" /\ push[p].attempt = 0
  <2> DEFINE w == [push[p] EXCEPT !.step = "token", !.attempt = 1]
  <2>1. push' = [push EXCEPT ![p] = w] /\ slotsTaken' = slotsTaken
    BY <1>1, <1>6 DEF PostGives
  <2>2. w \in Sending /\ w.step = "token"
    <3>1. PICK step \in SendSteps, n \in 0 .. 1 : step = "token" /\ n = 1
      BY DEF SendSteps
    <3>2. w = [push[p] EXCEPT !.step = step, !.attempt = n]
      BY <3>1
    <3> HIDE DEF w
    <3>3. w \in Sending /\ w.step = step
      BY <1>3, <3>1, <3>2 DEF Sending
    <3> QED BY <3>1, <3>3
  <2> HIDE DEF w
  <2>4. w \in PushStates /\ MayForget(w, live')
    BY <2>2 DEF PushStates, MayForget
  <2>5. HeldBy(minting', push')
    BY <1>2, <2>1, <2>2, <2>4, MutexMoves
  <2> QED BY <1>2, <1>3, <1>4, <2>1, <2>2, <2>4, <2>5, PushGoesOn
<1>7. CASE answer # "retired" /\ ~(answer = "again" /\ push[p].attempt = 0)
  <2>1. NextDevice(p, push[p].todo)
    BY <1>1, <1>7 DEF PostGives
  <2> QED BY <1>2, <1>4, <2>1, NextDeviceKeeps
<1> QED BY <1>5, <1>6, <1>7

\* The device is forgotten, or stays.
LEMMA RemovesDeviceKeeps ==
  ASSUME PushInv, NEW p \in Pushes, RemovesDevice(p)
  PROVE  PushInv'
<1>1. /\ push[p].step = "remove" /\ NextDevice(p, push[p].todo)
      /\ registered' \in {registered, registered \ {push[p].device}}
      /\ UNCHANGED <<live, minted, revoked, minting>>
  BY DEF RemovesDevice
<1>2. push[p].todo \in SUBSET Devices
  BY <1>1, InFlightSends DEF Sending
<1>3. TokensTyped'
  BY <1>1 DEF PushInv, TokensTyped
<1> QED BY <1>1, <1>2, <1>3, NextDeviceKeeps

\* A panic gives the slot back; the mutex is never held then.
LEMMA PanicsKeeps ==
  ASSUME PushInv, NEW p \in Pushes, PanicsAndEnds(p)
  PROVE  PushInv'
<1>1. /\ push[p].step \in {"lookup", "post", "remove"} /\ Ends(p)
      /\ UNCHANGED <<registered, live, minted, revoked, minting>>
  BY DEF PanicsAndEnds
<1>2. TokensTyped' /\ {} \in SUBSET Devices
  BY <1>1 DEF PushInv, TokensTyped
<1> QED BY <1>1, <1>2, NextDeviceKeeps

\* Every step keeps the invariant.
LEMMA PushKept == PushInv /\ [PushNext]_pushVars => PushInv'
<1> SUFFICES ASSUME PushInv, [PushNext]_pushVars PROVE PushInv'
  OBVIOUS
<1>1. CASE UNCHANGED pushVars
  BY <1>1 DEF pushVars, PushInv, TokensTyped
<1>2. CASE (\E d \in Devices : Registers(d) \/ SignsOut(d) \/ Retires(d)) \/ RevokesToken
  BY <1>2, OutsidersKeep
<1>3. ASSUME NEW p \in Pushes, Dispatches(p) PROVE PushInv'
  BY <1>3, DispatchesKeeps
<1>4. ASSUME NEW p \in Pushes, PushProceeds(p) PROVE PushInv'
  BY <1>4, LooksUpTokensKeeps, TakesTokenKeeps, MintSucceedsKeeps, MintFailsKeeps,
     PostsKeeps, RemovesDeviceKeeps DEF PushProceeds
<1>5. ASSUME NEW p \in Pushes, PanicsAndEnds(p) PROVE PushInv'
  BY <1>5, PanicsKeeps
<1> QED BY <1>1, <1>2, <1>3, <1>4, <1>5 DEF PushNext

\* The invariant of the pushes.
LEMMA PushesHold == PushSpec => []PushInv
BY PushStart, PushKept, PTL DEF PushSpec

\* The slots taken are those of the pushes under way, panics and failures
\* included, and the mutex of the access token is held by the push that mints and
\* by nobody when none does.
THEOREM PushTyping == PushSpec => []PushTypeOK
BY PushesHold, PushInTypes, PTL

\* Whatever FCM answers and whoever registers, signs out or is retired meanwhile,
\* a push forgets a device only when FCM has retired it.
THEOREM OnlyRetiredGo == PushSpec => []OnlyRetiredForgotten
BY PushesHold, PushInTypes, PTL
=============================================================================
