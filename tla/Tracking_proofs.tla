--------------------------- MODULE Tracking_proofs ---------------------------
(***************************************************************************)
(* Theorems about where things are.  Tracking: for any riders, orders,     *)
(* uploads and requests, whose fix is told to whom, and on which path.     *)
(* NearbySearch: for any riders and list size, a search leaves out a rider *)
(* it may choose only when its list is full.  Polyline: for routes of any  *)
(* length through any points, the codec gives the route back.              *)
(***************************************************************************)
EXTENDS Tracking, NearbySearch, Polyline, FiniteSetTheorems, WellFoundedInduction, TLAPS

Uploaded == [step : UploadSteps, rider : TrackedRiders,
             orders : SUBSET TrackedOrders, held : SUBSET TrackedOrders]
Glimpsed == [step : {"row", "location", "done"}, path : Paths, order : TrackedOrders,
             rider : TrackedRiders \cup {NoRider}, shown : Fixes \cup {NoFix},
             held : SUBSET TrackedRiders]
DeliveryRows == [status : Statuses, rider : TrackedRiders \cup {NoRider}, since : 0..MaxAssignments]

\* A row that says that the rider carries the order, and one that a request on
\* a path shows the rider of.
RowNames(row, r) == row.rider = r /\ row.status \in PreciseLocation
RowShows(path, row, r) == row.rider = r /\ row.status \in Shows(path)

\* An upload under way has seen all its rider carries, and is only about to
\* tell orders it has seen him carry.
UploadHonest(w, d) ==
  /\ w.step \notin {"idle", "done"} =>
       \A o \in TrackedOrders : RowNames(d[o], w.rider) => o \in w.held
  /\ w.step = "send" => w.orders \subseteq w.held

\* A request under way has seen everybody its path shows for the order.
GlanceHonest(h, d) ==
  /\ h.step \in {"row", "location"} =>
       \A r \in TrackedRiders : RowShows(h.path, d[h.order], r) => r \in h.held
  /\ h.step = "location" => h.rider \in TrackedRiders /\ h.rider \in h.held
  /\ h.step = "row" => h.rider = NoRider

\* A fix that is stored was uploaded, by the rider it is stored for.
FixOf(x, r, w) == x # NoFix => w.step # "idle" /\ w.rider = r

\* What a request that is over has shown.
ShownOf(h, up) ==
  h.step = "done" /\ h.rider # NoRider =>
    /\ h.rider \in h.held
    /\ h.shown # NoFix => up[h.shown].step # "idle" /\ up[h.shown].rider = h.rider

SentOf(m, w) == w.step = "done" /\ m.order \in w.held

TrackingInv ==
  /\ TrackingTypeOK
  /\ \A u \in Fixes : UploadHonest(upload[u], delivering)
  /\ \A g \in Glances : GlanceHonest(glance[g], delivering) /\ ShownOf(glance[g], upload)
  /\ \A r \in TrackedRiders : FixOf(fix[r], r, upload[fix[r]])
  /\ \A m \in sent : SentOf(m, upload[m.fix])

-----------------------------------------------------------------------------
\* What the type invariant says, variable by variable.
LEMMA RowsTyped ==
  ASSUME TrackingTypeOK
  PROVE  /\ delivering \in [TrackedOrders -> DeliveryRows]
         /\ assignments \in 0..MaxAssignments
         /\ profileFix \in [TrackedRiders -> Fixes \cup {NoFix}]
         /\ fix \in [TrackedRiders -> Fixes \cup {NoFix}]
         /\ upload \in [Fixes -> {NoUpload} \cup Uploaded]
         /\ sent \subseteq [order : TrackedOrders, fix : Fixes]
         /\ callbacks \subseteq sent
         /\ glance \in [Glances -> {NoGlance} \cup Glimpsed]
BY DEF TrackingTypeOK, DeliveryRows, Uploaded, Glimpsed

\* The types of the variables give the type invariant back.
LEMMA TypedBack ==
  ASSUME delivering \in [TrackedOrders -> DeliveryRows], assignments \in 0..MaxAssignments,
         profileFix \in [TrackedRiders -> Fixes \cup {NoFix}],
         fix \in [TrackedRiders -> Fixes \cup {NoFix}],
         upload \in [Fixes -> {NoUpload} \cup Uploaded],
         sent \subseteq [order : TrackedOrders, fix : Fixes], callbacks \subseteq sent,
         glance \in [Glances -> {NoGlance} \cup Glimpsed]
  PROVE  TrackingTypeOK
BY DEF TrackingTypeOK, DeliveryRows, Uploaded, Glimpsed

-----------------------------------------------------------------------------
\* Nothing is assigned, uploaded or asked.
LEMMA TrackingInvInit == TrackingInit => TrackingInv
<1> SUFFICES ASSUME TrackingInit PROVE TrackingInv
  OBVIOUS
<1>1. \A o \in TrackedOrders : delivering[o] \in DeliveryRows
  BY TrackingAssumption DEF TrackingInit, DeliveryRows, Statuses
<1>2. TrackingTypeOK
  <2>1. delivering \in [TrackedOrders -> DeliveryRows]
    BY <1>1 DEF TrackingInit
  <2>2. assignments \in 0..MaxAssignments
    BY TrackingAssumption DEF TrackingInit
  <2>3. /\ profileFix \in [TrackedRiders -> Fixes \cup {NoFix}]
        /\ fix \in [TrackedRiders -> Fixes \cup {NoFix}]
        /\ upload \in [Fixes -> {NoUpload} \cup Uploaded]
        /\ sent = {} /\ callbacks = {}
        /\ glance \in [Glances -> {NoGlance} \cup Glimpsed]
    BY DEF TrackingInit
  <2> QED
    BY <2>1, <2>2, <2>3, TypedBack
<1>3. \A u \in Fixes : UploadHonest(upload[u], delivering)
  BY DEF TrackingInit, NoUpload, UploadHonest
<1>4. \A g \in Glances : GlanceHonest(glance[g], delivering) /\ ShownOf(glance[g], upload)
  BY DEF TrackingInit, NoGlance, GlanceHonest, ShownOf
<1>5. \A r \in TrackedRiders : FixOf(fix[r], r, upload[fix[r]])
  BY DEF TrackingInit, FixOf
<1>6. sent = {}
  BY DEF TrackingInit
<1> QED
  BY <1>2, <1>3, <1>4, <1>5, <1>6 DEF TrackingInv

-----------------------------------------------------------------------------
(* Deliveries.                                                             *)

\* A step after which no row shows more than before disturbs nothing.
LEMMA LessCarried ==
  ASSUME TrackingInv, delivering' \in [TrackedOrders -> DeliveryRows],
         \A o \in TrackedOrders, r \in TrackedRiders :
           RowNames(delivering'[o], r) => RowNames(delivering[o], r),
         \A o \in TrackedOrders, r \in TrackedRiders, path \in Paths :
           RowShows(path, delivering'[o], r) => RowShows(path, delivering[o], r),
         UNCHANGED <<assignments, profileFix, fix, upload, sent, callbacks, glance>>
  PROVE  TrackingInv'
<1>1. TrackingTypeOK'
  <2>1. /\ assignments' \in 0..MaxAssignments
        /\ profileFix' \in [TrackedRiders -> Fixes \cup {NoFix}]
        /\ fix' \in [TrackedRiders -> Fixes \cup {NoFix}]
        /\ upload' \in [Fixes -> {NoUpload} \cup Uploaded]
        /\ sent' \subseteq [order : TrackedOrders, fix : Fixes]
        /\ callbacks' \subseteq sent'
        /\ glance' \in [Glances -> {NoGlance} \cup Glimpsed]
    BY RowsTyped DEF TrackingInv
  <2> QED
    BY <2>1 DEF TrackingTypeOK, DeliveryRows, Uploaded, Glimpsed
<1>2. ASSUME NEW u \in Fixes PROVE UploadHonest(upload[u], delivering')
  <2>1. UploadHonest(upload[u], delivering)
    BY DEF TrackingInv
  <2>2. upload[u].step \notin {"idle", "done"} => upload[u].rider \in TrackedRiders
    BY RowsTyped DEF TrackingInv, NoUpload, Uploaded
  <2> QED
    BY <2>1, <2>2 DEF UploadHonest
<1>3. ASSUME NEW g \in Glances PROVE GlanceHonest(glance[g], delivering')
  <2>1. GlanceHonest(glance[g], delivering)
    BY DEF TrackingInv
  <2>2. glance[g].step \in {"row", "location"} =>
          glance[g].order \in TrackedOrders /\ glance[g].path \in Paths
    BY RowsTyped DEF TrackingInv, NoGlance, Glimpsed
  <2> QED
    BY <2>1, <2>2 DEF GlanceHonest
<1> QED
  BY <1>1, <1>2, <1>3 DEF TrackingInv

\* An order handed back is carried by nobody.
LEMMA HandsBackKeeps ==
  ASSUME TrackingInv, NEW o \in TrackedOrders, HandsBack(o)
  PROVE  TrackingInv'
<1>1. delivering \in [TrackedOrders -> DeliveryRows]
  BY RowsTyped DEF TrackingInv
<1> DEFINE row == [delivering[o] EXCEPT !.status = "rider_searching", !.rider = NoRider]
<1>2. row \in DeliveryRows /\ row.status = "rider_searching"
  BY <1>1 DEF DeliveryRows, Statuses
<1>3. delivering' = [delivering EXCEPT ![o] = row]
  BY <1>1 DEF HandsBack, DeliveryRows
<1> HIDE DEF row
<1>4. delivering' \in [TrackedOrders -> DeliveryRows]
  BY <1>1, <1>2, <1>3
<1>5. \A p \in TrackedOrders, r \in TrackedRiders :
        RowNames(delivering'[p], r) => RowNames(delivering[p], r)
  BY <1>1, <1>2, <1>3 DEF RowNames, PreciseLocation
<1>6. row.rider = NoRider
  BY <1>1 DEF DeliveryRows, row
<1>7. \A p \in TrackedOrders, r \in TrackedRiders, path \in Paths :
        RowShows(path, delivering'[p], r) => RowShows(path, delivering[p], r)
  BY <1>1, <1>3, <1>6, TrackingAssumption DEF RowShows
<1> QED
  BY <1>4, <1>5, <1>7, LessCarried DEF HandsBack

\* Progress leaves the order with its rider, or ends it.
LEMMA ProgressesKeeps ==
  ASSUME TrackingInv, NEW o \in TrackedOrders, Progresses(o)
  PROVE  TrackingInv'
<1>1. delivering \in [TrackedOrders -> DeliveryRows]
  BY RowsTyped DEF TrackingInv
<1> DEFINE next == IF delivering[o].status = "rider_assigned" THEN "picked_up" ELSE "delivered"
           row == [delivering[o] EXCEPT !.status = next]
<1>2. next \in Statuses
  BY DEF Statuses
<1>3. delivering' = [delivering EXCEPT ![o] = row]
  BY <1>1 DEF Progresses
<1> HIDE DEF next
<1>4. row \in DeliveryRows /\ row.rider = delivering[o].rider
  BY <1>1, <1>2 DEF DeliveryRows
<1> HIDE DEF row
<1>5. delivering' \in [TrackedOrders -> DeliveryRows]
  BY <1>1, <1>3, <1>4
<1>6. \A p \in TrackedOrders, r \in TrackedRiders :
        RowNames(delivering'[p], r) => RowNames(delivering[p], r)
  BY <1>1, <1>3, <1>4 DEF RowNames, Progresses
<1>7. delivering[o].status \in PreciseLocation /\ delivering[o].status \in Statuses
  BY <1>1 DEF Progresses, DeliveryRows
<1>8. \A p \in TrackedOrders, r \in TrackedRiders, path \in Paths :
        RowShows(path, delivering'[p], r) => RowShows(path, delivering[p], r)
  BY <1>1, <1>3, <1>4, <1>7 DEF RowShows, Shows
<1> QED
  BY <1>5, <1>6, <1>8, LessCarried DEF Progresses

\* Whoever is watching the rider, or the order, has now seen him carry it.
LEMMA AssignsKeeps ==
  ASSUME TrackingInv, NEW o \in TrackedOrders, NEW r \in TrackedRiders, Assigns(o, r)
  PROVE  TrackingInv'
<1>1. /\ delivering \in [TrackedOrders -> DeliveryRows]
      /\ assignments \in 0..MaxAssignments
      /\ profileFix \in [TrackedRiders -> Fixes \cup {NoFix}]
      /\ fix \in [TrackedRiders -> Fixes \cup {NoFix}]
      /\ upload \in [Fixes -> {NoUpload} \cup Uploaded]
      /\ sent \subseteq [order : TrackedOrders, fix : Fixes]
      /\ callbacks \subseteq sent
      /\ glance \in [Glances -> {NoGlance} \cup Glimpsed]
  BY RowsTyped DEF TrackingInv
<1> DEFINE row == [status |-> "rider_assigned", rider |-> r, since |-> assignments + 1]
<1>2. assignments + 1 \in 0..MaxAssignments
  BY <1>1, TrackingAssumption DEF Assigns
<1>3. row \in DeliveryRows /\ row.rider = r
  BY <1>2 DEF DeliveryRows, Statuses
<1>4. /\ delivering' = [delivering EXCEPT ![o] = row]
      /\ assignments' = assignments + 1
      /\ UNCHANGED <<profileFix, fix, sent, callbacks>>
  BY DEF Assigns
<1> HIDE DEF row
<1>5. delivering' \in [TrackedOrders -> DeliveryRows]
  BY <1>1, <1>3, <1>4
<1>6. ASSUME NEW u \in Fixes
      PROVE  /\ upload'[u] \in {NoUpload} \cup Uploaded
             /\ upload'[u].step = upload[u].step
             /\ upload[u] # NoUpload =>
                  /\ upload'[u].rider = upload[u].rider
                  /\ upload'[u].orders = upload[u].orders
                  /\ upload[u].held \subseteq upload'[u].held
             /\ (upload[u].step \notin {"idle", "done"} /\ upload[u].rider = r) =>
                  o \in upload'[u].held
  <2>1. CASE upload[u].step \notin {"idle", "done"} /\ upload[u].rider = r
    <3>1. upload[u] \in Uploaded
      BY <1>1, <2>1 DEF NoUpload
    <3>2. upload'[u] = [upload[u] EXCEPT !.held = upload[u].held \cup {o}]
      BY <2>1 DEF Assigns
    <3> QED
      BY <3>1, <3>2 DEF Uploaded
  <2>2. CASE ~(upload[u].step \notin {"idle", "done"} /\ upload[u].rider = r)
    <3>1. upload'[u] = upload[u]
      BY <2>2 DEF Assigns
    <3> QED
      BY <1>1, <2>2, <3>1
  <2> QED
    BY <2>1, <2>2
<1>7. ASSUME NEW g \in Glances
      PROVE  /\ glance'[g] \in {NoGlance} \cup Glimpsed
             /\ glance'[g].step = glance[g].step
             /\ glance[g] # NoGlance =>
                  /\ glance'[g].order = glance[g].order
                  /\ glance'[g].path = glance[g].path
                  /\ glance'[g].rider = glance[g].rider
                  /\ glance'[g].shown = glance[g].shown
                  /\ glance[g].held \subseteq glance'[g].held
             /\ (glance[g].step \in {"row", "location"} /\ glance[g].order = o) =>
                  r \in glance'[g].held
  <2>1. CASE glance[g].step \in {"row", "location"} /\ glance[g].order = o
    <3>1. glance[g] \in Glimpsed
      BY <1>1, <2>1 DEF NoGlance
    <3>2. glance'[g] = [glance[g] EXCEPT !.held = glance[g].held \cup {r}]
      BY <2>1 DEF Assigns
    <3> QED
      BY <3>1, <3>2 DEF Glimpsed
  <2>2. CASE ~(glance[g].step \in {"row", "location"} /\ glance[g].order = o)
    <3>1. glance'[g] = glance[g]
      BY <2>2 DEF Assigns
    <3> QED
      BY <1>1, <2>2, <3>1
  <2> QED
    BY <2>1, <2>2
<1>8. upload' \in [Fixes -> {NoUpload} \cup Uploaded]
  <2>1. upload' = [u \in Fixes |-> upload'[u]]
    BY DEF Assigns
  <2> QED
    BY <1>6, <2>1
<1>9. glance' \in [Glances -> {NoGlance} \cup Glimpsed]
  <2>1. glance' = [g \in Glances |-> glance'[g]]
    BY DEF Assigns
  <2> QED
    BY <1>7, <2>1
<1>10. TrackingTypeOK'
  BY <1>1, <1>2, <1>4, <1>5, <1>8, <1>9 DEF TrackingTypeOK, DeliveryRows, Uploaded, Glimpsed
<1>11. ASSUME NEW u \in Fixes PROVE UploadHonest(upload'[u], delivering')
  <2>1. UploadHonest(upload[u], delivering)
    BY DEF TrackingInv
  <2>2. CASE upload[u] = NoUpload
    BY <1>6, <2>2 DEF UploadHonest, NoUpload
  <2>3. CASE upload[u] # NoUpload
    <3>1. ASSUME upload[u].step \notin {"idle", "done"}, NEW p \in TrackedOrders,
                 RowNames(delivering'[p], upload[u].rider)
          PROVE  p \in upload'[u].held
      <4>1. CASE p = o
        <5>1. upload[u].rider = r
          BY <1>1, <1>3, <1>4, <3>1, <4>1 DEF RowNames
        <5> QED
          BY <1>6, <3>1, <4>1, <5>1
      <4>2. CASE p # o
        <5>1. RowNames(delivering[p], upload[u].rider)
          BY <1>1, <1>4, <3>1, <4>2
        <5> QED
          BY <1>6, <2>1, <2>3, <3>1, <5>1 DEF UploadHonest
      <4> QED
        BY <4>1, <4>2
    <3> QED
      BY <1>6, <2>1, <2>3, <3>1 DEF UploadHonest
  <2> QED
    BY <2>2, <2>3
<1>12. ASSUME NEW g \in Glances
       PROVE  GlanceHonest(glance'[g], delivering') /\ ShownOf(glance'[g], upload')
  <2>1. GlanceHonest(glance[g], delivering) /\ ShownOf(glance[g], upload)
    BY DEF TrackingInv
  <2>2. CASE glance[g] = NoGlance
    BY <1>7, <2>2 DEF GlanceHonest, ShownOf, NoGlance
  <2>3. CASE glance[g] # NoGlance
    <3>1. ASSUME glance[g].step \in {"row", "location"}, NEW q \in TrackedRiders,
                 RowShows(glance[g].path, delivering'[glance[g].order], q)
          PROVE  q \in glance'[g].held
      <4>1. CASE glance[g].order = o
        <5>1. q = r
          BY <1>1, <1>3, <1>4, <3>1, <4>1 DEF RowShows
        <5> QED
          BY <1>7, <3>1, <4>1, <5>1
      <4>2. CASE glance[g].order # o
        <5>1. RowShows(glance[g].path, delivering[glance[g].order], q)
          BY <1>1, <1>4, <3>1, <4>2
        <5> QED
          BY <1>7, <2>1, <2>3, <3>1, <5>1 DEF GlanceHonest
      <4> QED
        BY <4>1, <4>2
    <3>2. GlanceHonest(glance'[g], delivering')
      BY <1>7, <2>1, <2>3, <3>1 DEF GlanceHonest
    <3>3. ASSUME glance[g].step = "done", glance[g].rider # NoRider
          PROVE  /\ glance[g].rider \in glance'[g].held
                 /\ glance[g].shown # NoFix =>
                      /\ upload'[glance[g].shown].step # "idle"
                      /\ upload'[glance[g].shown].rider = glance[g].rider
      <4>1. glance[g].rider \in glance'[g].held
        BY <1>7, <2>1, <2>3, <3>3 DEF ShownOf
      <4>2. ASSUME glance[g].shown # NoFix
            PROVE  /\ upload'[glance[g].shown].step # "idle"
                   /\ upload'[glance[g].shown].rider = glance[g].rider
        <5> DEFINE u == glance[g].shown
        <5>1. u \in Fixes
          BY <1>1, <2>3, <4>2 DEF Glimpsed
        <5>2. upload[u].step # "idle" /\ upload[u].rider = glance[g].rider
          BY <2>1, <3>3, <4>2 DEF ShownOf
        <5>3. upload[u] # NoUpload
          BY <5>2 DEF NoUpload
        <5> QED
          BY <1>6, <5>1, <5>2, <5>3
      <4> QED
        BY <4>1, <4>2
    <3>4. ShownOf(glance'[g], upload')
      BY <1>7, <2>3, <3>3 DEF ShownOf
    <3> QED
      BY <3>2, <3>4
  <2> QED
    BY <2>2, <2>3
<1>13. ASSUME NEW q \in TrackedRiders PROVE FixOf(fix[q], q, upload'[fix[q]])
  <2>1. FixOf(fix[q], q, upload[fix[q]])
    BY DEF TrackingInv
  <2>2. CASE fix[q] # NoFix
    <3>1. fix[q] \in Fixes /\ upload[fix[q]] # NoUpload
      BY <1>1, <2>1, <2>2 DEF FixOf, NoUpload
    <3> QED
      BY <1>6, <2>1, <2>2, <3>1 DEF FixOf
  <2> QED
    BY <2>2 DEF FixOf
<1>14. ASSUME NEW m \in sent PROVE SentOf(m, upload'[m.fix])
  <2>1. SentOf(m, upload[m.fix]) /\ m.fix \in Fixes
    BY <1>1 DEF TrackingInv
  <2>2. upload[m.fix] # NoUpload
    BY <2>1 DEF SentOf, NoUpload
  <2> QED
    BY <1>6, <2>1, <2>2 DEF SentOf
<1> QED
  BY <1>4, <1>10, <1>11, <1>12, <1>13, <1>14 DEF TrackingInv

-----------------------------------------------------------------------------
(* Uploads.                                                                *)

\* A step of an upload that has not ended: it goes on for the same rider, is
\* the only fix anybody stores, and sends only to orders it has seen carried.
LEMMA UploadMoves ==
  ASSUME TrackingInv, NEW u \in Fixes, NEW w \in Uploaded,
         upload[u].step # "done",
         upload[u].step # "idle" => w.rider = upload[u].rider,
         UploadHonest(w, delivering),
         upload' = [upload EXCEPT ![u] = w],
         profileFix' \in [TrackedRiders -> Fixes \cup {NoFix}],
         fix' \in [TrackedRiders -> Fixes \cup {NoFix}],
         \A r \in TrackedRiders : fix'[r] # fix[r] => fix'[r] = u /\ r = w.rider,
         sent' \subseteq [order : TrackedOrders, fix : Fixes],
         \A m \in sent' : m \in sent \/ (m.fix = u /\ w.step = "done" /\ m.order \in w.held),
         callbacks' \subseteq sent',
         UNCHANGED <<delivering, assignments, glance>>
  PROVE  TrackingInv'
<1>1. /\ delivering \in [TrackedOrders -> DeliveryRows]
      /\ assignments \in 0..MaxAssignments
      /\ fix \in [TrackedRiders -> Fixes \cup {NoFix}]
      /\ upload \in [Fixes -> {NoUpload} \cup Uploaded]
      /\ sent \subseteq [order : TrackedOrders, fix : Fixes]
      /\ glance \in [Glances -> {NoGlance} \cup Glimpsed]
  BY RowsTyped DEF TrackingInv
<1>2. upload'[u] = w /\ \A v \in Fixes : v # u => upload'[v] = upload[v]
  BY <1>1
<1>3. w.step # "idle"
  BY DEF Uploaded, UploadSteps
<1>4. TrackingTypeOK'
  <2>1. upload' \in [Fixes -> {NoUpload} \cup Uploaded]
    BY <1>1
  <2> QED
    BY <1>1, <2>1 DEF TrackingTypeOK, DeliveryRows, Uploaded, Glimpsed
<1>5. ASSUME NEW v \in Fixes PROVE UploadHonest(upload'[v], delivering)
  BY <1>2 DEF TrackingInv
<1>6. ASSUME NEW g \in Glances
      PROVE  GlanceHonest(glance[g], delivering) /\ ShownOf(glance[g], upload')
  <2>1. GlanceHonest(glance[g], delivering) /\ ShownOf(glance[g], upload)
    BY DEF TrackingInv
  <2>2. ASSUME glance[g].step = "done", glance[g].rider # NoRider, glance[g].shown # NoFix
        PROVE  /\ upload'[glance[g].shown].step # "idle"
               /\ upload'[glance[g].shown].rider = glance[g].rider
    <3>1. glance[g].shown \in Fixes
      BY <1>1, <2>2 DEF Glimpsed, NoGlance
    <3>2. /\ upload[glance[g].shown].step # "idle"
          /\ upload[glance[g].shown].rider = glance[g].rider
      BY <2>1, <2>2 DEF ShownOf
    <3> QED
      BY <1>2, <1>3, <3>1, <3>2
  <2> QED
    BY <2>1, <2>2 DEF ShownOf
<1>7. ASSUME NEW r \in TrackedRiders PROVE FixOf(fix'[r], r, upload'[fix'[r]])
  <2>1. CASE fix'[r] # fix[r]
    BY <1>2, <1>3, <2>1 DEF FixOf
  <2>2. CASE fix'[r] = fix[r] /\ fix[r] # NoFix
    <3>1. fix[r] \in Fixes /\ upload[fix[r]].step # "idle" /\ upload[fix[r]].rider = r
      BY <1>1, <2>2 DEF TrackingInv, FixOf
    <3>2. upload'[fix[r]].step # "idle" /\ upload'[fix[r]].rider = r
      BY <1>2, <1>3, <3>1
    <3> QED
      BY <2>2, <3>2 DEF FixOf
  <2>3. CASE fix'[r] = fix[r] /\ fix[r] = NoFix
    BY <2>3 DEF FixOf
  <2> QED
    BY <2>1, <2>2, <2>3
<1>8. ASSUME NEW m \in sent' PROVE SentOf(m, upload'[m.fix])
  <2>1. CASE m \in sent
    <3>1. SentOf(m, upload[m.fix]) /\ m.fix \in Fixes
      BY <1>1, <2>1 DEF TrackingInv
    <3>2. m.fix # u
      BY <3>1 DEF SentOf
    <3> QED
      BY <1>2, <3>1, <3>2
  <2>2. CASE m.fix = u /\ w.step = "done" /\ m.order \in w.held
    BY <1>2, <2>2 DEF SentOf
  <2> QED
    BY <2>1, <2>2
<1> QED
  BY <1>4, <1>5, <1>6, <1>7, <1>8 DEF TrackingInv

\* An upload begins with what its rider carries.
LEMMA UploadsKeeps ==
  ASSUME TrackingInv, NEW u \in Fixes, NEW r \in TrackedRiders, Uploads(u, r)
  PROVE  TrackingInv'
<1> DEFINE w == [step |-> "profile", rider |-> r, orders |-> {},
                 held |-> {o \in TrackedOrders : Carries(r, o)}]
<1>1. w \in Uploaded
  BY DEF Uploaded, UploadSteps
<1>2. UploadHonest(w, delivering)
  BY DEF UploadHonest, RowNames, Carries
<1>3. upload[u].step = "idle" /\ upload' = [upload EXCEPT ![u] = w]
  BY DEF Uploads, NoUpload
<1>4. UNCHANGED <<delivering, assignments, profileFix, fix, sent, callbacks, glance>>
  BY DEF Uploads, deliveries
<1> HIDE DEF w
<1>5. /\ profileFix' \in [TrackedRiders -> Fixes \cup {NoFix}]
      /\ fix' \in [TrackedRiders -> Fixes \cup {NoFix}]
      /\ sent' \subseteq [order : TrackedOrders, fix : Fixes]
      /\ callbacks' \subseteq sent'
  BY <1>4, RowsTyped DEF TrackingInv
<1> QED
  BY <1>1, <1>2, <1>3, <1>4, <1>5, UploadMoves

\* An upload that has begun is a full record.
LEMMA Begun ==
  ASSUME TrackingInv, NEW u \in Fixes, upload[u].step # "idle"
  PROVE  /\ upload[u] \in Uploaded /\ upload[u].rider \in TrackedRiders
         /\ upload[u].orders \in SUBSET TrackedOrders
<1>1. upload[u] \in {NoUpload} \cup Uploaded
  BY RowsTyped DEF TrackingInv
<1>2. upload[u] \in Uploaded
  BY <1>1 DEF NoUpload
<1> QED
  BY <1>2 DEF Uploaded

\* The upload goes on, at another step, with what it held.
LEMMA Continued ==
  ASSUME TrackingInv, NEW u \in Fixes, upload[u].step \notin {"idle", "done"},
         NEW step \in UploadSteps, NEW orders \in SUBSET TrackedOrders,
         step = "send" => orders \subseteq upload[u].held
  PROVE  LET w == [upload[u] EXCEPT !.orders = orders, !.step = step] IN
         /\ w \in Uploaded /\ w.rider = upload[u].rider /\ w.held = upload[u].held
         /\ w.step = step /\ UploadHonest(w, delivering)
<1> DEFINE w == [upload[u] EXCEPT !.orders = orders, !.step = step]
<1>1. upload[u] \in Uploaded
  BY RowsTyped DEF TrackingInv, NoUpload
<1>2. /\ w \in Uploaded /\ w.rider = upload[u].rider /\ w.held = upload[u].held
      /\ w.step = step /\ w.orders = orders
  BY <1>1 DEF Uploaded
<1> HIDE DEF w
<1>3. UploadHonest(w, delivering)
  <2>1. UploadHonest(upload[u], delivering)
    BY DEF TrackingInv
  <2> QED
    BY <1>2, <2>1 DEF UploadHonest
<1> QED
  BY <1>2, <1>3 DEF w

\* The same of a step that keeps the orders and sends nothing.
LEMMA KeptOn ==
  ASSUME TrackingInv, NEW u \in Fixes, upload[u].step \notin {"idle", "done"},
         NEW step \in UploadSteps \ {"send"}, NEW w, w = [upload[u] EXCEPT !.step = step]
  PROVE  w \in Uploaded /\ w.rider = upload[u].rider /\ UploadHonest(w, delivering)
<1>1. upload[u] \in Uploaded
  BY Begun
<1>2. /\ w \in Uploaded /\ w.rider = upload[u].rider /\ w.held = upload[u].held
      /\ w.step = step /\ w.orders = upload[u].orders
  BY <1>1 DEF Uploaded
<1>3. UploadHonest(upload[u], delivering)
  BY DEF TrackingInv
<1> QED
  BY <1>2, <1>3 DEF UploadHonest

\* The profile is only typed.
LEMMA UpdatesProfileKeeps ==
  ASSUME TrackingInv, NEW u \in Fixes, UpdatesProfile(u)
  PROVE  TrackingInv'
<1> DEFINE w == [upload[u] EXCEPT !.step = "store"]
<1>1. upload[u].step = "profile" /\ "store" \in UploadSteps
  BY DEF UpdatesProfile, Uploading, UploadSteps
<1>2. /\ upload[u] \in Uploaded /\ upload[u].rider \in TrackedRiders
      /\ upload[u].orders \in SUBSET TrackedOrders
      /\ upload[u].step \notin {"idle", "done"}
  BY <1>1, Begun
<1>3. upload' = [upload EXCEPT ![u] = w]
  BY DEF UpdatesProfile, Continues
<1>4. w \in Uploaded /\ w.rider = upload[u].rider /\ UploadHonest(w, delivering)
  BY <1>1, <1>2, KeptOn
<1> HIDE DEF w
<1>5. /\ profileFix' = [profileFix EXCEPT ![upload[u].rider] = u]
      /\ UNCHANGED <<delivering, assignments, fix, sent, callbacks, glance>>
  BY DEF UpdatesProfile, deliveries
<1>6. /\ profileFix' \in [TrackedRiders -> Fixes \cup {NoFix}]
      /\ fix' \in [TrackedRiders -> Fixes \cup {NoFix}]
      /\ sent' \subseteq [order : TrackedOrders, fix : Fixes]
      /\ callbacks' \subseteq sent'
  BY <1>2, <1>5, RowsTyped DEF TrackingInv
<1> QED
  BY <1>1, <1>3, <1>4, <1>5, <1>6, UploadMoves

\* The fix stored is that of the rider who uploads.
LEMMA StoresFixKeeps ==
  ASSUME TrackingInv, NEW u \in Fixes, StoresFix(u)
  PROVE  TrackingInv'
<1> DEFINE w == [upload[u] EXCEPT !.step = "look up"]
<1>1. upload[u].step = "store" /\ "look up" \in UploadSteps
  BY DEF StoresFix, Uploading, UploadSteps
<1>2. /\ upload[u] \in Uploaded /\ upload[u].rider \in TrackedRiders
      /\ upload[u].orders \in SUBSET TrackedOrders
      /\ upload[u].step \notin {"idle", "done"}
  BY <1>1, Begun
<1>3. upload' = [upload EXCEPT ![u] = w]
  BY DEF StoresFix, Continues
<1>4. w \in Uploaded /\ w.rider = upload[u].rider /\ UploadHonest(w, delivering)
  BY <1>1, <1>2, KeptOn
<1> HIDE DEF w
<1>5. /\ fix' = [fix EXCEPT ![upload[u].rider] = u]
      /\ UNCHANGED <<delivering, assignments, profileFix, sent, callbacks, glance>>
  BY DEF StoresFix, deliveries
<1>6. /\ profileFix' \in [TrackedRiders -> Fixes \cup {NoFix}]
      /\ fix' \in [TrackedRiders -> Fixes \cup {NoFix}]
      /\ sent' \subseteq [order : TrackedOrders, fix : Fixes]
      /\ callbacks' \subseteq sent'
  BY <1>2, <1>5, RowsTyped DEF TrackingInv
<1>7. \A r \in TrackedRiders : fix'[r] # fix[r] => fix'[r] = u /\ r = w.rider
  BY <1>4, <1>5, RowsTyped DEF TrackingInv
<1> QED
  BY <1>1, <1>3, <1>4, <1>5, <1>6, <1>7, UploadMoves

\* The orders found are carried now, so the upload has seen them carried.
LEMMA LooksUpOrderKeeps ==
  ASSUME TrackingInv, NEW u \in Fixes, LooksUpOrder(u)
  PROVE  TrackingInv'
<1> DEFINE found == ActiveOrders(upload[u].rider)
           step == IF found = {} THEN "done" ELSE "send"
           w == [upload[u] EXCEPT !.orders = found, !.step = step]
<1>1. upload[u].step = "look up" /\ step \in UploadSteps
  BY DEF LooksUpOrder, Uploading, UploadSteps
<1>2. /\ upload' = [upload EXCEPT ![u] = w]
      /\ UNCHANGED <<delivering, assignments, profileFix, fix, sent, callbacks, glance>>
  BY DEF LooksUpOrder, deliveries
<1>3. found \in SUBSET TrackedOrders /\ \A o \in found : Carries(upload[u].rider, o)
  BY DEF ActiveOrders, Newest
<1>4. found \subseteq upload[u].held
  <2>1. UploadHonest(upload[u], delivering)
    BY DEF TrackingInv
  <2> QED
    BY <1>1, <1>3, <2>1 DEF UploadHonest, RowNames, Carries
<1> HIDE DEF found, step
<1>5. w \in Uploaded /\ w.rider = upload[u].rider /\ UploadHonest(w, delivering)
  BY <1>1, <1>3, <1>4, Continued
<1> HIDE DEF w
<1>6. /\ profileFix' \in [TrackedRiders -> Fixes \cup {NoFix}]
      /\ fix' \in [TrackedRiders -> Fixes \cup {NoFix}]
      /\ sent' \subseteq [order : TrackedOrders, fix : Fixes]
      /\ callbacks' \subseteq sent'
  BY <1>2, RowsTyped DEF TrackingInv
<1> QED
  BY <1>1, <1>2, <1>5, <1>6, UploadMoves

\* What is sent was found carried.
LEMMA TellsCustomerKeeps ==
  ASSUME TrackingInv, NEW u \in Fixes, TellsCustomer(u)
  PROVE  TrackingInv'
<1> DEFINE w == [upload[u] EXCEPT !.orders = upload[u].orders, !.step = "done"]
           news == {[order |-> o, fix |-> u] : o \in upload[u].orders}
<1>1. /\ upload[u].step = "send" /\ upload[u].step \notin {"idle", "done"}
      /\ "done" \in UploadSteps \ {"send"}
  BY DEF TellsCustomer, Uploading, UploadSteps
<1>2. /\ upload[u] \in Uploaded /\ upload[u].rider \in TrackedRiders
      /\ upload[u].orders \in SUBSET TrackedOrders
      /\ upload[u].step \notin {"idle", "done"}
  BY <1>1, Begun
<1>3. w = [upload[u] EXCEPT !.step = "done"]
  BY <1>2 DEF Uploaded
<1>4. upload[u].orders \subseteq upload[u].held
  BY <1>1 DEF TrackingInv, UploadHonest
<1>5. /\ upload' = [upload EXCEPT ![u] = w]
      /\ sent' = sent \cup news
      /\ callbacks' = callbacks \cup news \/ callbacks' = callbacks
      /\ UNCHANGED <<delivering, assignments, profileFix, fix, glance>>
  BY <1>3 DEF TellsCustomer, Continues, deliveries
<1>6. /\ w \in Uploaded /\ w.rider = upload[u].rider /\ UploadHonest(w, delivering)
      /\ w.step = "done" /\ w.held = upload[u].held
  <2>1. w.step = "done" /\ w.held = upload[u].held
    BY <1>2 DEF Uploaded
  <2>2. w \in Uploaded /\ w.rider = upload[u].rider /\ UploadHonest(w, delivering)
    <3> HIDE DEF w
    <3> QED
      BY <1>1, <1>3, KeptOn
  <2> QED
    BY <2>1, <2>2
<1> HIDE DEF w
<1>7. /\ news \subseteq [order : TrackedOrders, fix : Fixes]
      /\ \A m \in news : m.fix = u /\ m.order \in w.held
  BY <1>2, <1>4, <1>6
<1> HIDE DEF news
<1>8. /\ profileFix' \in [TrackedRiders -> Fixes \cup {NoFix}]
      /\ fix' \in [TrackedRiders -> Fixes \cup {NoFix}]
      /\ sent' \subseteq [order : TrackedOrders, fix : Fixes]
      /\ callbacks' \subseteq sent'
  BY <1>5, <1>7, RowsTyped DEF TrackingInv
<1>9. \A m \in sent' : m \in sent \/ (m.fix = u /\ w.step = "done" /\ m.order \in w.held)
  BY <1>5, <1>6, <1>7
<1> QED
  BY <1>1, <1>5, <1>6, <1>8, <1>9, UploadMoves

\* A failed upload sends nothing.
LEMMA UploadFailsKeeps ==
  ASSUME TrackingInv, NEW u \in Fixes, UploadFails(u)
  PROVE  TrackingInv'
<1> DEFINE w == [upload[u] EXCEPT !.step = "done"]
<1>1. upload[u].step \in {"profile", "store", "look up"} /\ "done" \in UploadSteps
  BY DEF UploadFails, UploadSteps
<1>2. /\ upload[u] \in Uploaded /\ upload[u].rider \in TrackedRiders
      /\ upload[u].orders \in SUBSET TrackedOrders
      /\ upload[u].step \notin {"idle", "done"}
  BY <1>1, Begun
<1>3. /\ upload' = [upload EXCEPT ![u] = w]
      /\ UNCHANGED <<delivering, assignments, profileFix, fix, sent, callbacks, glance>>
  BY DEF UploadFails, Continues, deliveries
<1>4. w \in Uploaded /\ w.rider = upload[u].rider /\ UploadHonest(w, delivering)
  BY <1>1, <1>2, KeptOn
<1> HIDE DEF w
<1>5. /\ profileFix' \in [TrackedRiders -> Fixes \cup {NoFix}]
      /\ fix' \in [TrackedRiders -> Fixes \cup {NoFix}]
      /\ sent' \subseteq [order : TrackedOrders, fix : Fixes]
      /\ callbacks' \subseteq sent'
  BY <1>3, RowsTyped DEF TrackingInv
<1> QED
  BY <1>1, <1>3, <1>4, <1>5, UploadMoves

\* Callbacks only repeat what was sent.
LEMMA CallbackEndsKeeps ==
  ASSUME TrackingInv, NEW c \in callbacks, CallbackEnds(c)
  PROVE  TrackingInv'
<1>1. /\ callbacks' \subseteq callbacks
      /\ UNCHANGED <<delivering, assignments, profileFix, fix, upload, sent, glance>>
  BY DEF CallbackEnds, deliveries
<1>2. TrackingTypeOK'
  BY <1>1, RowsTyped DEF TrackingInv, TrackingTypeOK
<1> QED
  BY <1>1, <1>2 DEF TrackingInv

-----------------------------------------------------------------------------
(* Snapshots.                                                              *)

\* A step of one snapshot that stays honest.
LEMMA GlanceMoves ==
  ASSUME TrackingInv, NEW g \in Glances, NEW h \in Glimpsed,
         GlanceHonest(h, delivering), ShownOf(h, upload),
         glance' = [glance EXCEPT ![g] = h],
         UNCHANGED <<delivering, assignments, profileFix, fix, upload, sent, callbacks>>
  PROVE  TrackingInv'
<1>1. glance \in [Glances -> {NoGlance} \cup Glimpsed]
  BY RowsTyped DEF TrackingInv
<1>2. glance' \in [Glances -> {NoGlance} \cup Glimpsed]
  BY <1>1
<1>3. TrackingTypeOK'
  BY <1>2 DEF TrackingInv, TrackingTypeOK, Glimpsed
<1>4. \A f \in Glances : GlanceHonest(glance'[f], delivering) /\ ShownOf(glance'[f], upload)
  BY <1>1 DEF TrackingInv
<1> QED
  BY <1>3, <1>4 DEF TrackingInv

\* A request begins with whoever its path shows.
LEMMA GlimpsesKeeps ==
  ASSUME TrackingInv, NEW g \in Glances, NEW o \in TrackedOrders, NEW path \in Paths,
         Glimpses(g, o, path)
  PROVE  TrackingInv'
<1> DEFINE h == [step |-> "row", path |-> path, order |-> o, rider |-> NoRider, shown |-> NoFix,
                 held |-> {r \in TrackedRiders : Sees(path, r, o)}]
<1>1. h \in Glimpsed
  BY DEF Glimpsed
<1>2. GlanceHonest(h, delivering) /\ ShownOf(h, upload)
  BY DEF GlanceHonest, ShownOf, RowShows, Sees
<1>3. /\ glance' = [glance EXCEPT ![g] = h]
      /\ UNCHANGED <<delivering, assignments, profileFix, fix, upload, sent, callbacks>>
  BY DEF Glimpses, deliveries
<1> HIDE DEF h
<1> QED
  BY <1>1, <1>2, <1>3, GlanceMoves

\* A request that shows nobody is over.
LEMMA ShowsNobodyKeeps ==
  ASSUME TrackingInv, NEW g \in Glances, glance[g].step = "row", ShowsNobody(g),
         glance[g].rider = NoRider,
         UNCHANGED <<delivering, assignments, profileFix, fix, upload, sent, callbacks>>
  PROVE  TrackingInv'
<1> DEFINE h == [glance[g] EXCEPT !.step = "done"]
<1>1. glance[g] \in Glimpsed
  BY RowsTyped DEF TrackingInv, NoGlance
<1>2. h \in Glimpsed /\ h.step = "done" /\ h.rider = NoRider
  BY <1>1 DEF Glimpsed
<1>3. glance' = [glance EXCEPT ![g] = h]
  BY <1>1, RowsTyped DEF ShowsNobody, TrackingInv
<1> HIDE DEF h
<1>4. GlanceHonest(h, delivering) /\ ShownOf(h, upload)
  BY <1>2 DEF GlanceHonest, ShownOf
<1> QED
  BY <1>2, <1>3, <1>4, GlanceMoves

\* A rider whom the row shows now has been seen by the request.
LEMMA TakesRiderKeeps ==
  ASSUME TrackingInv, NEW g \in Glances, glance[g].step = "row", NEW r \in TrackedRiders,
         RowShows(glance[g].path, delivering[glance[g].order], r), TakesRider(g, r),
         UNCHANGED <<delivering, assignments, profileFix, fix, upload, sent, callbacks>>
  PROVE  TrackingInv'
<1> DEFINE h == [glance[g] EXCEPT !.rider = r, !.step = "location"]
<1>1. glance[g] \in Glimpsed
  BY RowsTyped DEF TrackingInv, NoGlance
<1>2. /\ h \in Glimpsed /\ h.step = "location" /\ h.rider = r /\ h.held = glance[g].held
      /\ h.order = glance[g].order /\ h.path = glance[g].path
  BY <1>1 DEF Glimpsed
<1>3. glance' = [glance EXCEPT ![g] = h]
  BY <1>1, RowsTyped DEF TakesRider, TrackingInv
<1> HIDE DEF h
<1>4. GlanceHonest(glance[g], delivering)
  BY DEF TrackingInv
<1>5. GlanceHonest(h, delivering)
  BY <1>2, <1>4 DEF GlanceHonest
<1>6. ShownOf(h, upload)
  BY <1>2 DEF ShownOf
<1> QED
  BY <1>2, <1>3, <1>5, <1>6, GlanceMoves

\* The delivery is read, and its rider taken if the path shows him.
LEMMA ReadsDeliveryKeeps ==
  ASSUME TrackingInv, NEW g \in Glances, ReadsDelivery(g) \/ ReadsTrackedDelivery(g)
  PROVE  TrackingInv'
<1> DEFINE row == delivering[glance[g].order]
<1>1. /\ glance[g].step = "row"
      /\ UNCHANGED <<delivering, assignments, profileFix, fix, upload, sent, callbacks>>
  BY DEF ReadsDelivery, ReadsTrackedDelivery, deliveries
<1>2. glance[g] \in Glimpsed /\ glance[g].order \in TrackedOrders
  BY <1>1, RowsTyped DEF TrackingInv, NoGlance, Glimpsed
<1>3. /\ row.rider \in TrackedRiders \cup {NoRider}
      /\ row.status \in Statuses
  BY <1>2, RowsTyped DEF TrackingInv, DeliveryRows
<1>4. glance[g].rider = NoRider
  BY <1>1 DEF TrackingInv, GlanceHonest
<1>5. \/ ShowsNobody(g)
      \/ /\ row.rider \in TrackedRiders
         /\ RowShows(glance[g].path, row, row.rider)
         /\ TakesRider(g, row.rider)
  BY <1>3 DEF ReadsDelivery, ReadsTrackedDelivery, RowShows, Shows
<1> QED
  BY <1>1, <1>4, <1>5, ShowsNobodyKeeps, TakesRiderKeeps

\* The fix shown was uploaded by the rider it is stored for.
LEMMA ReadsLocationKeeps ==
  ASSUME TrackingInv, NEW g \in Glances, ReadsLocation(g)
  PROVE  TrackingInv'
<1>1. PICK found \in {fix[glance[g].rider], NoFix} :
        glance' = [glance EXCEPT ![g].shown = found, ![g].step = "done"]
  BY DEF ReadsLocation
<1> DEFINE h == [glance[g] EXCEPT !.shown = found, !.step = "done"]
<1>2. glance[g].step = "location"
  BY DEF ReadsLocation
<1>3. glance[g] \in Glimpsed
  BY <1>2, RowsTyped DEF TrackingInv, NoGlance
<1>4. glance[g].rider \in TrackedRiders /\ glance[g].rider \in glance[g].held
  BY <1>2 DEF TrackingInv, GlanceHonest
<1>5. found \in Fixes \cup {NoFix} /\ FixOf(found, glance[g].rider, upload[found])
  BY <1>4, RowsTyped DEF TrackingInv, FixOf
<1>6. h \in Glimpsed /\ h.step = "done" /\ h.rider = glance[g].rider /\ h.held = glance[g].held
      /\ h.shown = found
  BY <1>3, <1>5 DEF Glimpsed
<1>7. /\ glance' = [glance EXCEPT ![g] = h]
      /\ UNCHANGED <<delivering, assignments, profileFix, fix, upload, sent, callbacks>>
  BY <1>1, <1>3, RowsTyped DEF ReadsLocation, deliveries, TrackingInv, Glimpsed
<1> HIDE DEF h
<1>8. GlanceHonest(h, delivering)
  BY <1>6 DEF GlanceHonest
<1>9. ShownOf(h, upload)
  BY <1>4, <1>5, <1>6 DEF ShownOf, FixOf
<1> QED
  BY <1>6, <1>7, <1>8, <1>9, GlanceMoves

-----------------------------------------------------------------------------
\* Every step keeps the invariant.
LEMMA TrackingInvNext == TrackingInv /\ [TrackingNext]_trackingVars => TrackingInv'
<1> SUFFICES ASSUME TrackingInv, [TrackingNext]_trackingVars PROVE TrackingInv'
  OBVIOUS
<1>1. CASE TrackingNext
  <2>1. CASE \E o \in TrackedOrders : HandsBack(o) \/ Progresses(o)
    BY <2>1, HandsBackKeeps, ProgressesKeeps
  <2>2. CASE \E o \in TrackedOrders, r \in TrackedRiders : Assigns(o, r)
    BY <2>2, AssignsKeeps
  <2>3. CASE \E u \in Fixes, r \in TrackedRiders : Uploads(u, r)
    BY <2>3, UploadsKeeps
  <2>4. CASE \E u \in Fixes : \/ UpdatesProfile(u) \/ StoresFix(u) \/ LooksUpOrder(u)
                             \/ TellsCustomer(u) \/ UploadFails(u)
    BY <2>4, UpdatesProfileKeeps, StoresFixKeeps, LooksUpOrderKeeps, TellsCustomerKeeps,
       UploadFailsKeeps
  <2>5. CASE \E c \in callbacks : CallbackEnds(c)
    BY <2>5, CallbackEndsKeeps
  <2>6. CASE \E g \in Glances, o \in TrackedOrders, path \in Paths : Glimpses(g, o, path)
    BY <2>6, GlimpsesKeeps
  <2>7. CASE \E g \in Glances :
               ReadsDelivery(g) \/ ReadsTrackedDelivery(g) \/ ReadsLocation(g)
    BY <2>7, ReadsDeliveryKeeps, ReadsLocationKeeps
  <2> QED
    BY <1>1, <2>1, <2>2, <2>3, <2>4, <2>5, <2>6, <2>7 DEF TrackingNext
<1>2. CASE UNCHANGED trackingVars
  <2>1. /\ UNCHANGED <<delivering, assignments, profileFix, fix>>
        /\ UNCHANGED <<upload, sent, callbacks, glance>>
    BY <1>2 DEF trackingVars
  <2>2. TrackingTypeOK'
    BY <2>1 DEF TrackingInv, TrackingTypeOK
  <2> QED
    BY <2>1, <2>2 DEF TrackingInv
<1> QED
  BY <1>1, <1>2

\* The inductive invariant holds in every state.
THEOREM TrackingInvariant == TrackingSpec => []TrackingInv
<1>1. TrackingInit => TrackingInv
  BY TrackingInvInit
<1>2. TrackingInv /\ [TrackingNext]_trackingVars => TrackingInv'
  BY TrackingInvNext
<1> QED
  BY <1>1, <1>2, PTL DEF TrackingSpec

(* Whatever is assigned, handed back or delivered while a fix is uploaded  *)
(* or a request served: an order's channel is told only of riders who      *)
(* carried it meanwhile, a snapshot shows only the fix of such a rider,    *)
(* and the tracking endpoint only that of a rider who was on record for    *)
(* the order meanwhile (as he is when it has ended).                       *)
THEOREM TrackingPrivate == TrackingSpec => []SeenByTheRightCustomer
<1>1. TrackingInv => SeenByTheRightCustomer
  BY DEF TrackingInv, SeenByTheRightCustomer, SentOf, ShownOf
<1> QED
  BY <1>1, TrackingInvariant, PTL

-----------------------------------------------------------------------------
(* The search for riders near a pickup.                                    *)

Searches == [step : SearchSteps, declined : SUBSET NearbyRiders,
             candidates : SUBSET NearbyRiders, found : SUBSET NearbyRiders,
             eligible : SUBSET NearbyRiders]

\* What a search may still choose from, and what a finished one has found.
SearchInv ==
  /\ ready \subseteq NearbyRiders /\ declined \subseteq NearbyRiders
  /\ search \in {NoSearch} \cup Searches
  /\ NobodyNearbyMissed

\* The riders are finitely many, and a list has room for some.
LEMMA RidersCounted ==
  ASSUME NEW S \in SUBSET NearbyRiders
  PROVE  IsFiniteSet(S) /\ Cardinality(S) \in Nat /\ ListSize \in Nat
BY NearbyAssumption, FS_Subset, FS_CardinalityType

\* A search that asks for up to so many riders leaves one out only if there
\* are that many (LIMIT, and the count of GEOSEARCH).
LEMMA UpToFills ==
  ASSUME NEW S \in SUBSET NearbyRiders, NEW limit \in Nat, NEW T \in UpTo(limit, S)
  PROVE  T \subseteq S /\ (Cardinality(T) < limit => T = S)
<1>1. CASE Cardinality(S) <= limit
  BY <1>1 DEF UpTo
<1>2. CASE ~(Cardinality(S) <= limit)
  <2>1. T \subseteq S /\ Cardinality(T) = limit
    BY <1>2 DEF UpTo, kSubset
  <2> QED BY <2>1
<1> QED BY <1>1, <1>2

\* As many more rows are asked for as riders have declined: when these are taken
\* out, a list that is not full lacks nobody.
LEMMA DeclinedAllowedFor ==
  ASSUME NEW E \in SUBSET NearbyRiders, NEW D \in SUBSET NearbyRiders,
         NEW rows \in UpTo(ListSize + Cardinality(D), E),
         NEW riders \in UpTo(ListSize, rows \ D)
  PROVE  /\ riders \subseteq E \ D
         /\ Cardinality(riders) < ListSize => riders = E \ D
<1>1. /\ IsFiniteSet(D) /\ Cardinality(D) \in Nat /\ ListSize \in Nat
      /\ ListSize + Cardinality(D) \in Nat
  BY RidersCounted
<1>2. /\ rows \subseteq E
      /\ Cardinality(rows) < ListSize + Cardinality(D) => rows = E
  BY <1>1, UpToFills
<1>3. /\ riders \subseteq rows \ D
      /\ Cardinality(riders) < ListSize => riders = rows \ D
  <2>1. rows \ D \in SUBSET NearbyRiders
    BY <1>2
  <2> QED BY <1>1, <2>1, UpToFills
<1>4. CASE Cardinality(rows) < ListSize + Cardinality(D)
  BY <1>2, <1>3, <1>4
<1>5. CASE ~(Cardinality(rows) < ListSize + Cardinality(D))
  <2>1. /\ IsFiniteSet(rows) /\ Cardinality(rows) \in Nat
        /\ IsFiniteSet(rows \cap D) /\ Cardinality(rows \cap D) \in Nat
    <3>1. rows \in SUBSET NearbyRiders /\ rows \cap D \in SUBSET NearbyRiders
      BY <1>2
    <3> QED BY <3>1, RidersCounted
  <2>2. Cardinality(rows \ D) = Cardinality(rows) - Cardinality(rows \cap D)
    BY <2>1, FS_Difference
  <2>3. Cardinality(rows \cap D) <= Cardinality(D)
    <3>1. rows \cap D \in SUBSET D
      OBVIOUS
    <3> QED BY <1>1, <3>1, FS_Subset
  <2>4. Cardinality(rows \ D) >= ListSize
    BY <1>1, <1>5, <2>1, <2>2, <2>3
  <2>5. riders = rows \ D => ~(Cardinality(riders) < ListSize)
    <3>1. Cardinality(rows \ D) \in Nat
      BY <1>2, RidersCounted
    <3> QED BY <1>1, <2>4, <3>1
  <2> QED BY <1>2, <1>3, <2>5
<1> QED BY <1>4, <1>5

\* A search that goes on to another step has found nobody yet.
LEMMA GoesOnKeeps ==
  ASSUME SearchInv, NEW s \in Searches, search' = s, s.step # "done",
         ready' \subseteq NearbyRiders, declined' \subseteq NearbyRiders
  PROVE  SearchInv'
BY DEF SearchInv, NobodyNearbyMissed

\* A search settles on riders it may offer to.
LEMMA SettlesKeeps ==
  ASSUME SearchInv, search \in Searches, NEW riders \in SUBSET NearbyRiders, Settles(riders),
         riders \subseteq Eligible \ search.declined,
         Cardinality(riders) < ListSize => riders = Eligible \ search.declined,
         UNCHANGED <<ready, declined>>
  PROVE  SearchInv'
<1> DEFINE s == [search EXCEPT !.found = riders, !.eligible = Eligible, !.step = "done"]
<1>1. search' = s
  BY DEF Settles
<1>2. Eligible \in SUBSET NearbyRiders
  BY DEF SearchInv, Eligible
<1>3. s \in Searches
  BY <1>2 DEF Searches, SearchSteps
<1>4. s.found = riders /\ s.eligible = Eligible /\ s.declined = search.declined
  BY DEF Searches
<1> HIDE DEF s
<1>5. NobodyNearbyMissed'
  BY <1>1, <1>4 DEF NobodyNearbyMissed
<1> QED BY <1>1, <1>3, <1>5 DEF SearchInv

\* A search that has begun is a record of all its fields.
LEMMA SearchBegun == SearchInv /\ search.step \in SearchSteps => search \in Searches
BY DEF SearchInv, SearchSteps, NoSearch

\* Falling back on the tables changes only the step.
LEMMA FallsBackKeeps ==
  ASSUME SearchInv, search \in Searches, FallsBack, UNCHANGED <<ready, declined>>
  PROVE  SearchInv'
<1> DEFINE s == [search EXCEPT !.step = "sql"]
<1>1. search' = s /\ s \in Searches /\ s.step = "sql"
  BY DEF FallsBack, Searches, SearchSteps
<1> HIDE DEF s
<1> QED BY <1>1, GoesOnKeeps DEF SearchInv

\* The index names candidates, which nothing is said about yet.
LEMMA CandidatesKeeps ==
  ASSUME SearchInv, NearbyCandidates
  PROVE  SearchInv'
<1>1. search \in Searches /\ UNCHANGED <<ready, declined>>
  BY SearchBegun DEF NearbyCandidates, SearchSteps
<1>2. PICK fresh \in SUBSET NearbyRiders :
        \E nearby \in UpTo(3 * Limit(search), fresh) :
          IF nearby = {} THEN FallsBack
          ELSE search' = [search EXCEPT !.candidates = nearby, !.step = "verify"]
  BY DEF NearbyCandidates
<1>3. PICK nearby \in UpTo(3 * Limit(search), fresh) :
        IF nearby = {} THEN FallsBack
        ELSE search' = [search EXCEPT !.candidates = nearby, !.step = "verify"]
  BY <1>2
<1>4. CASE nearby = {}
  BY <1>1, <1>3, <1>4, FallsBackKeeps
<1>5. CASE nearby # {}
  <2> DEFINE s == [search EXCEPT !.candidates = nearby, !.step = "verify"]
  <2>1. nearby \in SUBSET NearbyRiders
    <3>1. fresh \in SUBSET NearbyRiders /\ search.declined \in SUBSET NearbyRiders
      BY <1>1 DEF Searches
    <3>2. 3 * Limit(search) \in Nat
      BY <3>1, RidersCounted DEF Limit
    <3> QED BY <3>1, <3>2, UpToFills
  <2>2. search' = s
    BY <1>3, <1>5
  <2>3. s \in Searches /\ s.step = "verify"
    BY <1>1, <2>1 DEF Searches, SearchSteps
  <2> HIDE DEF s
  <2> QED BY <1>1, <2>2, <2>3, GoesOnKeeps DEF SearchInv
<1> QED BY <1>4, <1>5

\* The tables are asked about the candidates; their answer counts if it fills
\* the list.
LEMMA VerifiesKeeps ==
  ASSUME SearchInv, VerifiesCandidates
  PROVE  SearchInv'
<1> DEFINE D == search.declined
           E == Eligible \cap search.candidates
<1>1. search \in Searches /\ UNCHANGED <<ready, declined>>
  BY SearchBegun DEF VerifiesCandidates, SearchSteps
<1>2. PICK rows \in UpTo(Limit(search), E) : \E riders \in Offerable(rows, search) :
        IF Cardinality(riders) >= ListSize THEN Settles(riders) ELSE FallsBack
  BY DEF VerifiesCandidates
<1>3. PICK riders \in Offerable(rows, search) :
         IF Cardinality(riders) >= ListSize THEN Settles(riders) ELSE FallsBack
  BY <1>2
<1>4. CASE ~(Cardinality(riders) >= ListSize)
  BY <1>1, <1>3, <1>4, FallsBackKeeps
<1>5. CASE Cardinality(riders) >= ListSize
  <2>1. D \in SUBSET NearbyRiders /\ E \in SUBSET NearbyRiders
    BY <1>1 DEF Searches, Eligible, SearchInv
  <2>2. rows \in UpTo(ListSize + Cardinality(D), E) /\ riders \in UpTo(ListSize, rows \ D)
    BY <1>3 DEF Limit, Offerable
  <2> HIDE DEF D, E
  <2>3. riders \subseteq E \ D
    BY <2>1, <2>2, DeclinedAllowedFor
  <2>4. riders \in SUBSET NearbyRiders
    BY <2>1, <2>3
  <2>5. ~(Cardinality(riders) < ListSize)
    BY <1>5, <2>4, RidersCounted
  <2>6. riders \subseteq Eligible \ search.declined
    BY <2>3 DEF D, E
  <2> QED BY <1>1, <1>3, <1>5, <2>4, <2>5, <2>6, SettlesKeeps
<1> QED BY <1>4, <1>5

\* The tables are searched for all of them.
LEMMA SearchesKeeps ==
  ASSUME SearchInv, SearchesTables
  PROVE  SearchInv'
<1> DEFINE D == search.declined
<1>1. search \in Searches /\ UNCHANGED <<ready, declined>>
  BY SearchBegun DEF SearchesTables, SearchSteps
<1>2. PICK rows \in UpTo(Limit(search), Eligible) :
        \E riders \in Offerable(rows, search) : Settles(riders)
  BY DEF SearchesTables
<1>3. PICK riders \in Offerable(rows, search) : Settles(riders)
  BY <1>2
<1>4. D \in SUBSET NearbyRiders /\ Eligible \in SUBSET NearbyRiders
  BY <1>1 DEF Searches, Eligible, SearchInv
<1>5. /\ rows \in UpTo(ListSize + Cardinality(D), Eligible)
      /\ riders \in UpTo(ListSize, rows \ D)
  BY <1>3 DEF Limit, Offerable
<1>6. /\ riders \subseteq Eligible \ D
      /\ Cardinality(riders) < ListSize => riders = Eligible \ D
  BY <1>4, <1>5, DeclinedAllowedFor
<1>7. riders \in SUBSET NearbyRiders
  BY <1>4, <1>6
<1> QED BY <1>1, <1>3, <1>6, <1>7, SettlesKeeps

\* Every step keeps the invariant; only a search that settles has to show it.
LEMMA SearchInvNext == SearchInv /\ [NearbyNext]_nearbyVars => SearchInv'
<1> SUFFICES ASSUME SearchInv, [NearbyNext]_nearbyVars PROVE SearchInv'
  OBVIOUS
<1>1. ASSUME UNCHANGED search, ready' \subseteq NearbyRiders, declined' \subseteq NearbyRiders
      PROVE  SearchInv'
  BY <1>1 DEF SearchInv, NobodyNearbyMissed
<1>2. ASSUME NEW u \in Uploaders, NEW r \in NearbyRiders, NEW p \in Whereabouts,
             FixArrives(u, r, p) \/ StoresPlace(u) \/ IndexesPlace(u)
      PROVE  UNCHANGED <<ready, declined, search>>
  BY <1>2 DEF FixArrives, StoresPlace, IndexesPlace
<1>3. ASSUME NEW u \in Uploaders, StoresPlace(u) \/ IndexesPlace(u)
      PROVE  UNCHANGED <<ready, declined, search>>
  BY <1>3 DEF StoresPlace, IndexesPlace
<1>4. CASE IndexLost \/ UNCHANGED nearbyVars
  BY <1>1, <1>4 DEF IndexLost, nearbyVars, SearchInv
<1>5. ASSUME NEW r \in NearbyRiders, ReadinessChanges(r) \/ Declines(r) PROVE SearchInv'
  BY <1>1, <1>5 DEF ReadinessChanges, Declines, SearchInv
<1>6. CASE SearchStarts
  <2>1. PICK known \in {declined, {}} :
          search' = [step |-> "index", declined |-> known,
                     candidates |-> {}, found |-> {}, eligible |-> {}]
    BY <1>6 DEF SearchStarts
  <2> DEFINE s == [step |-> "index", declined |-> known,
                   candidates |-> {}, found |-> {}, eligible |-> {}]
  <2>2. s \in Searches /\ s.step = "index"
    BY DEF Searches, SearchSteps, SearchInv
  <2> HIDE DEF s
  <2> QED BY <1>6, <2>1, <2>2, GoesOnKeeps DEF SearchStarts, SearchInv, s
<1>7. CASE SearchEnds
  <2>1. search' = NoSearch /\ NoSearch.step = "idle" /\ UNCHANGED <<ready, declined>>
    BY <1>7 DEF SearchEnds, NoSearch
  <2> QED BY <2>1 DEF SearchInv, NobodyNearbyMissed
<1>8. SearchInv => ready \subseteq NearbyRiders /\ declined \subseteq NearbyRiders
  BY DEF SearchInv
<1> QED BY <1>1, <1>2, <1>3, <1>4, <1>5, <1>6, <1>7, <1>8,
           CandidatesKeeps, VerifiesKeeps, SearchesKeeps DEF NearbyNext

\* However stale, lossy or disordered the index, and however many riders there
\* are, the search finds only eligible ones who have not declined, and leaves one
\* out only when its list is full (findOfferableRiders).
THEOREM SearchMissesNobody == NearbySpec => []NobodyNearbyMissed
<1>1. NearbyInit => SearchInv
  BY DEF NearbyInit, SearchInv, NobodyNearbyMissed, NoSearch
<1>2. SearchInv => NobodyNearbyMissed
  BY DEF SearchInv
<1> QED BY <1>1, <1>2, SearchInvNext, PTL DEF NearbySpec

(* The types of what the search reads: the tables, the index, the uploads. *)

FixingRows == [step : {"store", "index"}, rider : NearbyRiders, place : Whereabouts]

NearbyPlaced ==
  /\ located \in [NearbyRiders -> Whereabouts]
  /\ index \in [NearbyRiders -> Whereabouts]
  /\ fixing \in [Uploaders -> {NoFixing} \cup FixingRows]

\* What the invariant and the places say together is the type invariant.
LEMMA NearbyInTypes == SearchInv /\ NearbyPlaced => NearbyTypeOK
BY DEF SearchInv, Searches, NearbyPlaced, FixingRows, NearbyTypeOK

\* At first everybody is far.
LEMMA NearbyStarts == NearbyInit => SearchInv /\ NearbyPlaced
<1>1. NearbyInit => SearchInv
  BY DEF NearbyInit, SearchInv, NobodyNearbyMissed, NoSearch
<1>2. NearbyInit => NearbyPlaced
  BY DEF NearbyInit, NearbyPlaced, Whereabouts
<1> QED BY <1>1, <1>2

\* An upload that is under way has a rider and a place.
LEMMA FixesTyped ==
  ASSUME NearbyPlaced, NEW u \in Uploaders, fixing[u].step \in {"store", "index"}
  PROVE  fixing[u] \in FixingRows
BY DEF NearbyPlaced, NoFixing

\* FixingRows and losses leave the tables and the index what they are.
LEMMA NearbyStays == NearbyPlaced /\ [NearbyNext]_nearbyVars => NearbyPlaced'
<1> SUFFICES ASSUME NearbyPlaced, [NearbyNext]_nearbyVars PROVE NearbyPlaced'
  OBVIOUS
<1>1. ASSUME UNCHANGED <<located, index, fixing>> PROVE NearbyPlaced'
  BY <1>1 DEF NearbyPlaced
<1>2. ASSUME NEW u \in Uploaders, NEW r \in NearbyRiders, NEW p \in Whereabouts,
             FixArrives(u, r, p)
      PROVE  NearbyPlaced'
  <2> DEFINE up == [step |-> "store", rider |-> r, place |-> p]
  <2>1. fixing' = [fixing EXCEPT ![u] = up] /\ UNCHANGED <<located, index>>
    BY <1>2 DEF FixArrives
  <2>2. up \in FixingRows
    BY DEF FixingRows
  <2> HIDE DEF up
  <2> QED BY <2>1, <2>2 DEF NearbyPlaced
<1>3. ASSUME NEW u \in Uploaders, StoresPlace(u) PROVE NearbyPlaced'
  <2> DEFINE up == [fixing[u] EXCEPT !.step = "index"]
  <2>1. fixing[u] \in FixingRows
    BY <1>3, FixesTyped DEF StoresPlace
  <2>2. fixing' = [fixing EXCEPT ![u] = up]
    BY <1>3 DEF StoresPlace
  <2>3. located' \in [NearbyRiders -> Whereabouts] /\ UNCHANGED index
    BY <1>3, <2>1 DEF StoresPlace, NearbyPlaced, FixingRows
  <2>4. up \in FixingRows
    BY <2>1 DEF FixingRows
  <2> HIDE DEF up
  <2> QED BY <2>2, <2>3, <2>4 DEF NearbyPlaced
<1>4. ASSUME NEW u \in Uploaders, IndexesPlace(u) PROVE NearbyPlaced'
  <2>1. fixing[u] \in FixingRows
    BY <1>4, FixesTyped DEF IndexesPlace
  <2>2. index' \in [NearbyRiders -> Whereabouts]
    BY <1>4, <2>1 DEF IndexesPlace, NearbyPlaced, FixingRows
  <2>3. fixing' = [fixing EXCEPT ![u] = NoFixing] /\ UNCHANGED located
    BY <1>4 DEF IndexesPlace
  <2> QED BY <2>2, <2>3 DEF NearbyPlaced
<1>5. CASE IndexLost
  BY <1>5 DEF IndexLost, NearbyPlaced, Whereabouts
<1>6. ASSUME NEW r \in NearbyRiders, ReadinessChanges(r) \/ Declines(r) PROVE NearbyPlaced'
  BY <1>1, <1>6 DEF ReadinessChanges, Declines
<1>7. CASE SearchStarts \/ NearbyCandidates \/ VerifiesCandidates \/ SearchesTables \/ SearchEnds
  BY <1>1, <1>7
  DEF SearchStarts, NearbyCandidates, VerifiesCandidates, SearchesTables, SearchEnds
<1>8. CASE UNCHANGED nearbyVars
  BY <1>1, <1>8 DEF nearbyVars
<1> QED BY <1>2, <1>3, <1>4, <1>5, <1>6, <1>7, <1>8 DEF NearbyNext

\* Tables, index, uploads and search stay what the code makes of them.
THEOREM NearbyTyping == NearbySpec => []NearbyTypeOK
<1>1. SearchInv /\ NearbyPlaced /\ [NearbyNext]_nearbyVars => (SearchInv /\ NearbyPlaced)'
  BY SearchInvNext, NearbyStays
<1> QED BY <1>1, NearbyStarts, NearbyInTypes, PTL DEF NearbySpec

-----------------------------------------------------------------------------
(* Recursion over the numbers: that it ends, and what it yields.           *)

\* Induction over the numbers.
LEMMA CountingUp ==
  ASSUME NEW G, 0 \in G, \A n \in Nat : n \in G => n + 1 \in G
  PROVE  Nat \subseteq G
<1> DEFINE T == Nat \ G
           less == OpToRel(<, Nat)
<1>1. T \subseteq Nat
  OBVIOUS
<1> SUFFICES ASSUME T # {} PROVE FALSE
  OBVIOUS
<1>2. PICK n \in T : \A k \in T : <<k, n>> \notin less
  BY <1>1, NatLessThanWellFounded, WFMin
<1>3. n \in Nat /\ n # 0 /\ n \notin G
  OBVIOUS
<1>4. n - 1 \in Nat /\ n - 1 < n /\ (n - 1) + 1 = n
  BY <1>3
<1>5. n - 1 \in T
  BY <1>3, <1>4
<1> QED BY <1>2, <1>3, <1>4, <1>5 DEF OpToRel

\* Induction over the numbers below a number.
LEMMA CountingUpTo ==
  ASSUME NEW n \in Nat, NEW G, 0 \in G, \A i \in 0 .. n - 1 : i \in G => i + 1 \in G
  PROVE  \A i \in 0 .. n : i \in G
<1> DEFINE H == {i \in Nat : i <= n => i \in G}
<1>1. 0 \in H
  OBVIOUS
<1>2. ASSUME NEW i \in Nat, i \in H PROVE i + 1 \in H
  <2>1. CASE i + 1 <= n
    <3>1. i \in 0 .. n - 1 /\ i <= n
      BY <2>1
    <3> QED BY <1>2, <3>1
  <2>2. CASE ~(i + 1 <= n)
    BY <2>2
  <2> QED BY <2>1, <2>2
<1>3. Nat \subseteq H
  <2> HIDE DEF H
  <2> QED BY <1>1, <1>2, CountingUp
<1> QED BY <1>3

\* A function that starts at s and takes its first n steps with g.
Upto(f, s, g, n) ==
  f[0] = s /\ \A i \in 0 .. n - 1 : f[i + 1] = g[<<i + 1, f[i]>>]

Stepwise(f, s, g) == f[0] = s /\ \A i \in Nat : f[i + 1] = g[<<i + 1, f[i]>>]

\* For every start and step there is the function of all the steps.
LEMMA Iterates ==
  ASSUME NEW S, NEW s \in S, NEW g \in [Nat \X S -> S]
  PROVE  \E f \in [Nat -> S] : Stepwise(f, s, g)
<1> DEFINE N == {n \in Nat : \E f \in [Nat -> S] : Upto(f, s, g, n)}
<1>1. 0 \in N
  <2> DEFINE f == [i \in Nat |-> s]
  <2>1. f \in [Nat -> S] /\ Upto(f, s, g, 0)
    BY DEF Upto
  <2> QED BY <2>1
<1>2. ASSUME NEW n \in Nat, n \in N PROVE n + 1 \in N
  <2>1. PICK f \in [Nat -> S] : Upto(f, s, g, n)
    BY <1>2
  <2> DEFINE y == g[<<n + 1, f[n]>>]
             h == [i \in Nat |-> IF i = n + 1 THEN y ELSE f[i]]
  <2>2. y \in S
    <3>1. <<n + 1, f[n]>> \in Nat \X S
      OBVIOUS
    <3> QED BY <3>1
  <2>3. h \in [Nat -> S]
    <3> HIDE DEF y
    <3> QED BY <2>2
  <2>4. h[0] = s
    BY <2>1 DEF Upto
  <2>5. ASSUME NEW i \in 0 .. (n + 1) - 1 PROVE h[i + 1] = g[<<i + 1, h[i]>>]
    <3>1. i \in Nat /\ i # n + 1 /\ h[i] = f[i]
      OBVIOUS
    <3>2. CASE i = n
      BY <3>1, <3>2
    <3>3. CASE i # n
      <4>1. i \in 0 .. n - 1 /\ i + 1 # n + 1 /\ i + 1 \in Nat
        BY <3>3
      <4>2. f[i + 1] = g[<<i + 1, f[i]>>]
        BY <2>1, <4>1 DEF Upto
      <4> QED BY <3>1, <4>1, <4>2
    <3> QED BY <3>2, <3>3
  <2>6. Upto(h, s, g, n + 1)
    <3> HIDE DEF h
    <3> QED BY <2>4, <2>5 DEF Upto
  <2> HIDE DEF h
  <2> QED BY <2>3, <2>6
<1>3. Nat \subseteq N
  <2> HIDE DEF N
  <2> QED BY <1>1, <1>2, CountingUp
<1> DEFINE F(n) == CHOOSE f \in [Nat -> S] : Upto(f, s, g, n)
<1>4. \A n \in Nat : F(n) \in [Nat -> S] /\ Upto(F(n), s, g, n)
  BY <1>3
<1> HIDE DEF F, N
<1>5. ASSUME NEW n \in Nat PROVE F(n + 1)[n] = F(n)[n]
  <2> DEFINE G == {i \in Nat : F(n + 1)[i] = F(n)[i]}
  <2>1. F(n) \in [Nat -> S] /\ F(n + 1) \in [Nat -> S]
    BY <1>4
  <2>2. Upto(F(n), s, g, n) /\ Upto(F(n + 1), s, g, n + 1)
    BY <1>4
  <2>3. 0 \in G
    BY <2>2 DEF Upto
  <2>4. ASSUME NEW i \in 0 .. n - 1, i \in G PROVE i + 1 \in G
    <3>1. i \in 0 .. (n + 1) - 1 /\ i + 1 \in Nat
      OBVIOUS
    <3>2. F(n + 1)[i + 1] = g[<<i + 1, F(n + 1)[i]>>] /\ F(n)[i + 1] = g[<<i + 1, F(n)[i]>>]
      BY <2>2, <3>1 DEF Upto
    <3> QED BY <2>4, <3>1, <3>2
  <2>5. n \in G
    <3> HIDE DEF G
    <3>1. \A i \in 0 .. n : i \in G
      BY <2>3, <2>4, CountingUpTo
    <3> QED BY <3>1
  <2> QED BY <2>5
<1> DEFINE f == [n \in Nat |-> F(n)[n]]
<1>6. f \in [Nat -> S]
  BY <1>4
<1>7. f[0] = s
  BY <1>4 DEF Upto
<1>8. ASSUME NEW i \in Nat PROVE f[i + 1] = g[<<i + 1, f[i]>>]
  <2>1. i + 1 \in Nat /\ i \in 0 .. (i + 1) - 1
    OBVIOUS
  <2>2. F(i + 1)[i + 1] = g[<<i + 1, F(i + 1)[i]>>]
    BY <1>4, <2>1 DEF Upto
  <2> QED BY <1>5, <2>1, <2>2
<1> HIDE DEF f
<1> QED BY <1>6, <1>7, <1>8 DEF Stepwise

-----------------------------------------------------------------------------
(* What the encoder writes.                                                *)

Word == Seq(Nat)

\* A number from 32 on is its last five bits and the number of the bits before.
LEMMA Shifted ==
  ASSUME NEW n \in Nat, n >= 32
  PROVE  /\ n \div 32 \in Nat /\ n \div 32 >= 1 /\ n \div 32 < n
         /\ n % 32 \in 0 .. 31 /\ n = 32 * (n \div 32) + (n % 32)
OBVIOUS

\* One more character, before those of the number it is taken from.
Longer(n, w) == IF n < 32 THEN <<n>> ELSE <<32 + (n % 32)>> \o w

\* It is a word if what is before it was one.
LEMMA LongerTyped ==
  ASSUME NEW n \in Nat, NEW w \in Word
  PROVE  Longer(n, w) \in Word
<1>1. CASE n < 32
  BY <1>1 DEF Longer, Word
<1>2. CASE n >= 32
  <2>1. 32 + (n % 32) \in Nat
    BY <1>2, Shifted
  <2>2. <<32 + (n % 32)>> \in Word
    BY <2>1 DEF Word
  <2>3. <<32 + (n % 32)>> \o w \in Word
    BY <2>2 DEF Word
  <2> QED BY <1>2, <2>3 DEF Longer
<1> QED BY <1>1, <1>2

\* One more character than the function h writes.
Writers == [Nat -> Word]
Further(h) == [n \in Nat |-> Longer(n, IF n < 32 THEN <<>> ELSE h[n \div 32])]

\* It is a function that writes words.
LEMMA FurtherTyped ==
  ASSUME NEW h \in Writers
  PROVE  Further(h) \in Writers
<1>1. ASSUME NEW n \in Nat
      PROVE  Longer(n, IF n < 32 THEN <<>> ELSE h[n \div 32]) \in Word
  <2>1. CASE n < 32
    <3>1. <<>> \in Word
      BY DEF Word
    <3> QED BY <2>1, <3>1, LongerTyped
  <2>2. CASE n >= 32
    <3>1. h[n \div 32] \in Word
      BY <2>2, Shifted DEF Writers
    <3> QED BY <2>2, <3>1, LongerTyped
  <2> QED BY <2>1, <2>2
<1> QED BY <1>1 DEF Writers, Further

\* There is a function that writes every number as the code does.
LEMMA CharactersExist ==
  \E f \in Writers : f = [n \in Nat |-> Longer(n, f[n \div 32])]
<1> DEFINE s == [n \in Nat |-> <<n>>]
           g == [p \in Nat \X Writers |-> Further(p[2])]
<1>1. s \in Writers
  BY DEF Word, Writers
<1>2. ASSUME NEW i \in Nat, NEW h \in Writers PROVE g[<<i, h>>] = Further(h)
  OBVIOUS
<1>3. g \in [Nat \X Writers -> Writers]
  <2>1. \A p \in Nat \X Writers : p[2] \in Writers
    OBVIOUS
  <2>2. \A p \in Nat \X Writers : Further(p[2]) \in Writers
    BY <2>1, FurtherTyped
  <2> QED BY <2>2
<1> HIDE DEF g, s
<1>4. PICK G \in [Nat -> Writers] :
        G[0] = s /\ \A i \in Nat : G[i + 1] = g[<<i + 1, G[i]>>]
  <2>1. \E f \in [Nat -> Writers] : Stepwise(f, s, g)
    BY <1>1, <1>3, Iterates
  <2> QED BY <2>1 DEF Stepwise
<1>5. ASSUME NEW i \in Nat, NEW n \in Nat
      PROVE  /\ n < 32 => G[i + 1][n] = <<n>>
             /\ n >= 32 => G[i + 1][n] = Longer(n, G[i][n \div 32])
  <2>1. i + 1 \in Nat /\ G[i] \in Writers
    OBVIOUS
  <2>2. G[i + 1] = Further(G[i])
    BY <1>2, <1>4, <2>1
  <2>3. G[i + 1][n] = Longer(n, IF n < 32 THEN <<>> ELSE G[i][n \div 32])
    BY <2>2 DEF Further
  <2>4. CASE n < 32
    BY <2>3, <2>4 DEF Longer
  <2>5. CASE n >= 32
    <3>1. ~(n < 32)
      BY <2>5
    <3> QED BY <2>3, <3>1
  <2> QED BY <2>4, <2>5
<1> DEFINE K == {k \in Nat : \A n \in 0 .. k : G[k + 1][n] = G[k][n]}
<1>6. 0 \in K
  <2>1. G[0 + 1][0] = <<0>>
    <3>1. 0 \in Nat /\ 0 < 32
      OBVIOUS
    <3> QED BY <1>5, <3>1
  <2>2. G[0][0] = <<0>>
    BY <1>4 DEF s
  <2> QED BY <2>1, <2>2
<1>7. ASSUME NEW k \in Nat, k \in K PROVE k + 1 \in K
  <2>1. ASSUME NEW n \in 0 .. k + 1 PROVE G[(k + 1) + 1][n] = G[k + 1][n]
    <3> n \in Nat /\ k + 1 \in Nat
      OBVIOUS
    <3>1. CASE n < 32
      BY <1>5, <3>1
    <3>2. CASE n >= 32
      <4>1. n \div 32 \in 0 .. k
        BY <3>2, Shifted
      <4>2. G[k + 1][n \div 32] = G[k][n \div 32]
        BY <1>7, <4>1
      <4>3. G[(k + 1) + 1][n] = Longer(n, G[k + 1][n \div 32])
        BY <1>5, <3>2
      <4>4. G[k + 1][n] = Longer(n, G[k][n \div 32])
        BY <1>5, <3>2
      <4> QED BY <4>2, <4>3, <4>4
    <3> QED BY <3>1, <3>2
  <2> QED BY <2>1
<1>8. Nat \subseteq K
  <2> HIDE DEF K
  <2> QED BY <1>6, <1>7, CountingUp
<1>9. \A k \in Nat : \A n \in 0 .. k : G[k + 1][n] = G[k][n]
  BY <1>8
<1> HIDE DEF K
<1>10. ASSUME NEW q \in Nat, NEW d \in Nat PROVE G[q + d][q] = G[q][q]
  <2> DEFINE D == {e \in Nat : G[q + e][q] = G[q][q]}
  <2>1. 0 \in D
    OBVIOUS
  <2>2. ASSUME NEW e \in Nat, e \in D PROVE e + 1 \in D
    <3>1. q + e \in Nat /\ q \in 0 .. q + e /\ q + (e + 1) = (q + e) + 1
      OBVIOUS
    <3>2. G[(q + e) + 1][q] = G[q + e][q]
      BY <1>9, <3>1
    <3> QED BY <2>2, <3>1, <3>2
  <2>3. Nat \subseteq D
    <3> HIDE DEF D
    <3> QED BY <2>1, <2>2, CountingUp
  <2> QED BY <2>3
<1> DEFINE f == [n \in Nat |-> G[n][n]]
<1>11. f \in [Nat -> Word]
  <2>1. ASSUME NEW n \in Nat PROVE G[n][n] \in Word
    <3>1. G[n] \in Writers
      OBVIOUS
    <3> QED BY <3>1 DEF Writers
  <2> QED BY <2>1
<1>12. ASSUME NEW n \in Nat PROVE f[n] = Longer(n, f[n \div 32])
  <2>1. CASE n < 32
    <3>1. \A w : Longer(n, w) = <<n>>
      BY <2>1 DEF Longer
    <3>2. CASE n = 0
      BY <1>4, <3>1, <3>2 DEF s
    <3>3. CASE n # 0
      <4>1. n - 1 \in Nat /\ (n - 1) + 1 = n
        BY <3>3
      <4>2. G[n][n] = <<n>>
        BY <1>5, <2>1, <4>1
      <4> QED BY <3>1, <4>2
    <3> QED BY <3>2, <3>3
  <2>2. CASE n >= 32
    <3> DEFINE q == n \div 32
               d == (n - 1) - q
    <3>1. q \in Nat /\ d \in Nat /\ q + d = n - 1 /\ n - 1 \in Nat /\ (n - 1) + 1 = n
      <4>1. q \in Nat /\ q < n
        BY <2>2, Shifted
      <4> HIDE DEF q
      <4> QED BY <4>1
    <3>2. G[(n - 1) + 1][n] = Longer(n, G[n - 1][q])
      BY <1>5, <2>2, <3>1
    <3> HIDE DEF q, d
    <3>3. G[q + d][q] = G[q][q]
      BY <1>10, <3>1
    <3>4. f[n] = Longer(n, G[q][q])
      BY <3>1, <3>2, <3>3
    <3>5. f[q] = G[q][q]
      BY <3>1
    <3> QED BY <3>4, <3>5 DEF q
  <2> QED BY <2>1, <2>2
<1>13. f = [n \in Nat |-> Longer(n, f[n \div 32])]
  <2>1. f = [n \in Nat |-> f[n]]
    OBVIOUS
  <2> HIDE DEF f
  <2> QED BY <1>12, <2>1
<1> HIDE DEF f
<1> QED BY <1>11, <1>13 DEF Writers

\* The characters of a number, one by one.
LEMMA CharactersOf ==
  ASSUME NEW n \in Nat
  PROVE  /\ Characters[n] \in Word
         /\ n < 32 => Characters[n] = <<n>>
         /\ n >= 32 => Characters[n] = <<32 + (n % 32)>> \o Characters[n \div 32]
<1>1. Characters = [k \in Nat |-> Longer(k, Characters[k \div 32])]
  <2> DEFINE Is(f) == f = [k \in Nat |-> IF k < 32 THEN <<k>>
                                         ELSE <<32 + (k % 32)>> \o f[k \div 32]]
  <2>1. \E f : Is(f)
    BY CharactersExist DEF Longer
  <2>2. Characters = CHOOSE f : Is(f)
    BY DEF Characters
  <2> HIDE DEF Is
  <2>3. Is(Characters)
    BY <2>1, <2>2
  <2> QED BY <2>3 DEF Is, Longer
<1>2. \A k \in Nat : Characters[k] = Longer(k, Characters[k \div 32])
  <2> DEFINE C == Characters
  <2>1. C = [k \in Nat |-> Longer(k, C[k \div 32])]
    BY <1>1
  <2> HIDE DEF C
  <2>2. \A k \in Nat : C[k] = Longer(k, C[k \div 32])
    BY <2>1
  <2> QED BY <2>2 DEF C
<1> DEFINE C == Characters
<1>3. ASSUME NEW k \in Nat, k < 32 PROVE C[k] = <<k>>
  <2>1. \A w : Longer(k, w) = <<k>>
    BY <1>3 DEF Longer
  <2> QED BY <1>2, <2>1
<1>4. ASSUME NEW k \in Nat, k >= 32
      PROVE  /\ C[k] = Longer(k, C[k \div 32])
             /\ C[k] = <<32 + (k % 32)>> \o C[k \div 32]
  <2>1. \A w : Longer(k, w) = <<32 + (k % 32)>> \o w
    BY <1>4 DEF Longer
  <2> QED BY <1>2, <2>1
<1> HIDE DEF C
<1> DEFINE G == {k \in Nat : \A m \in 0 .. k : C[m] \in Word}
<1>5. 0 \in G
  <2>1. C[0] = <<0>>
    <3>1. 0 \in Nat /\ 0 < 32
      OBVIOUS
    <3> QED BY <1>3, <3>1
  <2>2. <<0>> \in Word
    BY DEF Word
  <2>3. \A m \in 0 .. 0 : m = 0
    OBVIOUS
  <2> QED BY <2>1, <2>2, <2>3
<1>6. ASSUME NEW k \in Nat, k \in G PROVE k + 1 \in G
  <2>1. C[k + 1] \in Word
    <3>1. CASE k + 1 < 32
      <4>1. C[k + 1] = <<k + 1>>
        BY <1>3, <3>1
      <4>2. <<k + 1>> \in Word
        BY DEF Word
      <4> QED BY <4>1, <4>2
    <3>2. CASE k + 1 >= 32
      <4>1. (k + 1) \div 32 \in 0 .. k
        BY <3>2, Shifted
      <4>2. C[(k + 1) \div 32] \in Word
        BY <1>6, <4>1
      <4> DEFINE m == k + 1
      <4>3. m \in Nat /\ m >= 32
        BY <3>2
      <4>4. C[m] = Longer(m, C[m \div 32])
        <5> HIDE DEF m
        <5> QED BY <1>4, <4>3
      <4> QED BY <4>2, <4>3, <4>4, LongerTyped
    <3> QED BY <3>1, <3>2
  <2>2. \A m \in 0 .. k + 1 : m \in 0 .. k \/ m = k + 1
    OBVIOUS
  <2> QED BY <1>6, <2>1, <2>2
<1>7. Nat \subseteq G
  <2> HIDE DEF G
  <2> QED BY <1>5, <1>6, CountingUp
<1>8. C[n] \in Word
  <2>1. n \in G /\ n \in 0 .. n
    BY <1>7
  <2> QED BY <2>1
<1> QED BY <1>3, <1>4, <1>8 DEF C

-----------------------------------------------------------------------------
(* What the decoder does with a character.                                 *)

Halves == {<<>>} \cup {<<d>> : d \in Int}
ReaderStates == [at : Int \X Int, half : Halves, value : Int, unit : Int,
                 points : Seq(Int \X Int), ok : BOOLEAN]

\* The decoder starts within its types.
LEMMA StartTyped == Start \in ReaderStates
BY DEF Start, ReaderStates, Halves

\* What a number stands for is whole.
LEMMA SignedTyped == ASSUME NEW n \in Int PROVE Signed(n) \in Int
BY DEF Signed

\* The decoder keeps to its types, whatever it reads.
LEMMA TakesTyped ==
  ASSUME NEW s \in ReaderStates, NEW n \in Int
  PROVE  Takes(s, n) \in ReaderStates
<1> DEFINE d == Signed(n)
<1>1. d \in Int
  BY SignedTyped
<1> HIDE DEF d
<1>2. CASE s.half = <<>>
  <2>1. <<d>> \in Halves
    BY <1>1 DEF Halves
  <2>2. [at |-> s.at, half |-> <<d>>, value |-> 0, unit |-> 1, points |-> s.points, ok |-> s.ok]
          \in ReaderStates
    BY <2>1 DEF ReaderStates
  <2> QED BY <1>2, <2>2 DEF Takes, Halfway, d
<1>3. CASE s.half # <<>>
  <2>1. s.at[1] \in Int /\ s.at[2] \in Int /\ s.half[1] \in Int /\ s.points \in Seq(Int \X Int)
    <3>1. PICK x \in Int : s.half = <<x>>
      BY <1>3 DEF ReaderStates, Halves
    <3> QED BY <3>1 DEF ReaderStates
  <2> DEFINE c == <<s.at[1] + s.half[1], s.at[2] + d>>
  <2>2. c \in Int \X Int
    BY <1>1, <2>1
  <2>3. (ValidCoordinate(c) /\ Len(s.points) < MaxPoints) \in BOOLEAN
    OBVIOUS
  <2> HIDE DEF c
  <2>4. Append(s.points, c) \in Seq(Int \X Int)
    BY <2>1, <2>2
  <2>5. <<>> \in Halves
    BY DEF Halves
  <2>6. Reaches(s, n) \in ReaderStates
    <3>1. Reaches(s, n) = [at |-> c, half |-> <<>>, value |-> 0, unit |-> 1,
                           points |-> Append(s.points, c),
                           ok |-> (ValidCoordinate(c) /\ Len(s.points) < MaxPoints)]
      BY DEF Reaches, c, d
    <3> QED BY <2>2, <2>3, <2>4, <2>5, <3>1 DEF ReaderStates
  <2> QED BY <1>3, <2>6 DEF Takes
<1> QED BY <1>2, <1>3

\* So it is with one character.
LEMMA ReadingTyped ==
  ASSUME NEW s \in ReaderStates, NEW c \in Nat
  PROVE  Reading(s, c) \in ReaderStates
<1> DEFINE n == s.value + (c % 32) * s.unit
<1>1. n \in Int
  <2>1. c % 32 \in Int /\ s.value \in Int /\ s.unit \in Int
    BY DEF ReaderStates
  <2> QED BY <2>1
<1> HIDE DEF n
<1>2. [s EXCEPT !.ok = FALSE] \in ReaderStates
  BY DEF ReaderStates
<1>3. Takes(s, n) \in ReaderStates
  BY <1>1, TakesTyped
<1>4. [s EXCEPT !.value = n, !.unit = 32 * s.unit] \in ReaderStates
  <2>1. 32 * s.unit \in Int
    BY DEF ReaderStates
  <2> QED BY <1>1, <2>1 DEF ReaderStates
<1>5. Reading(s, c) = IF ~s.ok \/ s.unit > 1073741824 THEN [s EXCEPT !.ok = FALSE]
                      ELSE IF c < 32 THEN Takes(s, n)
                      ELSE [s EXCEPT !.value = n, !.unit = 32 * s.unit]
  BY DEF Reading, n
<1> QED BY <1>2, <1>3, <1>4, <1>5

\* r is what the decoder goes through as it reads the code.
Runs(r, code) ==
  /\ r \in [0 .. Len(code) -> ReaderStates]
  /\ r[0] = Start
  /\ \A i \in 1 .. Len(code) : r[i] = Reading(r[i - 1], code[i])

\* The decoder is a run on every word.
LEMMA ReadsRuns ==
  ASSUME NEW code \in Word
  PROVE  Runs(Decoding(code), code)
<1> DEFINE L == Len(code)
           g == [p \in Nat \X ReaderStates |->
                   IF p[1] \in 1 .. L THEN Reading(p[2], code[p[1]]) ELSE p[2]]
<1>1. L \in Nat /\ \A i \in 1 .. L : code[i] \in Nat
  BY DEF Word
<1> HIDE DEF L
<1>2. g \in [Nat \X ReaderStates -> ReaderStates]
  <2>1. \A p \in Nat \X ReaderStates : p[1] \in Nat /\ p[2] \in ReaderStates
    OBVIOUS
  <2>2. \A p \in Nat \X ReaderStates :
          (IF p[1] \in 1 .. L THEN Reading(p[2], code[p[1]]) ELSE p[2]) \in ReaderStates
    BY <1>1, <2>1, ReadingTyped
  <2> QED BY <2>2
<1>3. ASSUME NEW i \in 1 .. L, NEW s \in ReaderStates PROVE g[<<i, s>>] = Reading(s, code[i])
  <2>1. i \in Nat
    BY <1>1
  <2> QED BY <2>1
<1> HIDE DEF g
<1>4. \E f \in [Nat -> ReaderStates] : Stepwise(f, Start, g)
  BY <1>2, StartTyped, Iterates
<1>5. PICK f \in [Nat -> ReaderStates] : Stepwise(f, Start, g)
  BY <1>4
<1> DEFINE h == [i \in 0 .. L |-> f[i]]
           Is(r) == r = [i \in 0 .. L |-> IF i = 0 THEN Start ELSE Reading(r[i - 1], code[i])]
<1>6. ASSUME NEW i \in 0 .. L
      PROVE  h[i] = IF i = 0 THEN Start ELSE Reading(h[i - 1], code[i])
  <2>1. CASE i = 0
    BY <1>5, <2>1 DEF Stepwise
  <2>2. CASE i # 0
    <3>1. i \in 1 .. L /\ i - 1 \in Nat /\ i - 1 \in 0 .. L /\ (i - 1) + 1 = i
      BY <1>1, <2>2
    <3>2. f[(i - 1) + 1] = g[<<(i - 1) + 1, f[i - 1]>>]
      BY <1>5, <3>1 DEF Stepwise
    <3>3. f[i - 1] \in ReaderStates
      BY <3>1
    <3>4. f[i] = Reading(f[i - 1], code[i])
      BY <1>3, <3>1, <3>2, <3>3
    <3> QED BY <2>2, <3>1, <3>4
  <2> QED BY <2>1, <2>2
<1>7. Is(h)
  <2>1. h = [i \in 0 .. L |-> h[i]]
    OBVIOUS
  <2> HIDE DEF h
  <2> QED BY <1>6, <2>1
<1>8. Is(Decoding(code))
  <2>1. Decoding(code) = CHOOSE r : Is(r)
    BY DEF Decoding, L
  <2> HIDE DEF Is, h
  <2> QED BY <1>7, <2>1
<1> DEFINE r == Decoding(code)
<1> HIDE DEF r
<1>9. Is(r)
  BY <1>8 DEF r
<1>10. /\ DOMAIN r = 0 .. L /\ r = [i \in 0 .. L |-> r[i]]
       /\ r[0] = Start
       /\ \A i \in 1 .. L : r[i] = Reading(r[i - 1], code[i])
  <2>1. r = [i \in 0 .. L |-> IF i = 0 THEN Start ELSE Reading(r[i - 1], code[i])]
    BY <1>9
  <2>2. DOMAIN r = 0 .. L /\ r = [i \in 0 .. L |-> r[i]]
    BY <2>1
  <2>3. \A i \in 0 .. L : r[i] = IF i = 0 THEN Start ELSE Reading(r[i - 1], code[i])
    BY <2>1
  <2>4. 0 \in 0 .. L /\ \A i \in 1 .. L : i \in 0 .. L /\ i # 0
    BY <1>1
  <2> QED BY <2>2, <2>3, <2>4
<1> DEFINE G == {i \in Nat : r[i] \in ReaderStates}
<1>11. 0 \in G
  BY <1>10, StartTyped
<1>12. ASSUME NEW i \in 0 .. L - 1, i \in G PROVE i + 1 \in G
  <2>1. i + 1 \in 1 .. L /\ i + 1 \in Nat /\ (i + 1) - 1 = i
    BY <1>1
  <2>2. r[i + 1] = Reading(r[i], code[i + 1])
    BY <1>10, <2>1
  <2>3. code[i + 1] \in Nat
    BY <1>1, <2>1
  <2> QED BY <1>12, <2>1, <2>2, <2>3, ReadingTyped
<1>13. \A i \in 0 .. L : r[i] \in ReaderStates
  <2>1. \A i \in 0 .. L : i \in G
    <3> HIDE DEF G
    <3> QED BY <1>1, <1>11, <1>12, CountingUpTo
  <2> QED BY <2>1
<1>14. r \in [0 .. L -> ReaderStates]
  BY <1>10, <1>13
<1> QED BY <1>10, <1>14 DEF Runs, L, r

-----------------------------------------------------------------------------
(* Numbers come back.                                                      *)

\* The word w stands in the code after its first p characters.
Written(code, p, w) ==
  p + Len(w) <= Len(code) /\ \A j \in 1 .. Len(w) : code[p + j] = w[j]

\* Words have lengths.
LEMMA WordLength == ASSUME NEW a \in Word PROVE Len(a) \in Nat
BY DEF Word

\* Two words are one.
LEMMA WordsJoin ==
  ASSUME NEW a \in Word, NEW b \in Word
  PROVE  Len(a \o b) = Len(a) + Len(b) /\ a \o b \in Word
BY DEF Word

\* Where two words stand one after the other, each stands.
LEMMA WrittenBoth ==
  ASSUME NEW code \in Word, NEW p \in Nat, NEW a \in Word, NEW b \in Word,
         Written(code, p, a \o b)
  PROVE  /\ Written(code, p, a) /\ Written(code, p + Len(a), b)
         /\ Len(a \o b) = Len(a) + Len(b) /\ p + Len(a) \in Nat
<1>1. /\ Len(a) \in Nat /\ Len(b) \in Nat /\ Len(code) \in Nat
      /\ Len(a \o b) = Len(a) + Len(b)
      /\ \A j \in 1 .. Len(a) : (a \o b)[j] = a[j]
      /\ \A j \in 1 .. Len(b) : (a \o b)[Len(a) + j] = b[j]
  BY DEF Word
<1>2. p + (Len(a) + Len(b)) <= Len(code)
  BY <1>1 DEF Written
<1>3. ASSUME NEW j \in 1 .. Len(a) PROVE code[p + j] = a[j]
  <2>1. j \in 1 .. Len(a \o b)
    BY <1>1
  <2> QED BY <1>1, <2>1 DEF Written
<1>4. ASSUME NEW j \in 1 .. Len(b) PROVE code[(p + Len(a)) + j] = b[j]
  <2>1. Len(a) + j \in 1 .. Len(a \o b) /\ p + (Len(a) + j) = (p + Len(a)) + j
    BY <1>1
  <2>2. code[p + (Len(a) + j)] = (a \o b)[Len(a) + j]
    BY <2>1 DEF Written
  <2> QED BY <1>1, <2>1, <2>2
<1>5. p + Len(a) <= Len(code) /\ (p + Len(a)) + Len(b) <= Len(code) /\ p + Len(a) \in Nat
  BY <1>1, <1>2
<1> QED BY <1>1, <1>3, <1>4, <1>5 DEF Written

\* What is still to be read of a number weighs as much as is left of it.
LEMMA Weighs ==
  ASSUME NEW n \in Nat, NEW q \in Nat, NEW m \in Nat, NEW u \in Nat, NEW v \in Int,
         n = 32 * q + m, q >= 1, u >= 1, u * n <= 1073741824
  PROVE  /\ 32 * u \in Nat /\ 32 * u >= 1 /\ 32 * u <= 1073741824
         /\ (32 * u) * q <= 1073741824
         /\ (v + m * u) + (32 * u) * q = v + u * n
<1>1. u * n = (32 * u) * q + m * u
  OBVIOUS
<1>2. m * u \in Nat /\ (32 * u) * q \in Nat
  OBVIOUS
<1>3. u * (q - 1) \in Nat
  <2>1. q - 1 \in Nat
    OBVIOUS
  <2> QED BY <2>1
<1>4. (32 * u) * q = 32 * (u * (q - 1)) + 32 * u
  OBVIOUS
<1> QED BY <1>1, <1>2, <1>3, <1>4

\* A reader that can take in the number n.
Ready(s, n) ==
  /\ s.ok /\ s.unit \in Nat /\ s.unit >= 1
  /\ s.unit <= 1073741824 /\ s.unit * n <= 1073741824

\* Between p and the end of the word w the reader r has read the number n.
NumberRead(r, p, w, n) ==
  /\ r[p + Len(w)] = Takes(r[p], r[p].value + r[p].unit * n)
  /\ \A j \in p .. p + Len(w) - 1 : r[j].points = r[p].points

\* Reading the five bits of a number that are not its last.
LEMMA ReadsOn ==
  ASSUME NEW s \in ReaderStates, NEW n \in Nat, n >= 32, Ready(s, n)
  PROVE  LET t == Reading(s, 32 + (n % 32)) IN
         /\ Ready(t, n \div 32) /\ t.points = s.points
         /\ Takes(t, t.value + t.unit * (n \div 32)) = Takes(s, s.value + s.unit * n)
<1> DEFINE q == n \div 32
           m == n % 32
           v == s.value + m * s.unit
           u == 32 * s.unit
           t == [s EXCEPT !.value = v, !.unit = u]
<1>1. q \in Nat /\ q >= 1 /\ m \in Nat /\ m < 32 /\ n = 32 * q + m
  BY Shifted
<1> HIDE DEF q, m
<1>2. (32 + m) % 32 = m /\ ~(32 + m < 32)
  BY <1>1
<1>3. Reading(s, 32 + m) = t
  <2>1. s.ok /\ ~(s.unit > 1073741824)
    BY DEF Ready
  <2> DEFINE c == 32 + m
  <2>2. c % 32 = m /\ ~(c < 32)
    BY <1>2
  <2> HIDE DEF c
  <2>3. Reading(s, c) = [s EXCEPT !.value = s.value + (c % 32) * s.unit, !.unit = 32 * s.unit]
    BY <2>1, <2>2 DEF Reading
  <2>4. Reading(s, c) = t
    BY <2>2, <2>3
  <2> QED BY <2>4 DEF c
<1>4. /\ u \in Nat /\ u >= 1 /\ u <= 1073741824
      /\ u * q <= 1073741824 /\ v + u * q = s.value + s.unit * n
  <2>1. s.value \in Int /\ s.unit \in Nat /\ s.unit >= 1 /\ s.unit * n <= 1073741824
    BY DEF Ready, ReaderStates
  <2> QED BY <1>1, <2>1, Weighs
<1> HIDE DEF u, v
<1>5. /\ t.value = v /\ t.unit = u /\ t.points = s.points /\ t.ok = s.ok
      /\ t.half = s.half /\ t.at = s.at
  BY DEF ReaderStates
<1>6. \A k : Takes(t, k) = Takes(s, k)
  <2>1. \A k : Halfway(t, k) = Halfway(s, k)
    BY DEF Halfway, ReaderStates
  <2>2. \A k : Reaches(t, k) = Reaches(s, k)
    <3> HIDE DEF t
    <3> QED BY <1>5 DEF Reaches
  <2> QED BY <1>5, <2>1, <2>2 DEF Takes
<1>7. s.ok
  BY DEF Ready
<1> HIDE DEF t
<1>8. Ready(t, q)
  BY <1>4, <1>5, <1>7 DEF Ready
<1>9. Takes(t, t.value + t.unit * q) = Takes(s, s.value + s.unit * n)
  BY <1>4, <1>5, <1>6
<1> QED BY <1>3, <1>5, <1>8, <1>9 DEF q, m

\* Reading the last five bits of a number.
LEMMA ReadsLast ==
  ASSUME NEW s \in ReaderStates, NEW n \in Nat, n < 32, Ready(s, n)
  PROVE  Reading(s, n) = Takes(s, s.value + s.unit * n)
<1>1. n % 32 = n
  OBVIOUS
<1>2. s.value \in Int /\ s.unit \in Int /\ s.ok /\ ~(s.unit > 1073741824)
  BY DEF Ready, ReaderStates
<1>3. n * s.unit = s.unit * n
  BY <1>2
<1> QED BY <1>1, <1>2, <1>3 DEF Reading

\* A number that stands in the code is read.
LEMMA ReadsNumber ==
  ASSUME NEW code \in Word, NEW r, Runs(r, code), NEW p \in Nat, NEW n \in Nat,
         Written(code, p, Characters[n]), Ready(r[p], n)
  PROVE  NumberRead(r, p, Characters[n], n)
<1> DEFINE C == Characters
           P(k) == \A o \in Nat :
                     Written(code, o, C[k]) /\ Ready(r[o], k) => NumberRead(r, o, C[k], k)
           G == {k \in Nat : \A m \in 0 .. k : P(m)}
<1>1. \A k \in Nat :
        /\ C[k] \in Word
        /\ k < 32 => C[k] = <<k>>
        /\ k >= 32 => C[k] = <<32 + (k % 32)>> \o C[k \div 32]
  BY CharactersOf
<1> HIDE DEF C
<1>2. Len(code) \in Nat /\ r \in [0 .. Len(code) -> ReaderStates]
  BY DEF Runs, Word
<1>3. ASSUME NEW k \in Nat, k < 32 PROVE P(k)
  <2> SUFFICES ASSUME NEW o \in Nat, Written(code, o, C[k]), Ready(r[o], k)
               PROVE  NumberRead(r, o, C[k], k)
    OBVIOUS
  <2>1. C[k] = <<k>> /\ Len(C[k]) = 1 /\ C[k][1] = k
    <3>1. C[k] = <<k>>
      BY <1>1, <1>3
    <3>2. Len(<<k>>) = 1 /\ <<k>>[1] = k
      OBVIOUS
    <3> QED BY <3>1, <3>2
  <2>2. o + 1 \in 1 .. Len(code) /\ code[o + 1] = k /\ (o + 1) - 1 = o /\ o \in 0 .. Len(code)
    BY <1>2, <2>1 DEF Written
  <2>3. r[o] \in ReaderStates /\ r[o + 1] = Reading(r[o], k)
    BY <1>2, <2>2 DEF Runs
  <2>4. r[o + 1] = Takes(r[o], r[o].value + r[o].unit * k)
    BY <1>3, <2>3, ReadsLast
  <2>5. \A j \in o .. (o + 1) - 1 : j = o
    OBVIOUS
  <2> QED BY <2>1, <2>4, <2>5 DEF NumberRead
<1>4. ASSUME NEW k \in Nat, k >= 32, P(k \div 32) PROVE P(k)
  <2> SUFFICES ASSUME NEW o \in Nat, Written(code, o, C[k]), Ready(r[o], k)
               PROVE  NumberRead(r, o, C[k], k)
    OBVIOUS
  <2> DEFINE q == k \div 32
             c == 32 + (k % 32)
             w == C[q]
             b == <<c>>
  <2>1. q \in Nat /\ c \in Nat
    BY <1>4, Shifted
  <2>2. C[k] = b \o w
    BY <1>1, <1>4
  <2>2a. w \in Word
    BY <1>1, <2>1
  <2> HIDE DEF q, c, w
  <2>2b. b \in Word /\ Len(b) = 1 /\ b[1] = c
    BY <2>1 DEF Word
  <2> HIDE DEF b
  <2>3. /\ Written(code, o, b) /\ Written(code, o + 1, w)
        /\ Len(C[k]) = 1 + Len(w)
    <3>1. Written(code, o, b \o w)
      BY <2>2
    <3>2. b \in Word /\ Len(b) = 1
      BY <2>2b
    <3>3. Written(code, o, b)
      BY <2>2a, <3>1, <3>2, WrittenBoth
    <3>4. Written(code, o + Len(b), w)
      BY <2>2a, <3>1, <3>2, WrittenBoth
    <3>5. Len(b \o w) = Len(b) + Len(w)
      BY <2>2a, <3>2, WordsJoin, Zenon
    <3> QED BY <2>2, <3>2, <3>3, <3>4, <3>5
  <2>4. o + 1 \in 1 .. Len(code) /\ code[o + 1] = c /\ (o + 1) - 1 = o /\ o \in 0 .. Len(code)
    <3>1. o + 1 <= Len(code) /\ \A j \in 1 .. 1 : code[o + j] = b[j]
      BY <2>2b, <2>3 DEF Written
    <3>2. code[o + 1] = c
      BY <2>2b, <3>1
    <3> QED BY <1>2, <3>1, <3>2
  <2>5. r[o] \in ReaderStates /\ r[o + 1] = Reading(r[o], c)
    BY <1>2, <2>4 DEF Runs
  <2>6. /\ Ready(r[o + 1], q) /\ r[o + 1].points = r[o].points
        /\ Takes(r[o + 1], r[o + 1].value + r[o + 1].unit * q)
             = Takes(r[o], r[o].value + r[o].unit * k)
    BY <1>4, <2>5, ReadsOn DEF q, c
  <2>7. NumberRead(r, o + 1, w, q)
    <3>1. o + 1 \in Nat /\ P(q)
      BY <1>4 DEF q
    <3> QED BY <2>3, <2>6, <3>1 DEF w
  <2>8. Len(w) \in Nat /\ (o + 1) + Len(w) = o + Len(C[k])
    <3>1. Len(w) \in Nat
      BY <2>2a, WordLength
    <3>2. Len(C[k]) = 1 + Len(w)
      BY <2>3
    <3> QED BY <3>1, <3>2
  <2>9. r[o + Len(C[k])] = Takes(r[o], r[o].value + r[o].unit * k)
    BY <2>6, <2>7, <2>8 DEF NumberRead
  <2>10. ASSUME NEW j \in o .. o + Len(C[k]) - 1 PROVE r[j].points = r[o].points
    <3>1. CASE j = o
      BY <3>1
    <3>2. CASE j # o
      <4>1. j \in (o + 1) .. (o + 1) + Len(w) - 1
        BY <2>3, <2>8, <3>2
      <4>2. r[j].points = r[o + 1].points
        BY <2>7, <4>1 DEF NumberRead
      <4> QED BY <2>6, <4>2
    <3> QED BY <3>1, <3>2
  <2> QED BY <2>9, <2>10 DEF NumberRead
<1> HIDE DEF P
<1>5. 0 \in G
  <2>1. 0 \in Nat /\ 0 < 32 /\ \A m \in 0 .. 0 : m = 0
    OBVIOUS
  <2>2. P(0)
    BY <1>3, <2>1
  <2> QED BY <2>1, <2>2
<1>6. ASSUME NEW k \in Nat, k \in G PROVE k + 1 \in G
  <2>1. P(k + 1)
    <3> DEFINE m == k + 1
    <3>1. CASE m < 32
      <4>1. m \in Nat
        OBVIOUS
      <4> HIDE DEF m
      <4>2. P(m)
        BY <1>3, <3>1, <4>1
      <4> QED BY <4>2 DEF m
    <3>2. CASE ~(m < 32)
      <4>1. m \in Nat /\ m >= 32
        BY <3>2
      <4>2. m \div 32 \in 0 .. k
        BY <4>1, Shifted
      <4>3. P(m \div 32)
        BY <1>6, <4>2
      <4> HIDE DEF m
      <4>4. P(m)
        BY <1>4, <4>1, <4>3
      <4> QED BY <4>4 DEF m
    <3> QED BY <3>1, <3>2
  <2>2. \A m \in 0 .. k + 1 : m \in 0 .. k \/ m = k + 1
    OBVIOUS
  <2> QED BY <1>6, <2>1, <2>2
<1>7. Nat \subseteq G
  <2> HIDE DEF G
  <2> QED BY <1>5, <1>6, CountingUp
<1>8. P(n)
  <2>1. n \in G /\ n \in 0 .. n
    BY <1>7
  <2> QED BY <2>1
<1> QED BY <1>8 DEF P, C

-----------------------------------------------------------------------------
(* Points come back.                                                       *)

\* No two coordinates are further apart.
InReach(v) == v \in Int /\ -36000000 <= v /\ v <= 36000000

\* A difference of two coordinates is written as a number that gives it back.
LEMMA SignedBack ==
  ASSUME NEW v, InReach(v)
  PROVE  \E n \in Nat : n <= 1073741824 /\ Put(v) = Characters[n] /\ Signed(n) = v
<1>0. v \in Int /\ -36000000 <= v /\ v <= 36000000
  BY DEF InReach
<1> DEFINE n == IF v < 0 THEN -2 * v - 1 ELSE 2 * v
<1>1. Put(v) = Characters[n]
  BY DEF Put
<1>2. n \in Nat /\ n <= 1073741824 /\ Signed(n) = v
  <2>1. CASE v < 0
    <3>1. n = -2 * v - 1
      BY <2>1
    <3> HIDE DEF n
    <3>2. n \in Nat /\ n <= 1073741824 /\ n % 2 = 1 /\ n \div 2 = -v - 1
      BY <1>0, <2>1, <3>1
    <3>3. Signed(n) = -(n \div 2) - 1
      BY <3>2 DEF Signed
    <3> QED BY <1>0, <3>2, <3>3
  <2>2. CASE v >= 0
    <3>1. n = 2 * v
      <4>1. ~(v < 0)
        BY <1>0, <2>2
      <4> QED BY <4>1
    <3> HIDE DEF n
    <3>2. n \in Nat /\ n <= 1073741824 /\ n % 2 = 0 /\ n \div 2 = v
      BY <1>0, <2>2, <3>1
    <3>3. Signed(n) = n \div 2
      BY <3>2 DEF Signed
    <3> QED BY <1>0, <3>2, <3>3
  <2> QED BY <1>0, <2>1, <2>2
<1> HIDE DEF n
<1> QED BY <1>1, <1>2

\* A reader between two points.
Arrived(c, pts, k) ==
  [at |-> c, half |-> <<>>, value |-> 0, unit |-> 1, points |-> pts, ok |-> k]

\* The reader that has reached the i-th point of the route R.
Reached(R, i) == Arrived(IF i = 0 THEN <<0, 0>> ELSE R[i], SubSeq(R, 1, i), TRUE)

\* The points of a route are valid, and so is the origin.
LEMMA PointOf ==
  ASSUME NEW R \in Seq(Coordinates), NEW i \in 0 .. Len(R)
  PROVE  LET c == Reached(R, i).at IN c \in Int \X Int /\ ValidCoordinate(c)
<1>1. CASE i = 0
  <2>1. <<0, 0>> \in Int \X Int /\ ValidCoordinate(<<0, 0>>)
    BY DEF ValidCoordinate
  <2> QED BY <1>1, <2>1 DEF Reached, Arrived
<1>2. CASE i # 0
  <2>1. R[i] \in Coordinates
    BY <1>2
  <2>2. R[i] \in Int \X Int /\ ValidCoordinate(R[i])
    BY <2>1, PolylineAssumption
  <2> QED BY <1>2, <2>2 DEF Reached, Arrived
<1> QED BY <1>1, <1>2

\* Two valid coordinates are no further apart than the poles and the date line.
LEMMA Near ==
  ASSUME NEW c \in Int \X Int, ValidCoordinate(c)
  PROVE  /\ c[1] \in Int /\ -18000000 <= c[1] /\ c[1] <= 18000000
         /\ c[2] \in Int /\ -18000000 <= c[2] /\ c[2] <= 18000000
<1>1. c[1] \in Int /\ c[2] \in Int
  OBVIOUS
<1>2. -9000000 <= c[1] /\ c[1] <= 9000000 /\ -18000000 <= c[2] /\ c[2] <= 18000000
  BY DEF ValidCoordinate
<1> QED BY <1>1, <1>2

\* Two numbers that are near zero are near each other.
LEMMA Apart ==
  ASSUME NEW k \in Int, NEW l \in Int, -18000000 <= k, k <= 18000000,
         -18000000 <= l, l <= 18000000
  PROVE  k - l \in Int /\ -36000000 <= k - l /\ k - l <= 36000000
OBVIOUS

\* So it is with the coordinates of two points.
LEMMA FarApart ==
  ASSUME NEW c \in Int \X Int, ValidCoordinate(c), NEW d \in Int \X Int, ValidCoordinate(d)
  PROVE  InReach(d[1] - c[1]) /\ InReach(d[2] - c[2])
BY Near, Apart DEF InReach

\* One point more.
LEMMA OneMore ==
  ASSUME NEW R \in Seq(Coordinates), NEW i \in 1 .. Len(R)
  PROVE  /\ Append(SubSeq(R, 1, i - 1), R[i]) = SubSeq(R, 1, i)
         /\ Len(SubSeq(R, 1, i - 1)) = i - 1
OBVIOUS

\* The reader s takes in the number m as h, and n as one that has reached y.
TakesBoth(s, h, y, pts, m, n) ==
  /\ h = Takes(s, s.value + s.unit * m)
  /\ h.points = pts /\ h.ok = TRUE /\ h.unit = 1
  /\ Takes(h, h.value + h.unit * n)
       = Arrived(y, Append(pts, y), ValidCoordinate(y) /\ Len(pts) < MaxPoints)

\* Two numbers take a reader from a point to the next.
LEMMA TwoNumbers ==
  ASSUME NEW x \in Int \X Int, NEW y \in Int \X Int, NEW pts \in Seq(Int \X Int),
         NEW m \in Nat, NEW n \in Nat, Signed(m) = y[1] - x[1], Signed(n) = y[2] - x[2],
         NEW s, s = Arrived(x, pts, TRUE)
  PROVE  \E h : TakesBoth(s, h, y, pts, m, n)
<1> DEFINE d == y[1] - x[1]
           one == <<d>>
           g == [at |-> x, half |-> one, value |-> 0, unit |-> 1, points |-> pts, ok |-> TRUE]
<1>1. /\ s.value + s.unit * m = m
      /\ s.at = x /\ s.points = pts /\ s.ok = TRUE /\ s.half = <<>>
  <2>1. /\ s.at = x /\ s.points = pts /\ s.ok = TRUE /\ s.half = <<>>
        /\ s.value = 0 /\ s.unit = 1
    <3> DEFINE t == Arrived(x, pts, TRUE)
    <3>1. t.at = x /\ t.points = pts
      BY DEF Arrived
    <3>2. t.ok = TRUE /\ t.half = <<>>
      BY DEF Arrived
    <3>3. t.value = 0 /\ t.unit = 1
      BY DEF Arrived
    <3>4. s = t
      OBVIOUS
    <3> HIDE DEF t
    <3> QED BY <3>1, <3>2, <3>3, <3>4
  <2>2. 0 + 1 * m = m
    OBVIOUS
  <2> QED BY <2>1, <2>2
<1>2. Takes(s, m) = g
  <2>1. Takes(s, m) = Halfway(s, m)
    BY <1>1 DEF Takes
  <2>2. Halfway(s, m) = g
    BY <1>1 DEF Halfway
  <2> QED BY <2>1, <2>2
<1>3. /\ g.value + g.unit * n = n
      /\ g.points = pts /\ g.ok = TRUE /\ g.unit = 1
  OBVIOUS
<1>4. Takes(g, n) = Arrived(y, Append(pts, y), ValidCoordinate(y) /\ Len(pts) < MaxPoints)
  <2>1. Takes(g, n) = Reaches(g, n)
    <3>1. g.half # <<>>
      OBVIOUS
    <3> QED BY <3>1 DEF Takes
  <2>2. <<g.at[1] + g.half[1], g.at[2] + Signed(n)>> = y
    <3>1. g.at = x /\ g.half[1] = d
      OBVIOUS
    <3>2. y = <<y[1], y[2]>> /\ y[1] \in Int /\ y[2] \in Int /\ x[1] \in Int /\ x[2] \in Int
      OBVIOUS
    <3>3. x[1] + d = y[1] /\ x[2] + Signed(n) = y[2]
      BY <3>2
    <3> QED BY <3>1, <3>2, <3>3
  <2> HIDE DEF g
  <2> QED BY <1>3, <2>1, <2>2 DEF Reaches, Arrived
<1> HIDE DEF g
<1>5. g = Takes(s, s.value + s.unit * m)
  BY <1>1, <1>2
<1>6. Takes(g, g.value + g.unit * n) = Takes(g, n)
  BY <1>3
<1> QED BY <1>3, <1>4, <1>5, <1>6 DEF TakesBoth

\* The i-th point of the route is written as the numbers m and n.
PointAs(R, i, m, n) ==
  LET x == Reached(R, i - 1).at
      y == Reached(R, i).at
  IN /\ m <= 1073741824 /\ n <= 1073741824
     /\ PutPoint(R, i) = Characters[m] \o Characters[n]
     /\ Signed(m) = y[1] - x[1] /\ Signed(n) = y[2] - x[2]

\* Each point of a route is written so.
LEMMA PointWritten ==
  ASSUME NEW R \in Seq(Coordinates), NEW i \in 1 .. Len(R)
  PROVE  \E m \in Nat, n \in Nat : PointAs(R, i, m, n)
<1> DEFINE x == Reached(R, i - 1).at
           y == Reached(R, i).at
           v == y[1] - x[1]
           w == y[2] - x[2]
<1>1. x \in Int \X Int /\ ValidCoordinate(x) /\ y \in Int \X Int /\ ValidCoordinate(y)
  <2>1. i - 1 \in 0 .. Len(R) /\ i \in 0 .. Len(R)
    OBVIOUS
  <2> QED BY <2>1, PointOf
<1>2. y = R[i] /\ x = IF i = 1 THEN <<0, 0>> ELSE R[i - 1]
  BY DEF Reached, Arrived
<1>3. PutPoint(R, i) = Put(v) \o Put(w)
  BY <1>2 DEF PutPoint
<1> HIDE DEF x, y
<1>4. InReach(v) /\ InReach(w)
  BY <1>1, FarApart, Zenon
<1> HIDE DEF v, w
<1>5. PICK m \in Nat : m <= 1073741824 /\ Put(v) = Characters[m] /\ Signed(m) = v
  BY <1>4, SignedBack
<1>6. PICK n \in Nat : n <= 1073741824 /\ Put(w) = Characters[n] /\ Signed(n) = w
  BY <1>4, SignedBack
<1>7. PutPoint(R, i) = Characters[m] \o Characters[n]
  BY <1>3, <1>5, <1>6
<1>8. Signed(m) = y[1] - x[1] /\ Signed(n) = y[2] - x[2]
  BY <1>5, <1>6 DEF v, w
<1>9. PointAs(R, i, m, n)
  BY <1>5, <1>6, <1>7, <1>8 DEF PointAs, x, y
<1> QED BY <1>9

\* And what is written is a word.
LEMMA PutPointTyped ==
  ASSUME NEW R \in Seq(Coordinates), NEW i \in 1 .. Len(R)
  PROVE  PutPoint(R, i) \in Word
<1>1. PICK m \in Nat, n \in Nat : PointAs(R, i, m, n)
  BY PointWritten
<1>2. PutPoint(R, i) = Characters[m] \o Characters[n]
  BY <1>1 DEF PointAs
<1> QED BY <1>2, CharactersOf, WordsJoin

\* Between p and e the reader r reads the i-th point of the route.
PointRead(r, R, i, p, e) ==
  /\ r[e].ok <=> i <= MaxPoints
  /\ i <= MaxPoints => r[e] = Reached(R, i)
  /\ \A j \in p .. e - 1 : r[j].points = SubSeq(R, 1, i - 1)

\* Where the i-th point of the route stands in the code, a reader that has
\* reached the one before goes on to it.
LEMMA ReadsPoint ==
  ASSUME NEW code \in Word, NEW r, Runs(r, code), NEW R \in Seq(Coordinates),
         NEW i \in 1 .. Len(R), NEW p \in Nat, r[p] = Reached(R, i - 1),
         Written(code, p, PutPoint(R, i))
  PROVE  PointRead(r, R, i, p, p + Len(PutPoint(R, i)))
<1> DEFINE x == Reached(R, i - 1).at
           y == Reached(R, i).at
           pts == SubSeq(R, 1, i - 1)
<1>1. /\ x \in Int \X Int /\ ValidCoordinate(x) /\ y \in Int \X Int /\ ValidCoordinate(y)
      /\ i - 1 \in 0 .. Len(R) /\ i \in 0 .. Len(R)
  BY PointOf
<1>2. y = R[i] /\ x = IF i = 1 THEN <<0, 0>> ELSE R[i - 1]
  BY DEF Reached, Arrived
<1>3. pts \in Seq(Int \X Int)
  <2>1. pts \in Seq(Coordinates)
    OBVIOUS
  <2>2. Coordinates \subseteq Int \X Int
    BY PolylineAssumption
  <2> HIDE DEF pts
  <2> QED BY <2>1, <2>2
<1>4. /\ Append(pts, y) = SubSeq(R, 1, i) /\ Len(pts) = i - 1
  BY <1>2, OneMore
<1>5. r[p] = Arrived(x, pts, TRUE)
  BY DEF Reached, Arrived
<1>6. Reached(R, i) = Arrived(y, Append(pts, y), TRUE)
  BY <1>4 DEF Reached, Arrived
<1> HIDE DEF pts
<1>7. PICK m \in Nat, n \in Nat : PointAs(R, i, m, n)
  BY PointWritten
<1>8. /\ m <= 1073741824 /\ n <= 1073741824
      /\ PutPoint(R, i) = Characters[m] \o Characters[n]
      /\ Signed(m) = y[1] - x[1] /\ Signed(n) = y[2] - x[2]
  BY <1>7 DEF PointAs
<1> HIDE DEF x, y
<1> DEFINE a == Characters[m]
           b == Characters[n]
           o == p + Len(a)
           e == o + Len(b)
<1>11. a \in Word /\ b \in Word
  BY CharactersOf
<1>12. PutPoint(R, i) = a \o b
  BY <1>8
<1> HIDE DEF a, b
<1>13. /\ Written(code, p, a) /\ Written(code, o, b) /\ o \in Nat
       /\ Len(PutPoint(R, i)) = Len(a) + Len(b) /\ PutPoint(R, i) \in Word
  BY <1>11, <1>12, WrittenBoth, WordsJoin
<1>14. Ready(r[p], m)
  <2>1. r[p].ok /\ r[p].unit = 1
    BY <1>5 DEF Arrived
  <2>2. 1 * m = m
    OBVIOUS
  <2> QED BY <1>8, <2>1, <2>2 DEF Ready
<1>15. NumberRead(r, p, a, m)
  BY <1>13, <1>14, ReadsNumber DEF a
<1>15a. PICK h : TakesBoth(r[p], h, y, pts, m, n)
  <2>1. Signed(m) = y[1] - x[1] /\ Signed(n) = y[2] - x[2]
    BY <1>8
  <2>2. \E h : TakesBoth(r[p], h, y, pts, m, n)
    BY <1>1, <1>3, <1>5, <2>1, TwoNumbers
  <2> QED BY <2>2
<1>16. /\ h = Takes(r[p], r[p].value + r[p].unit * m)
       /\ h.points = pts /\ h.ok = TRUE /\ h.unit = 1
       /\ Takes(h, h.value + h.unit * n)
            = Arrived(y, Append(pts, y), ValidCoordinate(y) /\ Len(pts) < MaxPoints)
  BY <1>15a DEF TakesBoth
<1>17. r[p].points = pts
  BY <1>5 DEF Arrived
<1>19. r[o] = h
  BY <1>15, <1>16 DEF NumberRead
<1>20. Ready(r[o], n)
  <2>1. r[o].ok /\ r[o].unit = 1
    BY <1>16, <1>19
  <2>2. 1 * n = n
    OBVIOUS
  <2> QED BY <1>8, <2>1, <2>2 DEF Ready
<1>21. NumberRead(r, o, b, n)
  BY <1>13, <1>20, ReadsNumber DEF b
<1>22. r[e] = Takes(h, h.value + h.unit * n)
  BY <1>19, <1>21 DEF NumberRead
<1>23. (ValidCoordinate(y) /\ Len(pts) < MaxPoints) <=> i <= MaxPoints
  <2>1. Len(pts) < MaxPoints <=> i <= MaxPoints
    BY <1>4, PolylineAssumption
  <2> QED BY <1>1, <2>1
<1>24. r[e].ok <=> i <= MaxPoints
  <2>1. r[e].ok = (ValidCoordinate(y) /\ Len(pts) < MaxPoints)
    BY <1>16, <1>22 DEF Arrived
  <2> QED BY <1>23, <2>1
<1>25. i <= MaxPoints => r[e] = Reached(R, i)
  <2> SUFFICES ASSUME i <= MaxPoints PROVE r[e] = Reached(R, i)
    OBVIOUS
  <2>1. (ValidCoordinate(y) /\ Len(pts) < MaxPoints) = TRUE
    BY <1>23
  <2> QED BY <1>6, <1>16, <1>22, <2>1
<1>26. Len(a) \in Nat /\ Len(b) \in Nat
  BY <1>11 DEF Word
<1>27. ASSUME NEW j \in p .. e - 1 PROVE r[j].points = pts
  <2>1. CASE j < o
    <3>1. j \in p .. p + Len(a) - 1
      BY <1>26, <2>1
    <3> QED BY <1>15, <1>17, <3>1 DEF NumberRead
  <2>2. CASE ~(j < o)
    <3>1. j \in o .. o + Len(b) - 1
      BY <1>13, <1>26, <2>2
    <3> QED BY <1>16, <1>19, <1>21, <3>1 DEF NumberRead
  <2> QED BY <2>1, <2>2
<1>28. p + Len(PutPoint(R, i)) = e
  BY <1>13, <1>26
<1> HIDE DEF e
<1> QED BY <1>24, <1>25, <1>27, <1>28 DEF pts, PointRead

-----------------------------------------------------------------------------
(* Routes come back.                                                       *)

\* k holds the code of the first i points of the route, for every i.
Codes(k, R) ==
  /\ k \in [0 .. Len(R) -> Word] /\ k[0] = <<>>
  /\ \A i \in 1 .. Len(R) : k[i] = k[i - 1] \o PutPoint(R, i)

\* There are such codes, and the last is the polyline.
LEMMA CodesExist ==
  ASSUME NEW R \in Seq(Coordinates)
  PROVE  \E k : Codes(k, R) /\ k[Len(R)] = EncodePolyline(R)
<1> DEFINE L == Len(R)
           g == [p \in Nat \X Word |->
                   IF p[1] \in 1 .. L THEN p[2] \o PutPoint(R, p[1]) ELSE p[2]]
           none == <<>>
           Is(k) == k = [i \in 0 .. L |-> IF i = 0 THEN <<>> ELSE k[i - 1] \o PutPoint(R, i)]
<1>1. L \in Nat /\ none \in Word
  BY DEF Word
<1>2. \A i \in 1 .. L : PutPoint(R, i) \in Word
  BY PutPointTyped
<1> HIDE DEF L, none
<1>3. g \in [Nat \X Word -> Word]
  <2>1. \A p \in Nat \X Word : p[1] \in Nat /\ p[2] \in Word
    OBVIOUS
  <2>2. \A p \in Nat \X Word :
          (IF p[1] \in 1 .. L THEN p[2] \o PutPoint(R, p[1]) ELSE p[2]) \in Word
    BY <1>2, <2>1, WordsJoin
  <2> QED BY <2>2
<1>4. ASSUME NEW i \in 1 .. L, NEW w \in Word PROVE g[<<i, w>>] = w \o PutPoint(R, i)
  <2>1. i \in Nat
    BY <1>1
  <2> QED BY <2>1
<1> HIDE DEF g
<1>5. \E f \in [Nat -> Word] : Stepwise(f, none, g)
  BY <1>1, <1>3, Iterates
<1>6. PICK f \in [Nat -> Word] : Stepwise(f, none, g)
  BY <1>5
<1> DEFINE h == [i \in 0 .. L |-> f[i]]
<1>7. ASSUME NEW i \in 0 .. L
      PROVE  h[i] = IF i = 0 THEN <<>> ELSE h[i - 1] \o PutPoint(R, i)
  <2>1. CASE i = 0
    BY <1>6, <2>1 DEF Stepwise, none
  <2>2. CASE i # 0
    <3>1. i \in 1 .. L /\ i - 1 \in Nat /\ i - 1 \in 0 .. L /\ (i - 1) + 1 = i
      BY <1>1, <2>2
    <3>2. f[(i - 1) + 1] = g[<<(i - 1) + 1, f[i - 1]>>]
      BY <1>6, <3>1 DEF Stepwise
    <3>3. f[i - 1] \in Word
      BY <3>1
    <3>4. f[i] = f[i - 1] \o PutPoint(R, i)
      BY <1>4, <3>1, <3>2, <3>3
    <3> QED BY <2>2, <3>1, <3>4
  <2> QED BY <2>1, <2>2
<1>8. Is(h)
  <2>1. h = [i \in 0 .. L |-> h[i]]
    OBVIOUS
  <2> HIDE DEF h
  <2> QED BY <1>7, <2>1
<1> DEFINE k == CHOOSE c : Is(c)
<1>9. EncodePolyline(R) = k[L]
  BY DEF EncodePolyline, L
<1>10. Is(k)
  <2> HIDE DEF Is, h
  <2> QED BY <1>8
<1> HIDE DEF k
<1>11. /\ k = [i \in 0 .. L |-> k[i]] /\ k[0] = none
       /\ \A i \in 1 .. L : k[i] = k[i - 1] \o PutPoint(R, i)
  <2>1. k = [i \in 0 .. L |-> IF i = 0 THEN <<>> ELSE k[i - 1] \o PutPoint(R, i)]
    BY <1>10
  <2>2. k = [i \in 0 .. L |-> k[i]]
    BY <2>1
  <2>3. \A i \in 0 .. L : k[i] = IF i = 0 THEN <<>> ELSE k[i - 1] \o PutPoint(R, i)
    BY <2>1
  <2>4. 0 \in 0 .. L /\ \A i \in 1 .. L : i \in 0 .. L /\ i # 0
    BY <1>1
  <2> QED BY <2>2, <2>3, <2>4 DEF none
<1> HIDE DEF Is
<1> DEFINE G == {i \in Nat : k[i] \in Word}
<1>12. 0 \in G
  BY <1>1, <1>11
<1>13. ASSUME NEW i \in 0 .. L - 1, i \in G PROVE i + 1 \in G
  <2>1. i + 1 \in 1 .. L /\ i + 1 \in Nat /\ (i + 1) - 1 = i
    BY <1>1
  <2>2. k[i + 1] = k[i] \o PutPoint(R, i + 1)
    BY <1>11, <2>1
  <2> QED BY <1>2, <1>13, <2>1, <2>2, WordsJoin
<1>14. \A i \in 0 .. L : k[i] \in Word
  <2>1. \A i \in 0 .. L : i \in G
    <3> HIDE DEF G
    <3> QED BY <1>1, <1>12, <1>13, CountingUpTo
  <2> QED BY <2>1
<1>15. k \in [0 .. L -> Word]
  BY <1>11, <1>14
<1>16. Codes(k, R)
  BY <1>11, <1>15 DEF Codes, L, none
<1> QED BY <1>9, <1>16 DEF L

\* The code of the first points stands at the beginning of the code, and that
\* of the next point after it.
LEMMA CodesStand ==
  ASSUME NEW R \in Seq(Coordinates), NEW k, Codes(k, R), NEW i \in 0 .. Len(R)
  PROVE  /\ k[i] \in Word /\ Len(k[i]) \in Nat /\ Len(k[i]) <= Len(k[Len(R)])
         /\ i # Len(R) => /\ Written(k[Len(R)], Len(k[i]), PutPoint(R, i + 1))
                          /\ Len(k[i + 1]) = Len(k[i]) + Len(PutPoint(R, i + 1))
<1> DEFINE L == Len(R)
           code == k[L]
           G == {d \in Nat : d <= L => Written(code, 0, k[L - d])}
<1>1. L \in Nat /\ \A j \in 0 .. L : k[j] \in Word
  <2>1. L \in Nat
    OBVIOUS
  <2>2. k \in [0 .. L -> Word]
    BY DEF Codes
  <2> QED BY <2>1, <2>2
<1>2. code \in Word /\ Len(code) \in Nat /\ \A j \in 0 .. L : Len(k[j]) \in Nat
  BY <1>1 DEF Word
<1>3. \A j \in 0 .. L : j # L => /\ j + 1 \in 1 .. L /\ (j + 1) - 1 = j /\ j + 1 \in 0 .. L
                              /\ k[j + 1] = k[j] \o PutPoint(R, j + 1)
                              /\ PutPoint(R, j + 1) \in Word
  <2> SUFFICES ASSUME NEW j \in 0 .. L, j # L
               PROVE  /\ j + 1 \in 1 .. L /\ (j + 1) - 1 = j /\ j + 1 \in 0 .. L
                      /\ k[j + 1] = k[j] \o PutPoint(R, j + 1)
                      /\ PutPoint(R, j + 1) \in Word
    OBVIOUS
  <2>1. j + 1 \in 1 .. L /\ (j + 1) - 1 = j /\ j + 1 \in 0 .. L
    BY <1>1
  <2>2. k[j + 1] = k[(j + 1) - 1] \o PutPoint(R, j + 1)
    BY <2>1 DEF Codes
  <2> QED BY <2>1, <2>2, PutPointTyped
<1> HIDE DEF L, code
<1>4. 0 \in G
  <2>1. L - 0 = L
    BY <1>1
  <2>2. Written(code, 0, code)
    BY <1>2 DEF Written
  <2> QED BY <2>1, <2>2 DEF code
<1>5. ASSUME NEW d \in Nat, d \in G PROVE d + 1 \in G
  <2> SUFFICES ASSUME d + 1 <= L PROVE Written(code, 0, k[L - (d + 1)])
    OBVIOUS
  <2> DEFINE j == L - (d + 1)
  <2>1. j \in 0 .. L /\ j # L /\ L - d = j + 1 /\ d <= L
    BY <1>1
  <2>2. Written(code, 0, k[j + 1])
    BY <1>5, <2>1
  <2> HIDE DEF j
  <2>3. Written(code, 0, k[j] \o PutPoint(R, j + 1))
    BY <1>3, <2>1, <2>2
  <2>4. Written(code, 0, k[j])
    BY <1>1, <1>2, <1>3, <2>1, <2>3, WrittenBoth
  <2> QED BY <2>4 DEF j
<1>6. Nat \subseteq G
  <2> HIDE DEF G
  <2> QED BY <1>4, <1>5, CountingUp
<1>7. \A j \in 0 .. L : Written(code, 0, k[j])
  <2> SUFFICES ASSUME NEW j \in 0 .. L PROVE Written(code, 0, k[j])
    OBVIOUS
  <2>1. L - j \in Nat /\ L - j <= L /\ L - (L - j) = j
    BY <1>1
  <2>2. L - j \in G
    BY <1>6, <2>1
  <2> QED BY <2>1, <2>2
<1> HIDE DEF G
<1>8. i \in 0 .. L
  BY DEF L
<1>9. k[i] \in Word /\ Len(k[i]) \in Nat /\ Len(k[i]) <= Len(code)
  <2>1. Written(code, 0, k[i])
    BY <1>7, <1>8
  <2>2. 0 + Len(k[i]) <= Len(code)
    BY <2>1 DEF Written
  <2> QED BY <1>1, <1>2, <1>8, <2>2
<1>10. ASSUME i # L
       PROVE  /\ Written(code, Len(k[i]), PutPoint(R, i + 1))
              /\ Len(k[i + 1]) = Len(k[i]) + Len(PutPoint(R, i + 1))
  <2>1. Written(code, 0, k[i] \o PutPoint(R, i + 1))
    BY <1>3, <1>7, <1>8, <1>10
  <2>2. /\ Written(code, 0 + Len(k[i]), PutPoint(R, i + 1))
        /\ Len(k[i] \o PutPoint(R, i + 1)) = Len(k[i]) + Len(PutPoint(R, i + 1))
    BY <1>1, <1>2, <1>3, <1>8, <1>10, <2>1, WrittenBoth, WordsJoin
  <2>3. 0 + Len(k[i]) = Len(k[i])
    BY <1>9
  <2> QED BY <1>3, <1>8, <1>10, <2>2, <2>3
<1> QED BY <1>9, <1>10 DEF L, code

\* A reader that has refused something refuses what follows.
LEMMA StaysRefused ==
  ASSUME NEW code \in Word, NEW r, Runs(r, code), NEW j \in 0 .. Len(code), ~r[j].ok,
         NEW n \in j .. Len(code)
  PROVE  ~r[n].ok
<1> DEFINE L == Len(code)
           G == {d \in Nat : j + d <= L => ~r[j + d].ok}
<1>1. L \in Nat /\ j \in Nat /\ j <= L /\ n \in Nat /\ j <= n /\ n <= L
  BY DEF Word
<1> HIDE DEF L
<1>2. 0 \in G
  <2>1. j + 0 = j
    BY <1>1
  <2> QED BY <2>1
<1>3. ASSUME NEW d \in Nat, d \in G PROVE d + 1 \in G
  <2> SUFFICES ASSUME j + (d + 1) <= L PROVE ~r[j + (d + 1)].ok
    OBVIOUS
  <2> DEFINE m == j + d
  <2>1. m \in 0 .. L /\ m <= L /\ m + 1 \in 1 .. L /\ (m + 1) - 1 = m /\ j + (d + 1) = m + 1
    BY <1>1
  <2>2. ~r[m].ok
    BY <1>3, <2>1
  <2> HIDE DEF m
  <2>3. r[m] \in ReaderStates /\ r[m + 1] = Reading(r[m], code[m + 1])
    <3>1. r \in [0 .. L -> ReaderStates] /\ r[m + 1] = Reading(r[(m + 1) - 1], code[m + 1])
      BY <2>1 DEF Runs, L
    <3> QED BY <2>1, <3>1
  <2>4. Reading(r[m], code[m + 1]) = [r[m] EXCEPT !.ok = FALSE]
    BY <2>2 DEF Reading
  <2>5. [r[m] EXCEPT !.ok = FALSE].ok = FALSE
    BY <2>3 DEF ReaderStates
  <2> QED BY <2>1, <2>3, <2>4, <2>5
<1>4. Nat \subseteq G
  <2> HIDE DEF G
  <2> QED BY <1>2, <1>3, CountingUp
<1>5. n - j \in Nat /\ n - j \in G /\ j + (n - j) = n
  <2>1. n - j \in Nat /\ j + (n - j) = n
    BY <1>1
  <2> QED BY <1>4, <2>1
<1> QED BY <1>1, <1>5

\* After the code of i points the reader has reached the i-th, or has refused
\* the route for its length; what it has before is a beginning of the route.
Follows(r, k, R, i) ==
  /\ i <= MaxPoints => r[Len(k[i])] = Reached(R, i)
  /\ i > MaxPoints => ~r[Len(k[i])].ok
  /\ \A j \in 0 .. Len(k[i]) : r[j].ok => \E m \in 0 .. Len(R) : r[j].points = SubSeq(R, 1, m)

\* A decoder that reads a polyline follows its route.
LEMMA ReadsRoute ==
  ASSUME NEW R \in Seq(Coordinates), NEW k, Codes(k, R), NEW r, Runs(r, k[Len(R)])
  PROVE  \A i \in 0 .. Len(R) : Follows(r, k, R, i)
<1> DEFINE L == Len(R)
           code == k[L]
           G == {i \in Nat : Follows(r, k, R, i)}
<1>1. L \in Nat /\ MaxPoints \in Nat
  BY PolylineAssumption
<1>2. code \in Word /\ Len(code) \in Nat
  <2>1. L \in 0 .. L
    BY <1>1
  <2> QED BY <2>1, CodesStand
<1>3. /\ r \in [0 .. Len(code) -> ReaderStates] /\ r[0] = Start
      /\ \A j \in 1 .. Len(code) : r[j] = Reading(r[j - 1], code[j])
  BY DEF Runs
<1>4. 0 \in G
  <2>1. Len(k[0]) = 0
    <3>1. k[0] = <<>> /\ Len(<<>>) = 0
      BY DEF Codes
    <3> QED BY <3>1
  <2>2. SubSeq(R, 1, 0) = <<>>
    OBVIOUS
  <2>3. Start = Reached(R, 0)
    <3>1. Reached(R, 0) = Arrived(<<0, 0>>, <<>>, TRUE)
      BY <2>2 DEF Reached
    <3> QED BY <3>1 DEF Start, Arrived
  <2>4. Start.points = <<>>
    BY DEF Start
  <2>5. 0 \in 0 .. L /\ ~(0 > MaxPoints) /\ \A j \in 0 .. 0 : j = 0
    BY <1>1
  <2>6. Follows(r, k, R, 0)
    BY <1>3, <2>1, <2>2, <2>3, <2>4, <2>5 DEF Follows
  <2> QED BY <2>6
<1>5. ASSUME NEW i \in 0 .. L - 1, i \in G PROVE i + 1 \in G
  <2> DEFINE p == Len(k[i])
             e == Len(k[i + 1])
             n == Len(PutPoint(R, i + 1))
  <2>1. i \in 0 .. L /\ i # L /\ i + 1 \in 1 .. L /\ i + 1 \in 0 .. L /\ (i + 1) - 1 = i
    BY <1>1
  <2>2. /\ p \in Nat /\ p <= Len(code) /\ Written(code, p, PutPoint(R, i + 1)) /\ e = p + n
    BY <2>1, CodesStand
  <2>3. e \in Nat /\ e <= Len(code)
    BY <2>1, CodesStand
  <2>4. n \in Nat /\ p <= e
    <3>1. PutPoint(R, i + 1) \in Word
      BY <2>1, PutPointTyped
    <3>2. n \in Nat
      BY <3>1 DEF Word
    <3> HIDE DEF p, e, n
    <3> QED BY <2>2, <3>2
  <2>5. Follows(r, k, R, i)
    BY <1>5
  <2>6. /\ i <= MaxPoints => r[p] = Reached(R, i)
        /\ i > MaxPoints => ~r[p].ok
        /\ \A j \in 0 .. p : r[j].ok => \E m \in 0 .. L : r[j].points = SubSeq(R, 1, m)
    BY <2>5 DEF Follows
  <2>7. ASSUME i <= MaxPoints
        PROVE  /\ r[e].ok <=> i + 1 <= MaxPoints
               /\ i + 1 <= MaxPoints => r[e] = Reached(R, i + 1)
               /\ \A j \in p .. e - 1 : r[j].points = SubSeq(R, 1, i)
    <3>1. Runs(r, code)
      OBVIOUS
    <3>2. r[p] = Reached(R, (i + 1) - 1)
      BY <2>1, <2>6, <2>7
    <3> HIDE DEF p, code, e
    <3>3. PointRead(r, R, i + 1, p, p + n)
      BY <1>2, <2>1, <2>2, <3>1, <3>2, ReadsPoint
    <3> QED BY <2>1, <2>2, <3>3 DEF PointRead
  <2>8. ASSUME i > MaxPoints, NEW j \in p .. e PROVE ~r[j].ok
    <3>1. Runs(r, code)
      OBVIOUS
    <3> HIDE DEF p, code, e, n
    <3>2. p \in 0 .. Len(code) /\ j \in p .. Len(code) /\ ~r[p].ok
      BY <1>2, <2>2, <2>3, <2>6, <2>8
    <3> QED BY <1>2, <3>1, <3>2, StaysRefused
  <2>9. i <= MaxPoints \/ i > MaxPoints
    BY <1>1
  <2> HIDE DEF p, e, n, code
  <2>10. i + 1 <= MaxPoints => r[e] = Reached(R, i + 1)
    <3>1. i + 1 <= MaxPoints => i <= MaxPoints
      BY <1>1
    <3> QED BY <2>7, <3>1
  <2>11. i + 1 > MaxPoints => ~r[e].ok
    <3>1. CASE i <= MaxPoints
      <4>1. i + 1 > MaxPoints => ~(i + 1 <= MaxPoints)
        BY <1>1
      <4> QED BY <2>7, <3>1, <4>1
    <3>2. CASE i > MaxPoints
      <4>1. e \in p .. e
        BY <2>2, <2>3, <2>4
      <4> QED BY <2>8, <3>2, <4>1
    <3> QED BY <2>9, <3>1, <3>2
  <2>12. ASSUME NEW j \in 0 .. e, r[j].ok
         PROVE  \E m \in 0 .. L : r[j].points = SubSeq(R, 1, m)
    <3>1. CASE j < p
      <4>1. j \in 0 .. p
        BY <2>2, <3>1
      <4> QED BY <2>6, <2>12, <4>1
    <3>2. CASE ~(j < p) /\ i > MaxPoints
      <4>1. j \in p .. e
        BY <2>2, <2>3, <3>2
      <4> QED BY <2>8, <2>12, <3>2, <4>1
    <3>3. CASE ~(j < p) /\ i <= MaxPoints /\ j # e
      <4>1. j \in p .. e - 1
        BY <2>2, <2>3, <3>3
      <4>2. r[j].points = SubSeq(R, 1, i)
        BY <2>7, <3>3, <4>1
      <4> QED BY <2>1, <4>2
    <3>4. CASE j = e /\ i <= MaxPoints
      <4>1. r[e] = Reached(R, i + 1)
        BY <2>7, <2>12, <3>4
      <4>2. Reached(R, i + 1).points = SubSeq(R, 1, i + 1)
        BY DEF Reached, Arrived
      <4> QED BY <2>1, <3>4, <4>1, <4>2
    <3> QED BY <2>9, <3>1, <3>2, <3>3, <3>4
  <2>13. Follows(r, k, R, i + 1)
    BY <2>10, <2>11, <2>12 DEF Follows, e, L
  <2>14. i + 1 \in Nat
    BY <2>1
  <2> QED BY <2>13, <2>14
<1> HIDE DEF G
<1>6. \A i \in 0 .. L : i \in G
  BY <1>1, <1>4, <1>5, CountingUpTo
<1> QED BY <1>6 DEF G

\* What is read of the beginning of the code does not depend on its end.
LEMMA ReadsBeginning ==
  ASSUME NEW code \in Word, NEW n \in 0 .. Len(code)
  PROVE  /\ Len(SubSeq(code, 1, n)) = n
         /\ Decoding(SubSeq(code, 1, n))[n] = Decoding(code)[n]
<1> DEFINE c == SubSeq(code, 1, n)
           r == Decoding(code)
           t == Decoding(c)
           G == {i \in Nat : t[i] = r[i]}
<1>1. /\ n \in Nat /\ Len(code) \in Nat /\ n <= Len(code)
      /\ c \in Word /\ Len(c) = n /\ \A i \in 1 .. n : c[i] = code[i]
  BY DEF Word
<1>2. Runs(r, code) /\ Runs(t, c)
  BY <1>1, ReadsRuns
<1> HIDE DEF c, r, t
<1>3. 0 \in G
  BY <1>2 DEF Runs
<1>4. ASSUME NEW i \in 0 .. n - 1, i \in G PROVE i + 1 \in G
  <2>1. /\ i + 1 \in 1 .. n /\ i + 1 \in 1 .. Len(code) /\ i + 1 \in Nat /\ (i + 1) - 1 = i
        /\ i + 1 \in 1 .. Len(c)
    BY <1>1
  <2>2. r[i + 1] = Reading(r[i], code[i + 1]) /\ t[i + 1] = Reading(t[i], c[i + 1])
    BY <1>2, <2>1 DEF Runs
  <2> QED BY <1>1, <1>4, <2>1, <2>2
<1>5. n \in G
  <2> HIDE DEF G
  <2>1. \A i \in 0 .. n : i \in G
    BY <1>1, <1>3, <1>4, CountingUpTo
  <2> QED BY <1>1, <2>1
<1> QED BY <1>1, <1>5 DEF c, r, t

\* A beginning of the route, as the specification of prefixes has it.
LEMMA Beginnings ==
  ASSUME NEW R \in Seq(Coordinates), NEW m \in 0 .. Len(R)
  PROVE  IsPrefix(SubSeq(R, 1, m), R) /\ Len(SubSeq(R, 1, m)) = m
<1>1. SubSeq(R, 1, m) \in Seq(Coordinates) /\ Len(SubSeq(R, 1, m)) = m /\ m <= Len(R)
  OBVIOUS
<1> QED BY <1>1 DEF IsPrefix

\* The codec gives every route back.
LEMMA RoutesSurvive ==
  ASSUME PolylineTypeOK
  PROVE  RouteSurvives
<1> DEFINE R == route
           L == Len(R)
           code == EncodePolyline(R)
           r == Decoding(code)
<1>1. R \in Seq(Coordinates) /\ L \in Nat /\ L \in 0 .. L /\ MaxPoints \in Nat
  <2>1. R \in Seq(Coordinates)
    BY DEF PolylineTypeOK
  <2> QED BY <2>1, PolylineAssumption
<1>2. PICK k : Codes(k, R) /\ k[L] = code
  BY <1>1, CodesExist
<1>3. code \in Word /\ Len(code) \in Nat
  <2>1. k[L] \in Word /\ Len(k[L]) \in Nat
    BY <1>1, <1>2, CodesStand
  <2> QED BY <1>2, <2>1
<1>4. Runs(r, code)
  BY <1>3, ReadsRuns
<1> HIDE DEF r, code
<1>5. Follows(r, k, R, L)
  <2>1. Runs(r, k[L])
    BY <1>2, <1>4
  <2> QED BY <1>1, <1>2, <2>1, ReadsRoute
<1>6. /\ L <= MaxPoints => r[Len(code)] = Reached(R, L)
      /\ L > MaxPoints => ~r[Len(code)].ok
      /\ \A j \in 0 .. Len(code) : r[j].ok => \E m \in 0 .. L : r[j].points = SubSeq(R, 1, m)
  BY <1>2, <1>5 DEF Follows
<1>7. DecodePolyline(code) = IF L < 2 \/ L > MaxPoints THEN Invalid ELSE R
  <2> DEFINE end == r[Len(code)]
  <2>1. DecodePolyline(code) =
          IF end.ok /\ end.unit = 1 /\ end.half = <<>> /\ Len(end.points) >= 2
          THEN end.points ELSE Invalid
    BY DEF DecodePolyline, r
  <2>2. CASE L > MaxPoints
    BY <1>6, <2>1, <2>2
  <2>3. CASE L <= MaxPoints
    <3> DEFINE full == Reached(R, L)
    <3>1. full.ok = TRUE /\ full.half = <<>>
      BY DEF Reached, Arrived
    <3>2. full.unit = 1
      BY DEF Reached, Arrived
    <3>3. full.points = SubSeq(R, 1, L)
      BY DEF Reached, Arrived
    <3>4. SubSeq(R, 1, L) = R
      BY <1>1
    <3>5. end = full
      BY <1>6, <2>3
    <3> HIDE DEF full, end
    <3>6. DecodePolyline(code) = IF L >= 2 THEN R ELSE Invalid
      BY <2>1, <3>1, <3>2, <3>3, <3>4, <3>5
    <3> QED BY <1>1, <2>3, <3>6
  <2> QED BY <1>1, <2>2, <2>3
<1>8. ASSUME NEW n \in 0 .. Len(code)
      PROVE  LET got == DecodePolyline(SubSeq(code, 1, n))
             IN got = Invalid \/ IsPrefix(got, R)
  <2> DEFINE c == SubSeq(code, 1, n)
             end == r[n]
             got == DecodePolyline(c)
  <2>1. Len(c) = n /\ Decoding(c)[n] = end
    BY <1>3, ReadsBeginning DEF r
  <2>2. got = IF end.ok /\ end.unit = 1 /\ end.half = <<>> /\ Len(end.points) >= 2
              THEN end.points ELSE Invalid
    BY <2>1 DEF DecodePolyline
  <2>3. CASE ~end.ok
    BY <2>2, <2>3
  <2>4. CASE end.ok
    <3>1. PICK m \in 0 .. L : end.points = SubSeq(R, 1, m)
      BY <1>6, <2>4
    <3>2. IsPrefix(end.points, R)
      BY <1>1, <3>1, Beginnings
    <3> HIDE DEF got, end
    <3> QED BY <2>2, <3>2 DEF got
  <2> QED BY <2>3, <2>4
<1> QED BY <1>7, <1>8 DEF RouteSurvives, code

\* A route is empty at first, and made of the points it may pass.
LEMMA PolylineStarts == PolylineInit => PolylineTypeOK
BY DEF PolylineInit, PolylineTypeOK

\* It goes through another of those points.
LEMMA PolylineStays == PolylineTypeOK /\ [PolylineNext]_route => PolylineTypeOK'
BY DEF PolylineTypeOK, PolylineNext, PassesPoint

\* A route is made of the points it may pass.
THEOREM PolylineTyped == PolylineSpec => []PolylineTypeOK
BY PolylineStarts, PolylineStays, PTL DEF PolylineSpec

\* Every route that is long enough and not too long is what its polyline is
\* decoded to, whatever its points; and a polyline that is cut off is refused or
\* gives a beginning of the route (maps/polyline.go).
THEOREM PolylineCodec == PolylineSpec => []RouteSurvives
<1>1. PolylineTypeOK => RouteSurvives
  BY RoutesSurvive
<1> QED BY <1>1, PolylineTyped, PTL
=============================================================================
