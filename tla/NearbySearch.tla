---------------------------- MODULE NearbySearch ----------------------------
(***************************************************************************)
(* The search for riders near a pickup (findOfferableRiders), which        *)
(* Dispatch takes in one step.  It reads who declined, then the riders the *)
(* Redis index has near the pickup, then has PostgreSQL choose among them, *)
(* and searches rider_locations itself if they do not fill the list.       *)
(* Uploads write the table and then the index; the index may be lost, and  *)
(* every write to it may fail.                                             *)
(***************************************************************************)
EXTENDS Naturals, FiniteSets, FiniteSetsExt

CONSTANTS
  NearbyRiders,
  Uploaders,       \* uploads that may be served at the same time
  ListSize         \* maxRiders of a search

ASSUME NearbyAssumption == IsFiniteSet(NearbyRiders) /\ ListSize \in Nat \ {0}

VARIABLES
  located,   \* rider_locations, seen from the pickup: far, or not at all
  index,     \* the geo set in Redis
  ready,     \* riders of whom nearestRidersSQL asks nothing more but the place
  declined,  \* riders who declined the order that is searched for
  fixing,    \* what each upload is doing
  search     \* what the search is doing

nearbyVars == <<located, index, ready, declined, fixing, search>>

Whereabouts == {"near", "far"}
NoFixing == [step |-> "idle"]
NoSearch == [step |-> "idle"]
SearchSteps == {"index", "verify", "sql", "done"}

\* A search remembers who was eligible when it read the tables last: history
\* for the property, which no action reads.
NearbyTypeOK ==
  /\ {located, index} \subseteq [NearbyRiders -> Whereabouts]
  /\ ready \subseteq NearbyRiders /\ declined \subseteq NearbyRiders
  /\ fixing \in [Uploaders -> {NoFixing} \cup
       [step : {"store", "index"}, rider : NearbyRiders, place : Whereabouts]]
  /\ search \in {NoSearch} \cup
       [step : SearchSteps, declined : SUBSET NearbyRiders, candidates : SUBSET NearbyRiders,
        found : SUBSET NearbyRiders, eligible : SUBSET NearbyRiders]

NearbyInit ==
  /\ located = [r \in NearbyRiders |-> "far"]
  /\ index = located
  /\ ready = NearbyRiders /\ declined = {}
  /\ fixing = [u \in Uploaders |-> NoFixing]
  /\ search = NoSearch

-----------------------------------------------------------------------------
(* Uploads, and what else changes meanwhile.                               *)

FixArrives(u, r, p) ==
  /\ fixing[u] = NoFixing
  /\ fixing' = [fixing EXCEPT ![u] = [step |-> "store", rider |-> r, place |-> p]]
  /\ UNCHANGED <<located, index, ready, declined, search>>

StoresPlace(u) ==
  /\ fixing[u].step = "store"
  /\ located' = [located EXCEPT ![fixing[u].rider] = fixing[u].place]
  /\ fixing' = [fixing EXCEPT ![u].step = "index"]
  /\ UNCHANGED <<index, ready, declined, search>>

\* Redis may fail: the upload does not.
IndexesPlace(u) ==
  /\ fixing[u].step = "index"
  /\ index' \in {index, [index EXCEPT ![fixing[u].rider] = fixing[u].place]}
  /\ fixing' = [fixing EXCEPT ![u] = NoFixing]
  /\ UNCHANGED <<located, ready, declined, search>>

IndexLost ==
  /\ index' = [r \in NearbyRiders |-> "far"]
  /\ UNCHANGED <<located, ready, declined, fixing, search>>

\* Online, free, approved, of no restaurant and seen lately, or not.
ReadinessChanges(r) ==
  /\ ready' = IF r \in ready THEN ready \ {r} ELSE ready \cup {r}
  /\ UNCHANGED <<located, index, declined, fixing, search>>

Declines(r) ==
  /\ declined' = declined \cup {r}
  /\ UNCHANGED <<located, index, ready, fixing, search>>

-----------------------------------------------------------------------------
(* The search.  Nobody knows who is nearest, only how many are asked for.  *)

UpTo(limit, riders) ==
  IF Cardinality(riders) <= limit THEN {riders} ELSE kSubset(limit, riders)

Eligible == {r \in ready : located[r] = "near"}
Limit(q) == ListSize + Cardinality(q.declined)
Offerable(rows, q) == UpTo(ListSize, rows \ q.declined)

Settles(riders) ==
  search' = [search EXCEPT !.found = riders, !.eligible = Eligible, !.step = "done"]

FallsBack == search' = [search EXCEPT !.step = "sql"]

\* If the lookup fails, nobody has declined.
SearchStarts ==
  /\ search = NoSearch
  /\ \E known \in {declined, {}} :
       search' = [step |-> "index", declined |-> known,
                  candidates |-> {}, found |-> {}, eligible |-> {}]
  /\ UNCHANGED <<located, index, ready, declined, fixing>>

\* Redis drops what it has not heard of for five minutes, or fails.
NearbyCandidates ==
  /\ search.step = "index"
  /\ \E fresh \in SUBSET {r \in NearbyRiders : index[r] = "near"} :
     \E nearby \in UpTo(3 * Limit(search), fresh) :
       IF nearby = {} THEN FallsBack
       ELSE search' = [search EXCEPT !.candidates = nearby, !.step = "verify"]
  /\ UNCHANGED <<located, index, ready, declined, fixing>>

\* What is found among the candidates is kept only if it fills the list.
UsesWhatItFinds ==
  /\ search.step = "verify"
  /\ \E rows \in UpTo(Limit(search), Eligible \cap search.candidates) :
     \E riders \in Offerable(rows, search) :
       IF riders # {} THEN Settles(riders) ELSE FallsBack
  /\ UNCHANGED <<located, index, ready, declined, fixing>>

VerifiesCandidates ==
  /\ search.step = "verify"
  /\ \E rows \in UpTo(Limit(search), Eligible \cap search.candidates) :
     \E riders \in Offerable(rows, search) :
       IF Cardinality(riders) >= ListSize THEN Settles(riders) ELSE FallsBack
  /\ UNCHANGED <<located, index, ready, declined, fixing>>

SearchesTables ==
  /\ search.step = "sql"
  /\ \E rows \in UpTo(Limit(search), Eligible) :
     \E riders \in Offerable(rows, search) : Settles(riders)
  /\ UNCHANGED <<located, index, ready, declined, fixing>>

\* Offered, or ended by an error of either query on the tables.
SearchEnds ==
  /\ search.step \in {"sql", "done"}
  /\ search' = NoSearch
  /\ UNCHANGED <<located, index, ready, declined, fixing>>

NearbyNext ==
  \/ \E u \in Uploaders, r \in NearbyRiders, p \in Whereabouts : FixArrives(u, r, p)
  \/ \E u \in Uploaders : StoresPlace(u) \/ IndexesPlace(u)
  \/ \E r \in NearbyRiders : ReadinessChanges(r) \/ Declines(r)
  \/ IndexLost
  \/ SearchStarts \/ NearbyCandidates \/ VerifiesCandidates \/ SearchesTables \/ SearchEnds

NearbySpec == NearbyInit /\ [][NearbyNext]_nearbyVars

-----------------------------------------------------------------------------
(* However much of the index is lost, stale or written out of order, the   *)
(* search finds only riders the tables call eligible and none it knows to  *)
(* have declined, and it leaves such a rider out only if the list is full. *)
NobodyNearbyMissed ==
  search.step = "done" =>
    LET wanted == search.eligible \ search.declined IN
    /\ search.found \subseteq wanted
    /\ Cardinality(search.found) < ListSize => search.found = wanted
=============================================================================
