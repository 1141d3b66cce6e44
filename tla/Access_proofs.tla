---------------------------- MODULE Access_proofs ----------------------------
(***************************************************************************)
(* One master for every rider, for any number of riders, restaurants and   *)
(* transactions.  A transaction that passed its guard still holds the lock *)
(* of the profile; whoever could change what it read needs that lock, so   *)
(* what it read is true when it writes.  And the events that tell of a     *)
(* restaurant's own riders, for any riders, consumers and faults: the      *)
(* message of an assignment is not lost before its rider is on the row.    *)
(***************************************************************************)
EXTENDS Access, OwnEvents, FiniteSetTheorems, SequenceTheorems, TLAPS

-----------------------------------------------------------------------------
(* The inductive invariant.                                                *)

Wanted(w) == {w[i] : i \in DOMAIN w}

Wants == {<<>>, <<"profile">>, <<"availability">>,
          <<"profile", "availability">>, <<"availability", "profile">>}

\* A transaction that wants the profile no more, and is of a kind that takes
\* it, has it.
HoldsProfile(tx, holder) ==
  \A t \in AccessTxs :
    /\ tx[t] # NoTx
    /\ tx[t].kind \notin {"offline", "finish"}
    /\ "profile" \notin Wanted(tx[t].wants)
    => holder[tx[t].rider]["profile"] = t

\* What the writes of a kind rely on, of what its guard read.
ReliesOn(kind, places, x, access) ==
  /\ kind \in {"offer", "accept"} => places = {} /\ access = "approved"
  /\ kind = "join" => places \subseteq {x}
  /\ kind = "online" => places # {} \/ access = "approved"
  /\ kind \in {"reapply", "approve", "reject"} => places = {} /\ access # "approved"

\* A transaction past its guard is past the lock, and its guard still holds.
StillPermitted(tx, linked, access) ==
  \A t \in AccessTxs :
    tx[t] # NoTx /\ tx[t].permitted =>
      /\ "profile" \notin Wanted(tx[t].wants)
      /\ ReliesOn(tx[t].kind, linked[tx[t].rider], tx[t].place, access[tx[t].rider])

\* OneMaster, without the cardinality.
MasterOf(places, access, duty, carries, offered) ==
  /\ \A x, y \in places : x = y
  /\ offered \/ carries => places = {} /\ access = "approved"
  /\ duty /\ places = {} => access = "approved"

Mastered ==
  \A r \in AccessRiders :
    MasterOf(linkedTo[r], platformAccess[r], onDuty[r], carrying[r], hasOffer[r])

\* Who joins names the restaurant.
Placed(tx) ==
  \A t \in AccessTxs : tx[t] # NoTx /\ tx[t].kind = "join" => tx[t].place \in Employers

AccessInv ==
  /\ AccessTypeOK
  /\ Placed(openTx)
  /\ HoldsProfile(openTx, rowHolder)
  /\ StillPermitted(openTx, linkedTo, platformAccess)
  /\ Mastered

-----------------------------------------------------------------------------
(* Lemmas about the locks a transaction still wants.                       *)

\* Nothing is wanted after the last lock.
LEMMA LastWanted ==
  ASSUME NEW k \in Lockable
  PROVE  /\ Tail(<<k>>) = <<>> /\ Head(<<k>>) = k
         /\ Wanted(<<k>>) = {k} /\ Wanted(<<>>) = {}
<1>1. <<k>> \in Seq(Lockable) /\ <<k>> # <<>> /\ Len(<<k>>) = 1
  OBVIOUS
<1>2. Tail(<<k>>) \in Seq(Lockable) /\ Len(Tail(<<k>>)) = 0
  BY <1>1, HeadTailProperties
<1>3. Tail(<<k>>) = <<>>
  BY <1>2, EmptySeq
<1>4. Head(<<k>>) = k
  OBVIOUS
<1>5. /\ 1 \in DOMAIN <<k>> /\ <<k>>[1] = k
      /\ \A i \in DOMAIN <<k>> : i = 1
  OBVIOUS
<1>6. Wanted(<<k>>) = {k}
  BY <1>5 DEF Wanted
<1>7. <<>> \in Seq(Lockable) /\ Len(<<>>) = 0
  BY EmptySeq
<1>9. DOMAIN <<>> = 1 .. 0
  BY <1>7, LenProperties
<1>8. Wanted(<<>>) = {}
  BY <1>9 DEF Wanted
<1> QED BY <1>3, <1>4, <1>6, <1>8

\* Taking the first lock leaves the others, and the profile is no longer wanted
\* only once it is the one that was taken.
LEMMA WantsShrink ==
  ASSUME NEW w \in Wants, w # <<>>
  PROVE  /\ Tail(w) \in Wants
         /\ Head(w) \in Lockable
         /\ "profile" \notin Wanted(Tail(w)) =>
              "profile" \notin Wanted(w) \/ Head(w) = "profile"
         /\ "profile" \notin Wanted(w) => "profile" \notin Wanted(Tail(w))
<1>1. CASE w = <<"profile">>
  <2>1. "profile" \in Lockable
    BY DEF Lockable
  <2>2. /\ Tail(<<"profile">>) = <<>> /\ Head(<<"profile">>) = "profile"
        /\ Wanted(<<"profile">>) = {"profile"} /\ Wanted(<<>>) = {}
    BY <2>1, LastWanted
  <2> QED BY <1>1, <2>2 DEF Wants, Lockable
<1>4. CASE w = <<"availability">>
  <2>1. "availability" \in Lockable
    BY DEF Lockable
  <2>2. /\ Tail(<<"availability">>) = <<>> /\ Head(<<"availability">>) = "availability"
        /\ Wanted(<<"availability">>) = {"availability"} /\ Wanted(<<>>) = {}
    BY <2>1, LastWanted
  <2> QED BY <1>4, <2>2 DEF Wants, Lockable
<1>2. CASE w = <<"profile", "availability">>
  <2>1. Tail(w) = <<"availability">> /\ Head(w) = "profile"
    BY <1>2
  <2>2. w[1] = "profile" /\ 1 \in DOMAIN w
    BY <1>2
  <2> QED BY <2>1, <2>2 DEF Wants, Wanted, Lockable
<1>3. CASE w = <<"availability", "profile">>
  <2>1. Tail(w) = <<"profile">> /\ Head(w) = "availability"
    BY <1>3
  <2>2. w[2] = "profile" /\ 2 \in DOMAIN w
    BY <1>3
  <2>3. <<"profile">>[1] = "profile" /\ 1 \in DOMAIN <<"profile">>
    OBVIOUS
  <2>4. "profile" \in Wanted(w) /\ "profile" \in Wanted(<<"profile">>)
    BY <2>2, <2>3 DEF Wanted
  <2> QED BY <2>1, <2>4 DEF Wants, Lockable
<1> QED BY <1>1, <1>2, <1>3, <1>4 DEF Wants

\* Every kind but going offline and finishing asks for the profile.
LEMMA KindsWant ==
  ASSUME NEW kind \in TxKinds, NEW r \in AccessRiders
  PROVE  /\ LocksOf(kind, r) \in Wants
         /\ kind \notin {"offline", "finish"} => "profile" \in Wanted(LocksOf(kind, r))
<1>1. CASE kind \in {"offer", "decline", "reapply", "approve", "reject"}
  <2>1. LocksOf(kind, r) = <<"profile">>
    BY <1>1 DEF LocksOf
  <2> QED BY <2>1 DEF Wants, Wanted
<1>2. CASE kind \in {"accept", "join", "leave", "online"}
  <2>1. LocksOf(kind, r) = <<"profile", "availability">>
    BY <1>2 DEF LocksOf
  <2>2. LocksOf(kind, r)[1] = "profile" /\ 1 \in DOMAIN LocksOf(kind, r)
    BY <2>1
  <2> QED BY <2>1, <2>2 DEF Wants, Wanted
<1>3. CASE kind \in {"offline", "finish"}
  BY <1>3 DEF LocksOf, Wants
<1> QED BY <1>1, <1>2, <1>3 DEF TxKinds, Joining, PlatformWork

\* What is open is a record of all its fields.
LEMMA OpenTyped ==
  ASSUME AccessTypeOK, NEW t \in AccessTxs, openTx[t] # NoTx
  PROVE  /\ openTx[t] \in OpenTxs
         /\ openTx[t].rider \in AccessRiders
         /\ openTx[t].kind \in TxKinds
         /\ openTx[t].wants \in Wants
BY DEF AccessTypeOK, OpenTxs, Wants

-----------------------------------------------------------------------------
(* One lemma for each step.                                                *)

\* A transaction begins without locks and without having read anything.
LEMMA AccessStartKeeps ==
  ASSUME AccessInv, NEW t \in AccessTxs, NEW r \in AccessRiders, NEW kind \in TxKinds,
         NEW x \in Employers \cup {NoEmployer}, kind = "join" => x \in Employers,
         StartsTx(t, r, kind, x)
  PROVE  AccessInv'
<1> DEFINE o == [rider |-> r, kind |-> kind, place |-> x, wants |-> LocksOf(kind, r),
                 permitted |-> FALSE]
<1>1. o \in OpenTxs
  BY KindsWant DEF OpenTxs, Wants
<1>2. /\ openTx' = [openTx EXCEPT ![t] = o]
      /\ UNCHANGED <<accessRows, rowHolder>>
  BY DEF StartsTx
<1>3. AccessTypeOK'
  BY <1>1, <1>2 DEF AccessInv, AccessTypeOK, accessRows
<1>4. \A u \in AccessTxs : openTx'[u] = IF u = t THEN o ELSE openTx[u]
  BY <1>2 DEF AccessInv, AccessTypeOK
<1>5. HoldsProfile(openTx, rowHolder)'
  BY <1>2, <1>4, KindsWant DEF AccessInv, HoldsProfile
<1>6. StillPermitted(openTx, linkedTo, platformAccess)'
  BY <1>2, <1>4 DEF AccessInv, StillPermitted, accessRows
<1>7. Mastered'
  BY <1>2 DEF AccessInv, Mastered, accessRows
<1>8. Placed(openTx)'
  BY <1>4 DEF AccessInv, Placed
<1> QED BY <1>3, <1>5, <1>6, <1>7, <1>8 DEF AccessInv

\* What the guard read under the lock is what the writes rely on.
LEMMA GuardKeeps ==
  ASSUME AccessInv, NEW t \in AccessTxs, PassesGuard(t)
  PROVE  AccessInv'
<1> DEFINE o == openTx[t]
           p == [o EXCEPT !.permitted = TRUE]
<1>1. o # NoTx /\ "profile" \notin Wanted(o.wants) /\ Permitted(o.kind, o.rider, o.place)
  BY DEF PassesGuard, Wanted
<1>2. o \in OpenTxs /\ p \in OpenTxs
  BY <1>1, OpenTyped DEF AccessInv, OpenTxs
<1>3. /\ openTx' = [openTx EXCEPT ![t] = p]
      /\ UNCHANGED <<accessRows, rowHolder>>
  BY DEF PassesGuard, AccessInv, AccessTypeOK
<1>4. p.rider = o.rider /\ p.kind = o.kind /\ p.place = o.place /\ p.wants = o.wants
  BY <1>2 DEF OpenTxs
<1>5. ReliesOn(o.kind, linkedTo[o.rider], o.place, platformAccess[o.rider])
  BY <1>1, <1>2 DEF Permitted, ReliesOn, Linked, Approved, OpenTxs, TxKinds, Joining, PlatformWork
<1> HIDE DEF p
<1>6. AccessTypeOK'
  BY <1>2, <1>3 DEF AccessInv, AccessTypeOK, accessRows
<1>7. \A u \in AccessTxs : openTx'[u] = IF u = t THEN p ELSE openTx[u]
  BY <1>3 DEF AccessInv, AccessTypeOK
<1>8. HoldsProfile(openTx, rowHolder)'
  BY <1>1, <1>3, <1>4, <1>7 DEF AccessInv, HoldsProfile
<1>9. StillPermitted(openTx, linkedTo, platformAccess)'
  BY <1>1, <1>3, <1>4, <1>5, <1>7 DEF AccessInv, StillPermitted, accessRows
<1>10. Mastered'
  BY <1>3 DEF AccessInv, Mastered, accessRows
<1>11. Placed(openTx)'
  BY <1>1, <1>4, <1>7 DEF AccessInv, Placed
<1> QED BY <1>6, <1>8, <1>9, <1>10, <1>11 DEF AccessInv

\* A lock that is taken was free, so that nobody loses one.
LEMMA AccessLockKeeps ==
  ASSUME AccessInv, NEW t \in AccessTxs, TakesLock(t)
  PROVE  AccessInv'
<1> DEFINE o == openTx[t]
           r == o.rider
           k == Head(o.wants)
           p == [o EXCEPT !.wants = Tail(o.wants)]
<1>1. o # NoTx /\ o.wants # <<>> /\ rowHolder[r][k] = NoTx
  BY DEF TakesLock
<1>2. o \in OpenTxs /\ r \in AccessRiders /\ o.wants \in Wants
  BY <1>1, OpenTyped DEF AccessInv
<1>3. /\ k \in Lockable
      /\ Tail(o.wants) \in Wants
      /\ "profile" \notin Wanted(Tail(o.wants)) =>
           "profile" \notin Wanted(o.wants) \/ k = "profile"
      /\ "profile" \notin Wanted(o.wants) => "profile" \notin Wanted(Tail(o.wants))
  BY <1>1, <1>2, WantsShrink
<1>4. p \in OpenTxs
  BY <1>2, <1>3 DEF OpenTxs, Wants
<1>5. /\ p.rider = r /\ p.kind = o.kind /\ p.place = o.place
      /\ p.permitted = o.permitted /\ p.wants = Tail(o.wants)
  BY <1>2 DEF OpenTxs
<1>6. /\ openTx' = [openTx EXCEPT ![t] = p]
      /\ rowHolder' = [rowHolder EXCEPT ![r][k] = t]
      /\ UNCHANGED accessRows
  BY DEF TakesLock, AccessInv, AccessTypeOK
<1> HIDE DEF p, k, r
<1>7. AccessTypeOK'
  <2>1. rowHolder' \in [AccessRiders -> [Lockable -> AccessTxs \cup {NoTx}]]
    BY <1>2, <1>3, <1>6 DEF AccessInv, AccessTypeOK
  <2> QED BY <1>4, <1>6, <2>1 DEF AccessInv, AccessTypeOK, accessRows
<1>8. \A u \in AccessTxs : openTx'[u] = IF u = t THEN p ELSE openTx[u]
  BY <1>6 DEF AccessInv, AccessTypeOK
<1>9. \A q \in AccessRiders : rowHolder'[q]["profile"] =
        IF q = r /\ k = "profile" THEN t ELSE rowHolder[q]["profile"]
  BY <1>2, <1>3, <1>6 DEF AccessInv, AccessTypeOK, Lockable
<1>10. HoldsProfile(openTx, rowHolder)'
  <2> SUFFICES ASSUME NEW u \in AccessTxs, openTx'[u] # NoTx,
                      openTx'[u].kind \notin {"offline", "finish"},
                      "profile" \notin Wanted(openTx'[u].wants)
               PROVE  rowHolder'[openTx'[u].rider]["profile"] = u
    BY DEF HoldsProfile
  <2>1. CASE u = t
    <3>1. openTx'[u].rider = r /\ openTx'[u].kind = o.kind
          /\ openTx'[u].wants = Tail(o.wants)
      BY <1>5, <1>8, <2>1
    <3>2. CASE k = "profile"
      BY <1>2, <1>9, <2>1, <3>1, <3>2
    <3>3. CASE k # "profile"
      <4>1. rowHolder[r]["profile"] = t
        BY <1>1, <1>3, <2>1, <3>1, <3>3 DEF AccessInv, HoldsProfile, r
      <4> QED BY <1>2, <1>9, <2>1, <3>1, <3>3, <4>1
    <3> QED BY <3>2, <3>3
  <2>2. CASE u # t
    <3>1. openTx'[u] = openTx[u] /\ openTx[u].rider \in AccessRiders
      BY <1>8, <2>2, OpenTyped DEF AccessInv
    <3>2. rowHolder[openTx[u].rider]["profile"] = u
      BY <3>1 DEF AccessInv, HoldsProfile
    <3>3. ~(openTx[u].rider = r /\ k = "profile")
      BY <1>1, <3>2, AccessAssumption DEF r, k
    <3> QED BY <1>9, <3>1, <3>2, <3>3
  <2> QED BY <2>1, <2>2
<1>11. StillPermitted(openTx, linkedTo, platformAccess)'
  BY <1>1, <1>3, <1>5, <1>6, <1>8 DEF AccessInv, StillPermitted, accessRows, r
<1>12. Mastered'
  BY <1>6 DEF AccessInv, Mastered, accessRows
<1>13. Placed(openTx)'
  BY <1>1, <1>5, <1>8 DEF AccessInv, Placed
<1> QED BY <1>7, <1>10, <1>11, <1>12, <1>13 DEF AccessInv

\* Closing a transaction frees its own locks only.
LEMMA ClosingKeeps ==
  ASSUME AccessInv, NEW t \in AccessTxs, ClosesTx(t)
  PROVE  /\ openTx' \in [AccessTxs -> OpenTxs \cup {NoTx}]
         /\ rowHolder' \in [AccessRiders -> [Lockable -> AccessTxs \cup {NoTx}]]
         /\ \A u \in AccessTxs : openTx'[u] = IF u = t THEN NoTx ELSE openTx[u]
         /\ HoldsProfile(openTx, rowHolder)'
         /\ Placed(openTx)'
<1>1. /\ openTx' \in [AccessTxs -> OpenTxs \cup {NoTx}]
      /\ \A u \in AccessTxs : openTx'[u] = IF u = t THEN NoTx ELSE openTx[u]
  BY DEF ClosesTx, AccessInv, AccessTypeOK
<1>2. rowHolder' \in [AccessRiders -> [Lockable -> AccessTxs \cup {NoTx}]]
  BY DEF ClosesTx, AccessInv, AccessTypeOK
<1>3. HoldsProfile(openTx, rowHolder)'
  <2> SUFFICES ASSUME NEW u \in AccessTxs, openTx'[u] # NoTx,
                      openTx'[u].kind \notin {"offline", "finish"},
                      "profile" \notin Wanted(openTx'[u].wants)
               PROVE  rowHolder'[openTx'[u].rider]["profile"] = u
    BY DEF HoldsProfile
  <2>1. u # t /\ openTx'[u] = openTx[u] /\ openTx[u].rider \in AccessRiders
    BY <1>1, OpenTyped DEF AccessInv
  <2>2. rowHolder[openTx[u].rider]["profile"] = u
    BY <2>1 DEF AccessInv, HoldsProfile
  <2> QED BY <2>1, <2>2 DEF ClosesTx, Lockable
<1>4. Placed(openTx)'
  BY <1>1 DEF AccessInv, Placed
<1> QED BY <1>1, <1>2, <1>3, <1>4

\* Rolling back gives back the locks and changes no row.
LEMMA AccessRollbackKeeps ==
  ASSUME AccessInv, NEW t \in AccessTxs, RollsBackTx(t)
  PROVE  AccessInv'
<1>1. UNCHANGED accessRows /\ ClosesTx(t)
  BY DEF RollsBackTx
<1>2. AccessTypeOK'
  BY <1>1, ClosingKeeps DEF AccessInv, AccessTypeOK, accessRows
<1>3. \A u \in AccessTxs : openTx'[u] = IF u = t THEN NoTx ELSE openTx[u]
  BY <1>1, ClosingKeeps
<1>4. StillPermitted(openTx, linkedTo, platformAccess)'
  BY <1>1, <1>3 DEF AccessInv, StillPermitted, accessRows
<1>5. Mastered'
  BY <1>1 DEF AccessInv, Mastered, accessRows
<1> QED BY <1>1, <1>2, <1>4, <1>5, ClosingKeeps DEF AccessInv

\* A commit may change one rider's rows: only while it has the profile lock may
\* it change what others rely on, and they then wait for it.
LEMMA WritesKeep ==
  ASSUME AccessInv, NEW t \in AccessTxs, ClosesTx(t),
         NEW r \in AccessRiders,
         linkedTo' \in [AccessRiders -> SUBSET Employers],
         invitation' \in [AccessRiders -> [Employers -> InvitationStatuses]],
         platformAccess' \in [AccessRiders -> AccessStates],
         onDuty' \in [AccessRiders -> BOOLEAN],
         carrying' \in [AccessRiders -> BOOLEAN],
         hasOffer' \in [AccessRiders -> BOOLEAN],
         \A q \in AccessRiders : q # r =>
           /\ linkedTo'[q] = linkedTo[q] /\ platformAccess'[q] = platformAccess[q]
           /\ onDuty'[q] = onDuty[q] /\ carrying'[q] = carrying[q]
           /\ hasOffer'[q] = hasOffer[q],
         \/ linkedTo'[r] = linkedTo[r] /\ platformAccess'[r] = platformAccess[r]
         \/ rowHolder[r]["profile"] = t,
         MasterOf(linkedTo'[r], platformAccess'[r], onDuty'[r], carrying'[r], hasOffer'[r])
  PROVE  AccessInv'
<1>1. AccessTypeOK'
  BY ClosingKeeps DEF AccessTypeOK
<1>2. Mastered'
  BY DEF AccessInv, Mastered
<1>3. StillPermitted(openTx, linkedTo, platformAccess)'
  <2> SUFFICES ASSUME NEW u \in AccessTxs, openTx'[u] # NoTx, openTx'[u].permitted
               PROVE  /\ "profile" \notin Wanted(openTx'[u].wants)
                      /\ ReliesOn(openTx'[u].kind, linkedTo'[openTx'[u].rider],
                                  openTx'[u].place, platformAccess'[openTx'[u].rider])
    BY DEF StillPermitted
  <2>1. u # t /\ openTx'[u] = openTx[u]
    BY ClosingKeeps
  <2> DEFINE o == openTx[u]
  <2>2. /\ o.rider \in AccessRiders
        /\ "profile" \notin Wanted(o.wants)
        /\ ReliesOn(o.kind, linkedTo[o.rider], o.place, platformAccess[o.rider])
    BY <2>1, OpenTyped DEF AccessInv, StillPermitted
  <2>3. CASE linkedTo'[o.rider] = linkedTo[o.rider]
             /\ platformAccess'[o.rider] = platformAccess[o.rider]
    BY <2>1, <2>2, <2>3
  <2>4. CASE o.rider = r /\ rowHolder[r]["profile"] = t
    <3>1. o.kind \in {"offline", "finish"}
      BY <2>1, <2>2, <2>4 DEF AccessInv, HoldsProfile
    <3>2. ReliesOn(o.kind, linkedTo'[o.rider], o.place, platformAccess'[o.rider])
      BY <3>1 DEF ReliesOn
    <3> QED BY <2>1, <2>2, <3>2
  <2> QED BY <2>2, <2>3, <2>4
<1> QED BY <1>1, <1>2, <1>3, ClosingKeeps DEF AccessInv

\* What each transaction writes leaves its rider with one master.
LEMMA AccessCommitKeeps ==
  ASSUME AccessInv, NEW t \in AccessTxs, CommitsTx(t)
  PROVE  AccessInv'
<1> DEFINE o == openTx[t]
           r == o.rider
           x == o.place
<1>1. o # NoTx /\ o.wants = <<>> /\ o.permitted /\ Writes(o) /\ ClosesTx(t)
  BY DEF CommitsTx
<1>2. o \in OpenTxs /\ r \in AccessRiders
  BY <1>1, OpenTyped DEF AccessInv
<1>3. ReliesOn(o.kind, linkedTo[r], x, platformAccess[r])
  BY <1>1 DEF AccessInv, StillPermitted
<1>4. o.kind \notin {"offline", "finish"} => rowHolder[r]["profile"] = t
  BY <1>1 DEF AccessInv, StillPermitted, HoldsProfile
<1>5. MasterOf(linkedTo[r], platformAccess[r], onDuty[r], carrying[r], hasOffer[r])
  BY <1>2 DEF AccessInv, Mastered
<1>6. o.kind = "join" => x \in Employers
  BY <1>1 DEF AccessInv, Placed
<1> HIDE DEF r, x
<1>7. CASE o.kind = "offer" /\ WritesOffer(r)
  <2>1. hasOffer' = [hasOffer EXCEPT ![r] = TRUE]
        /\ UNCHANGED <<linkedTo, invitation, platformAccess, onDuty, carrying>>
    BY <1>7 DEF WritesOffer
  <2>2. MasterOf(linkedTo[r], platformAccess[r], onDuty[r], carrying[r], TRUE)
    BY <1>3, <1>5, <1>7 DEF MasterOf, ReliesOn
  <2> QED BY <1>1, <1>2, <2>1, <2>2, WritesKeep DEF AccessInv, AccessTypeOK
<1>8. CASE o.kind = "accept" /\ WritesAcceptance(r)
  <2>1. /\ hasOffer' = [hasOffer EXCEPT ![r] = FALSE]
        /\ carrying' = [carrying EXCEPT ![r] = TRUE]
        /\ UNCHANGED <<linkedTo, invitation, platformAccess, onDuty>>
    BY <1>8 DEF WritesAcceptance
  <2>2. MasterOf(linkedTo[r], platformAccess[r], onDuty[r], TRUE, FALSE)
    BY <1>3, <1>5, <1>8 DEF MasterOf, ReliesOn
  <2> QED BY <1>1, <1>2, <2>1, <2>2, WritesKeep DEF AccessInv, AccessTypeOK
<1>9. CASE o.kind = "join" /\ WritesMembership(r, x)
  <2>1. /\ ~carrying[r]
        /\ linkedTo' = [linkedTo EXCEPT ![r] = linkedTo[r] \cup {x}]
        /\ hasOffer' = [hasOffer EXCEPT ![r] = FALSE]
        /\ UNCHANGED <<platformAccess, onDuty, carrying>>
    BY <1>9 DEF WritesMembership
  <2>2. invitation' = [invitation EXCEPT ![r] =
          [y \in Employers |-> IF y = x THEN "accepted"
                               ELSE IF invitation[r][y] = "pending" THEN "closed"
                               ELSE invitation[r][y]]]
    BY <1>9 DEF WritesMembership
  <2>3. invitation' \in [AccessRiders -> [Employers -> InvitationStatuses]]
    BY <1>2, <2>2 DEF AccessInv, AccessTypeOK, InvitationStatuses
  <2>4. linkedTo' \in [AccessRiders -> SUBSET Employers]
    BY <1>2, <1>6, <1>9, <2>1 DEF AccessInv, AccessTypeOK
  <2>5. MasterOf(linkedTo[r] \cup {x}, platformAccess[r], onDuty[r], FALSE, FALSE)
    BY <1>3, <1>9 DEF MasterOf, ReliesOn
  <2>6. /\ linkedTo'[r] = linkedTo[r] \cup {x} /\ hasOffer'[r] = FALSE
        /\ carrying'[r] = FALSE
    BY <1>2, <2>1 DEF AccessInv, AccessTypeOK
  <2>7. rowHolder[r]["profile"] = t
    BY <1>4, <1>9
  <2>8. hasOffer' \in [AccessRiders -> BOOLEAN]
    BY <1>2, <2>1 DEF AccessInv, AccessTypeOK
  <2>9. \A q \in AccessRiders : q # r =>
           linkedTo'[q] = linkedTo[q] /\ hasOffer'[q] = hasOffer[q]
    BY <2>1 DEF AccessInv, AccessTypeOK
  <2>10. MasterOf(linkedTo'[r], platformAccess'[r], onDuty'[r], carrying'[r], hasOffer'[r])
    BY <2>1, <2>5, <2>6
  <2>11. /\ platformAccess' \in [AccessRiders -> AccessStates]
         /\ onDuty' \in [AccessRiders -> BOOLEAN] /\ carrying' \in [AccessRiders -> BOOLEAN]
         /\ platformAccess' = platformAccess /\ onDuty' = onDuty /\ carrying' = carrying
    BY <2>1 DEF AccessInv, AccessTypeOK
  <2> QED BY <1>1, <1>2, <2>3, <2>4, <2>7, <2>8, <2>9, <2>10, <2>11, WritesKeep
<1>10. CASE o.kind = "decline" /\ WritesDecline(r, x)
  <2>1. /\ invitation' = [invitation EXCEPT ![r][x] = "closed"]
        /\ UNCHANGED <<linkedTo, platformAccess, onDuty, carrying, hasOffer>>
    BY <1>10 DEF WritesDecline
  <2>2. invitation' \in [AccessRiders -> [Employers -> InvitationStatuses]]
    BY <1>2, <2>1 DEF AccessInv, AccessTypeOK, InvitationStatuses
  <2> QED BY <1>1, <1>2, <1>5, <2>1, <2>2, WritesKeep DEF AccessInv, AccessTypeOK
<1>11. CASE o.kind = "leave" /\ WritesRemoval(r, x)
  <2>1. /\ ~carrying[r]
        /\ linkedTo' = [linkedTo EXCEPT ![r] = linkedTo[r] \ {x}]
        /\ platformAccess' = [platformAccess EXCEPT ![r] = "reapply_required"]
        /\ onDuty' = [onDuty EXCEPT ![r] = FALSE]
        /\ hasOffer' = [hasOffer EXCEPT ![r] = FALSE]
        /\ UNCHANGED carrying
    BY <1>11 DEF WritesRemoval
  <2>2. invitation' = [invitation EXCEPT ![r][x] =
          IF invitation[r][x] = "accepted" THEN "closed" ELSE invitation[r][x]]
    BY <1>11 DEF WritesRemoval
  <2>3. invitation' \in [AccessRiders -> [Employers -> InvitationStatuses]]
    BY <1>2, <2>2 DEF AccessInv, AccessTypeOK, InvitationStatuses
  <2>4. /\ linkedTo' \in [AccessRiders -> SUBSET Employers]
        /\ platformAccess' \in [AccessRiders -> AccessStates]
        /\ onDuty' \in [AccessRiders -> BOOLEAN] /\ hasOffer' \in [AccessRiders -> BOOLEAN]
    BY <1>2, <2>1 DEF AccessInv, AccessTypeOK, AccessStates
  <2>5. MasterOf(linkedTo[r] \ {x}, "reapply_required", FALSE, FALSE, FALSE)
    BY <1>5 DEF MasterOf
  <2>6. /\ linkedTo'[r] = linkedTo[r] \ {x} /\ platformAccess'[r] = "reapply_required"
        /\ onDuty'[r] = FALSE /\ hasOffer'[r] = FALSE /\ carrying'[r] = FALSE
    BY <1>2, <2>1 DEF AccessInv, AccessTypeOK
  <2>7. rowHolder[r]["profile"] = t
    BY <1>4, <1>11
  <2>8. \A q \in AccessRiders : q # r =>
           /\ linkedTo'[q] = linkedTo[q] /\ platformAccess'[q] = platformAccess[q]
           /\ onDuty'[q] = onDuty[q] /\ hasOffer'[q] = hasOffer[q]
    BY <2>1 DEF AccessInv, AccessTypeOK
  <2>9. MasterOf(linkedTo'[r], platformAccess'[r], onDuty'[r], carrying'[r], hasOffer'[r])
    BY <2>5, <2>6
  <2>10. carrying' \in [AccessRiders -> BOOLEAN] /\ carrying' = carrying
    BY <2>1 DEF AccessInv, AccessTypeOK
  <2> QED BY <1>1, <1>2, <2>3, <2>4, <2>7, <2>8, <2>9, <2>10, WritesKeep
<1>12. ASSUME NEW online \in BOOLEAN, o.kind = IF online THEN "online" ELSE "offline",
              WritesDuty(r, online)
       PROVE  AccessInv'
  <2>1. /\ onDuty' = [onDuty EXCEPT ![r] = online]
        /\ UNCHANGED <<linkedTo, invitation, platformAccess, carrying, hasOffer>>
    BY <1>12 DEF WritesDuty
  <2>2. MasterOf(linkedTo[r], platformAccess[r], online, carrying[r], hasOffer[r])
    BY <1>3, <1>5, <1>12 DEF MasterOf, ReliesOn
  <2> QED BY <1>1, <1>2, <2>1, <2>2, WritesKeep DEF AccessInv, AccessTypeOK
<1>13. CASE WritesFinish(r)
  <2>1. /\ carrying' = [carrying EXCEPT ![r] = FALSE]
        /\ UNCHANGED <<linkedTo, invitation, platformAccess, onDuty, hasOffer>>
    BY <1>13 DEF WritesFinish
  <2>2. MasterOf(linkedTo[r], platformAccess[r], onDuty[r], FALSE, hasOffer[r])
    BY <1>5 DEF MasterOf
  <2> QED BY <1>1, <1>2, <2>1, <2>2, WritesKeep DEF AccessInv, AccessTypeOK
<1>14. ASSUME NEW state \in AccessStates, o.kind \in {"reapply", "approve", "reject"},
              WritesAccess(r, state)
       PROVE  AccessInv'
  <2>1. /\ platformAccess' = [platformAccess EXCEPT ![r] = state]
        /\ UNCHANGED <<linkedTo, invitation, onDuty, carrying, hasOffer>>
    BY <1>14 DEF WritesAccess
  <2>2. MasterOf(linkedTo[r], state, onDuty[r], carrying[r], hasOffer[r])
    BY <1>3, <1>5, <1>14 DEF MasterOf, ReliesOn
  <2>3. rowHolder[r]["profile"] = t
    BY <1>4, <1>14
  <2> QED BY <1>1, <1>2, <2>1, <2>2, <2>3, WritesKeep DEF AccessInv, AccessTypeOK
<1> QED
  BY <1>1, <1>7, <1>8, <1>9, <1>10, <1>11, <1>12, <1>13, <1>14
  DEF Writes, AccessStates, r, x

\* Invitations, and offers that end, concern no master.
LEMMA AccessOutsideKeeps ==
  ASSUME AccessInv, NEW r \in AccessRiders,
         (\E x \in Employers : Invites(r, x) \/ Lapses(r, x)) \/ OfferEnds(r)
  PROVE  AccessInv'
<1>1. UNCHANGED <<linkedTo, platformAccess, onDuty, carrying, rowHolder, openTx>>
  BY DEF Invites, Lapses, OfferEnds
<1>2. \/ \E x \in Employers, status \in {"pending", "closed"} :
           /\ invitation' = [invitation EXCEPT ![r][x] = status]
           /\ UNCHANGED hasOffer
      \/ hasOffer' = [hasOffer EXCEPT ![r] = FALSE] /\ UNCHANGED invitation
  BY DEF Invites, Lapses, OfferEnds
<1>3. /\ invitation' \in [AccessRiders -> [Employers -> InvitationStatuses]]
      /\ hasOffer' \in [AccessRiders -> BOOLEAN]
      /\ \A q \in AccessRiders : hasOffer'[q] => hasOffer[q]
  <2>1. ASSUME NEW x \in Employers, NEW status \in {"pending", "closed"},
               invitation' = [invitation EXCEPT ![r][x] = status], UNCHANGED hasOffer
        PROVE  /\ invitation' \in [AccessRiders -> [Employers -> InvitationStatuses]]
               /\ hasOffer' \in [AccessRiders -> BOOLEAN]
               /\ \A q \in AccessRiders : hasOffer'[q] => hasOffer[q]
    <3>1. status \in InvitationStatuses
      BY DEF InvitationStatuses
    <3> QED BY <2>1, <3>1 DEF AccessInv, AccessTypeOK
  <2>2. CASE hasOffer' = [hasOffer EXCEPT ![r] = FALSE] /\ UNCHANGED invitation
    BY <2>2 DEF AccessInv, AccessTypeOK
  <2> QED BY <1>2, <2>1, <2>2
<1>4. AccessTypeOK'
  BY <1>1, <1>3 DEF AccessInv, AccessTypeOK
<1>5. Mastered'
  BY <1>1, <1>3 DEF AccessInv, Mastered, MasterOf
<1> QED
  BY <1>1, <1>4, <1>5 DEF AccessInv, HoldsProfile, StillPermitted, Placed

\* At first nobody has a restaurant, an offer or a delivery.
LEMMA AccessInvInit == AccessInit => AccessInv
<1> SUFFICES ASSUME AccessInit PROVE AccessInv
  OBVIOUS
<1>1. AccessTypeOK
  BY DEF AccessInit, AccessTypeOK, InvitationStatuses, AccessStates
<1>2. Mastered
  BY DEF AccessInit, Mastered, MasterOf
<1> QED
  BY <1>1, <1>2 DEF AccessInit, AccessInv, HoldsProfile, StillPermitted, Placed

\* Every step keeps the invariant.
LEMMA AccessInvNext == AccessInv /\ [AccessNext]_accessVars => AccessInv'
<1> SUFFICES ASSUME AccessInv, [AccessNext]_accessVars PROVE AccessInv'
  OBVIOUS
<1>1. ASSUME NEW t \in AccessTxs, NEW r \in AccessRiders,
             \/ \E kind \in Joining, x \in Employers : StartsTx(t, r, kind, x)
             \/ \E kind \in PlatformWork : StartsTx(t, r, kind, NoEmployer)
      PROVE  AccessInv'
  BY <1>1, AccessStartKeeps DEF TxKinds, Joining, PlatformWork
<1>2. ASSUME NEW t \in AccessTxs,
             TakesLock(t) \/ PassesGuard(t) \/ CommitsTx(t) \/ RollsBackTx(t)
      PROVE  AccessInv'
  BY <1>2, AccessLockKeeps, GuardKeeps, AccessCommitKeeps, AccessRollbackKeeps
<1>3. CASE UNCHANGED accessVars
  BY <1>3 DEF accessVars, AccessInv, AccessTypeOK, HoldsProfile, StillPermitted, Placed, Mastered
<1> QED BY <1>1, <1>2, <1>3, AccessOutsideKeeps DEF AccessNext

-----------------------------------------------------------------------------
\* Rows, locks and transactions are well typed, and what every transaction read
\* under the profile lock is still true, for any number of them.
THEOREM AccessInvariant == AccessSpec => []AccessInv
BY AccessInvInit, AccessInvNext, PTL DEF AccessSpec

\* Whatever invitations, removals, applications, shifts and offers overlap: a
\* rider has one restaurant at most, and works for the platform only while he
\* has none and the platform admits him.
THEOREM WorksForOne == AccessSpec => []OneMaster
<1>1. AccessInv => OneMaster
  <2> SUFFICES ASSUME AccessInv, NEW r \in AccessRiders
               PROVE  /\ Cardinality(linkedTo[r]) <= 1
                      /\ hasOffer[r] \/ carrying[r] => ~Linked(r) /\ Approved(r)
                      /\ onDuty[r] /\ ~Linked(r) => Approved(r)
    BY DEF OneMaster
  <2>1. MasterOf(linkedTo[r], platformAccess[r], onDuty[r], carrying[r], hasOffer[r])
    BY DEF AccessInv, Mastered
  <2>2. Cardinality(linkedTo[r]) <= 1
    <3>1. CASE linkedTo[r] = {}
      BY <3>1, FS_EmptySet
    <3>2. ASSUME NEW x \in linkedTo[r] PROVE Cardinality(linkedTo[r]) <= 1
      <4>1. linkedTo[r] = {x}
        BY <2>1, <3>2 DEF MasterOf
      <4>2. Cardinality({x}) = 1
        BY FS_Singleton
      <4> QED BY <4>1, <4>2
    <3> QED BY <3>1, <3>2
  <2> QED BY <2>1, <2>2 DEF MasterOf, Linked, Approved
<1> QED BY <1>1, AccessInvariant, PTL

-----------------------------------------------------------------------------
(* Own-rider events.                                                       *)

Bundles == [step : Steps, message : Messages]

\* A message that has been sent is of an assignment made, and the last is of
\* whoever is assigned.
Posted(m, count, who) ==
  /\ m \in Messages /\ m.number <= count
  /\ m.number = count => m.rider = who

\* Who holds the last message and is about to delete it has seen the rider on
\* the row, or the end of the order, or a row that platform dispatch created.
Handled(w, count, over, on) ==
  /\ w.step = "mark" => w.message.rider \in on
  /\ w.step = "ack" /\ w.message.number = count /\ ~over => w.message.rider \in on

\* What every consumer has in hand.
InHand(hands, count, who, over, on) ==
  \A h \in Handlers :
    hands[h] # Resting => /\ hands[h] \in Bundles
                          /\ Posted(hands[h].message, count, who)
                          /\ Handled(hands[h], count, over, on)

EventsTyped ==
  /\ named \in OwnStaff \cup {NoStaff} /\ onRow \in OwnStaff \cup {NoStaff}
  /\ processed \subseteq served /\ served \subseteq OwnStaff
  /\ ended \in BOOLEAN /\ dispatched \in BOOLEAN /\ owned \in BOOLEAN
  /\ assigned \in 0 .. MaxAssigned /\ lost \in 0 .. MaxLost
  /\ onRow # NoStaff => owned /\ onRow \in served
  /\ named \in OwnStaff => assigned > 0

OwnEventsInv ==
  /\ EventsTyped
  /\ \A m \in queue : Posted(m, assigned, named)
  /\ DOMAIN handler = Handlers /\ handler = [h \in Handlers |-> handler[h]]
  /\ InHand(handler, assigned, named, ended \/ dispatched, served)
  /\ EventKept

\* The inductive invariant keeps the types.
LEMMA EventsInTypes == OwnEventsInv => OwnEventsTypeOK
<1> SUFFICES ASSUME OwnEventsInv PROVE OwnEventsTypeOK
  OBVIOUS
<1>1. queue \subseteq Messages
  BY DEF OwnEventsInv, Posted
<1>2. handler \in [Handlers -> Bundles \cup {Resting}]
  BY DEF OwnEventsInv, InHand
<1>3. processed \subseteq OwnStaff
  BY DEF OwnEventsInv, EventsTyped
<1> QED BY <1>1, <1>2, <1>3 DEF OwnEventsInv, EventsTyped, OwnEventsTypeOK, Bundles

\* A consumer at work.
LEMMA AtWork ==
  ASSUME OwnEventsInv, NEW h \in Handlers, handler[h].step # "poll"
  PROVE  /\ handler[h] # Resting /\ handler[h] \in Bundles
         /\ Posted(handler[h].message, assigned, named)
         /\ Handled(handler[h], assigned, ended \/ dispatched, served)
<1>1. handler[h] # Resting
  BY DEF Resting
<1> QED BY <1>1 DEF OwnEventsInv, InHand

\* One consumer goes on with the message it has, and the row may get a rider.
LEMMA ConsumerMoves ==
  ASSUME OwnEventsInv, NEW h \in Handlers, NEW w \in Bundles,
         Posted(w.message, assigned, named), Handled(w, assigned, ended \/ dispatched, served'),
         handler' = [handler EXCEPT ![h] = w],
         served \subseteq served', EventsTyped', EventKept', queue' = queue,
         UNCHANGED <<named, ended, dispatched, assigned>>
  PROVE  OwnEventsInv'
<1>1. handler' = [k \in Handlers |-> IF k = h THEN w ELSE handler[k]]
  BY DEF OwnEventsInv
<1>2. InHand(handler', assigned, named, ended \/ dispatched, served')
  <2> SUFFICES ASSUME NEW k \in Handlers, handler'[k] # Resting
               PROVE  /\ handler'[k] \in Bundles
                      /\ Posted(handler'[k].message, assigned, named)
                      /\ Handled(handler'[k], assigned, ended \/ dispatched, served')
    BY DEF InHand
  <2>1. CASE k = h
    BY <1>1, <2>1
  <2>2. CASE k # h
    <3>1. /\ handler'[k] = handler[k] /\ handler[k] \in Bundles
          /\ Posted(handler[k].message, assigned, named)
          /\ Handled(handler[k], assigned, ended \/ dispatched, served)
      BY <1>1, <2>2 DEF OwnEventsInv, InHand
    <3> QED BY <3>1 DEF Handled
  <2> QED BY <2>1, <2>2
<1>3. DOMAIN handler' = Handlers /\ handler' = [k \in Handlers |-> handler'[k]]
  BY <1>1
<1> QED BY <1>2, <1>3 DEF OwnEventsInv

\* One consumer lets its message go.
LEMMA ConsumerRests ==
  ASSUME OwnEventsInv, NEW h \in Handlers, EventsTyped', EventKept', queue' \subseteq queue,
         handler' = [handler EXCEPT ![h] = Resting],
         UNCHANGED <<named, ended, dispatched, assigned, served>>
  PROVE  OwnEventsInv'
<1>1. handler' = [k \in Handlers |-> IF k = h THEN Resting ELSE handler[k]]
  BY DEF OwnEventsInv
<1>2. InHand(handler', assigned, named, ended \/ dispatched, served)
  BY <1>1 DEF OwnEventsInv, InHand
<1>3. DOMAIN handler' = Handlers /\ handler' = [k \in Handlers |-> handler'[k]]
  BY <1>1
<1> QED BY <1>2, <1>3 DEF OwnEventsInv

\* A step with the message in hand is the message with the new step.
LEMMA StaysInHand ==
  ASSUME OwnEventsInv, NEW h \in Handlers, handler[h].step # "poll", NEW step \in Steps,
         Goes(h, step)
  PROVE  \E w \in Bundles : /\ handler' = [handler EXCEPT ![h] = w]
                            /\ w.step = step /\ w.message = handler[h].message
<1> DEFINE w == [handler[h] EXCEPT !.step = step]
<1>1. handler[h] \in Bundles
  BY AtWork
<1>2. w \in Bundles /\ w.step = step /\ w.message = handler[h].message
  BY <1>1 DEF Bundles
<1>3. handler' = [handler EXCEPT ![h] = w]
  BY DEF Goes
<1> HIDE DEF w
<1> QED BY <1>2, <1>3

-----------------------------------------------------------------------------
\* At first nothing is sent.
LEMMA EventsStart == OwnEventsInit => OwnEventsInv
<1> SUFFICES ASSUME OwnEventsInit PROVE OwnEventsInv
  OBVIOUS
<1>1. EventsTyped /\ EventKept /\ queue = {}
  <2>1. /\ named = NoStaff /\ onRow = NoStaff /\ named \notin OwnStaff
        /\ processed = {} /\ served = {} /\ queue = {} /\ ended = FALSE
        /\ dispatched = FALSE /\ owned = FALSE
    BY OwnEventsAssumption DEF OwnEventsInit
  <2>2. assigned \in 0 .. MaxAssigned /\ lost \in 0 .. MaxLost
    BY OwnEventsAssumption DEF OwnEventsInit
  <2>3. EventsTyped
    BY <2>1, <2>2 DEF EventsTyped
  <2>4. EventKept
    BY <2>1 DEF EventKept
  <2> QED BY <2>1, <2>3, <2>4
<1>2. /\ handler = [h \in Handlers |-> Resting] /\ \A h \in Handlers : handler[h] = Resting
      /\ DOMAIN handler = Handlers
  BY DEF OwnEventsInit
<1>3. /\ handler = [h \in Handlers |-> handler[h]]
      /\ InHand(handler, assigned, named, ended \/ dispatched, served)
  BY <1>2 DEF InHand
<1> QED BY <1>1, <1>2, <1>3 DEF OwnEventsInv

\* A new assignment makes every older message one that is not the last.
LEMMA OwnerAssignsKeeps ==
  ASSUME OwnEventsInv, NEW x \in OwnStaff, OwnerAssigns(x)
  PROVE  OwnEventsInv'
<1> DEFINE m == [rider |-> x, number |-> assigned + 1]
<1>1. /\ ~ended /\ named' = x /\ assigned' = assigned + 1 /\ queue' = queue \cup {m}
      /\ assigned < MaxAssigned
      /\ UNCHANGED <<ended, dispatched, owned, onRow, processed, handler, served, lost>>
  BY DEF OwnerAssigns, rowVars
<1>2. /\ assigned \in Nat /\ assigned' \in 0 .. MaxAssigned /\ MaxAssigned \in Nat
      /\ assigned' > 0 /\ assigned + 1 \in 1 .. MaxAssigned
  BY <1>1, OwnEventsAssumption DEF OwnEventsInv, EventsTyped
<1>3. EventsTyped'
  BY <1>1, <1>2 DEF OwnEventsInv, EventsTyped
<1>4. \A n : Posted(n, assigned, named) => Posted(n, assigned', named') /\ n.number # assigned'
  <2> SUFFICES ASSUME NEW n, Posted(n, assigned, named)
               PROVE  Posted(n, assigned', named') /\ n.number # assigned'
    OBVIOUS
  <2>1. n \in Messages /\ n.number <= assigned /\ n.number \in Nat
    BY DEF Posted, Messages
  <2> QED BY <1>1, <1>2, <2>1 DEF Posted
<1>5. Posted(m, assigned', named') /\ m.rider = x /\ m.number = assigned'
  <2>1. m \in Messages /\ m.rider = x /\ m.number = assigned + 1
    BY <1>2 DEF Messages
  <2> HIDE DEF m
  <2> QED BY <1>1, <1>2, <2>1 DEF Posted
<1>6. \A n \in queue' : Posted(n, assigned', named')
  BY <1>1, <1>4, <1>5 DEF OwnEventsInv
<1>7. InHand(handler', assigned', named', ended' \/ dispatched', served')
  <2> SUFFICES ASSUME NEW h \in Handlers, handler[h] # Resting
               PROVE  /\ handler[h] \in Bundles
                      /\ Posted(handler[h].message, assigned', named')
                      /\ Handled(handler[h], assigned', ended' \/ dispatched', served')
    BY <1>1 DEF InHand
  <2>1. /\ handler[h] \in Bundles /\ Posted(handler[h].message, assigned, named)
        /\ Handled(handler[h], assigned, ended \/ dispatched, served)
    BY DEF OwnEventsInv, InHand
  <2>2. Posted(handler[h].message, assigned', named') /\ handler[h].message.number # assigned'
    BY <1>4, <2>1
  <2> QED BY <1>1, <2>1, <2>2 DEF Handled
<1>8. EventKept'
  BY <1>1 DEF EventKept
<1> QED BY <1>1, <1>3, <1>6, <1>7, <1>8 DEF OwnEventsInv

\* Nothing waits for an order that is over.
LEMMA OwnerEndsKeeps ==
  ASSUME OwnEventsInv, OwnerEnds
  PROVE  OwnEventsInv'
<1>1. /\ ended' = TRUE
      /\ UNCHANGED <<named, rowVars, processed, queue, handler, assigned, lost>>
  BY DEF OwnerEnds
<1>2. EventsTyped' /\ EventKept'
  BY <1>1 DEF OwnEventsInv, EventsTyped, EventKept, rowVars
<1>3. InHand(handler', assigned', named', ended' \/ dispatched', served')
  BY <1>1 DEF OwnEventsInv, InHand, Handled, rowVars
<1> QED BY <1>1, <1>2, <1>3 DEF OwnEventsInv

\* Nothing waits for an order that platform dispatch had before.
LEMMA PlatformDispatchesKeeps ==
  ASSUME OwnEventsInv, PlatformDispatches
  PROVE  OwnEventsInv'
<1>1. /\ dispatched' = TRUE
      /\ UNCHANGED <<named, ended, owned, onRow, processed, queue, handler, served, assigned,
                     lost>>
  BY DEF PlatformDispatches, sourceVars
<1>2. EventsTyped' /\ EventKept'
  BY <1>1 DEF OwnEventsInv, EventsTyped, EventKept
<1>3. InHand(handler', assigned', named', ended' \/ dispatched', served')
  BY <1>1 DEF OwnEventsInv, InHand, Handled
<1> QED BY <1>1, <1>2, <1>3 DEF OwnEventsInv

\* A consumer is handed a message.
LEMMA ReceivesKeeps ==
  ASSUME OwnEventsInv, NEW h \in Handlers, NEW m \in queue, Receives(h, m)
  PROVE  OwnEventsInv'
<1> DEFINE w == [step |-> "current", message |-> m]
<1>1. /\ handler' = [handler EXCEPT ![h] = w]
      /\ UNCHANGED <<sourceVars, rowVars, processed, queue, assigned, lost>>
  BY DEF Receives
<1>2. Posted(m, assigned, named) /\ m \in Messages
  BY DEF OwnEventsInv, Posted
<1>3. w \in Bundles /\ w.step = "current" /\ w.message = m
  BY <1>2 DEF Bundles, Steps
<1> HIDE DEF w
<1>4. Handled(w, assigned, ended \/ dispatched, served')
  BY <1>3 DEF Handled
<1>5. EventsTyped' /\ EventKept'
  BY <1>1 DEF OwnEventsInv, EventsTyped, EventKept, sourceVars, rowVars
<1> QED BY <1>1, <1>2, <1>3, <1>4, <1>5, ConsumerMoves DEF sourceVars, rowVars

\* A message that is put aside unseen is of an assignment that is gone.
LEMMA ChecksCurrentKeeps ==
  ASSUME OwnEventsInv, NEW h \in Handlers, ChecksCurrent(h)
  PROVE  OwnEventsInv'
<1> DEFINE step == IF Current(Who(h)) THEN "processed" ELSE "ack"
<1>1. /\ handler[h].step # "poll" /\ Goes(h, step) /\ step \in Steps
      /\ UNCHANGED <<sourceVars, rowVars, processed, queue, assigned, lost>>
  BY DEF ChecksCurrent, At, Steps
<1>2. step = "ack" => named # Who(h) \/ ended \/ dispatched
  BY DEF Current, Stands
<1>3. step # "mark"
  OBVIOUS
<1> HIDE DEF step
<1>4. PICK w \in Bundles : /\ handler' = [handler EXCEPT ![h] = w]
                           /\ w.step = step /\ w.message = handler[h].message
  BY <1>1, StaysInHand
<1>5. Posted(w.message, assigned, named)
  BY <1>1, <1>4, AtWork
<1>6. Handled(w, assigned, ended \/ dispatched, served')
  BY <1>2, <1>3, <1>4, <1>5 DEF Handled, Posted, Who
<1>7. EventsTyped' /\ EventKept'
  BY <1>1 DEF OwnEventsInv, EventsTyped, EventKept, sourceVars, rowVars
<1> QED BY <1>1, <1>4, <1>5, <1>6, <1>7, ConsumerMoves DEF sourceVars, rowVars

\* Who is marked has been on the row.
LEMMA ChecksProcessedKeeps ==
  ASSUME OwnEventsInv, NEW h \in Handlers, ChecksProcessed(h)
  PROVE  OwnEventsInv'
<1> DEFINE step == IF Who(h) \in processed THEN "ack" ELSE "upsert"
<1>1. /\ handler[h].step # "poll" /\ Goes(h, step) /\ step \in Steps
      /\ UNCHANGED <<sourceVars, rowVars, processed, queue, assigned, lost>>
  BY DEF ChecksProcessed, At, Steps
<1>2. /\ step = "ack" => Who(h) \in served
      /\ step # "mark"
  BY DEF OwnEventsInv, EventsTyped
<1> HIDE DEF step
<1>4. PICK w \in Bundles : /\ handler' = [handler EXCEPT ![h] = w]
                           /\ w.step = step /\ w.message = handler[h].message
  BY <1>1, StaysInHand
<1>5. Posted(w.message, assigned, named)
  BY <1>1, <1>4, AtWork
<1>6. Handled(w, assigned, ended \/ dispatched, served')
  BY <1>1, <1>2, <1>4 DEF Handled, Who, rowVars
<1>7. EventsTyped' /\ EventKept'
  BY <1>1 DEF OwnEventsInv, EventsTyped, EventKept, sourceVars, rowVars
<1> QED BY <1>1, <1>4, <1>5, <1>6, <1>7, ConsumerMoves DEF sourceVars, rowVars

\* An upsert finds its rider on the order, or the assignment gone.
LEMMA SelectsKeeps ==
  ASSUME OwnEventsInv, NEW h \in Handlers, SelectsOwnOrder(h)
  PROVE  OwnEventsInv'
<1> DEFINE step == IF Stands(Who(h)) THEN "write" ELSE "ack"
<1>1. /\ handler[h].step # "poll" /\ Goes(h, step) /\ step \in Steps
      /\ UNCHANGED <<sourceVars, rowVars, processed, queue, assigned, lost>>
  BY DEF SelectsOwnOrder, At, Steps
<1>2. /\ step = "ack" => named # Who(h) \/ ended
      /\ step # "mark"
  BY DEF Stands
<1> HIDE DEF step
<1>3. PICK w \in Bundles : /\ handler' = [handler EXCEPT ![h] = w]
                           /\ w.step = step /\ w.message = handler[h].message
  BY <1>1, StaysInHand
<1>4. Posted(w.message, assigned, named)
  BY <1>1, <1>3, AtWork
<1>5. Handled(w, assigned, ended \/ dispatched, served')
  BY <1>2, <1>3, <1>4 DEF Handled, Posted, Who
<1>6. EventsTyped' /\ EventKept'
  BY <1>1 DEF OwnEventsInv, EventsTyped, EventKept, sourceVars, rowVars
<1> QED BY <1>1, <1>3, <1>4, <1>5, <1>6, ConsumerMoves DEF sourceVars, rowVars

\* It puts its rider on the row.
LEMMA UpsertsKeeps ==
  ASSUME OwnEventsInv, NEW h \in Handlers, UpsertsOwnOrder(h)
  PROVE  OwnEventsInv'
<1>1. /\ handler[h].step # "poll" /\ Goes(h, "mark") /\ "mark" \in Steps
      /\ onRow' = Who(h) /\ served' = served \cup {Who(h)} /\ owned' = TRUE
      /\ UNCHANGED <<named, ended, dispatched, processed, queue, assigned, lost>>
  BY DEF UpsertsOwnOrder, At, Steps, sourceVars
<1>2. /\ handler[h] \in Bundles /\ Posted(handler[h].message, assigned, named)
      /\ Who(h) \in OwnStaff
  <2>1. handler[h] \in Bundles /\ Posted(handler[h].message, assigned, named)
    BY <1>1, AtWork
  <2> QED BY <2>1 DEF Posted, Messages, Who
<1>3. PICK w \in Bundles : /\ handler' = [handler EXCEPT ![h] = w]
                           /\ w.step = "mark" /\ w.message = handler[h].message
  BY <1>1, StaysInHand
<1>4. Handled(w, assigned, ended \/ dispatched, served')
  BY <1>1, <1>3 DEF Handled, Who
<1>5. EventsTyped' /\ EventKept'
  BY <1>1, <1>2 DEF OwnEventsInv, EventsTyped, EventKept, sourceVars, rowVars
<1> QED BY <1>1, <1>2, <1>3, <1>4, <1>5, ConsumerMoves DEF sourceVars, rowVars

\* A mark is of a rider who has been on the row.
LEMMA MarksProcessedKeeps ==
  ASSUME OwnEventsInv, NEW h \in Handlers, MarksProcessed(h)
  PROVE  OwnEventsInv'
<1>1. /\ handler[h].step = "mark" /\ Goes(h, "ack") /\ "ack" \in Steps
      /\ processed' \in {processed, processed \cup {Who(h)}} /\ lost' \in 0 .. MaxLost
      /\ UNCHANGED <<sourceVars, rowVars, queue, assigned>>
  BY OwnEventsAssumption DEF MarksProcessed, At, Steps, OwnEventsInv, EventsTyped
<1>2. /\ Posted(handler[h].message, assigned, named) /\ Who(h) \in served
  BY <1>1, AtWork DEF Handled, Who
<1>3. PICK w \in Bundles : /\ handler' = [handler EXCEPT ![h] = w]
                           /\ w.step = "ack" /\ w.message = handler[h].message
  BY <1>1, StaysInHand
<1>4. Handled(w, assigned, ended \/ dispatched, served')
  BY <1>1, <1>2, <1>3 DEF Handled, Who, rowVars
<1>5. EventsTyped' /\ EventKept'
  BY <1>1, <1>2 DEF OwnEventsInv, EventsTyped, EventKept, sourceVars, rowVars
<1> QED BY <1>1, <1>2, <1>3, <1>4, <1>5, ConsumerMoves DEF sourceVars, rowVars

\* The message that is deleted is not the one that is waited for.
LEMMA AcksKeeps ==
  ASSUME OwnEventsInv, NEW h \in Handlers, Acks(h)
  PROVE  OwnEventsInv'
<1>1. /\ handler[h].step = "ack" /\ handler' = [handler EXCEPT ![h] = Resting]
      /\ queue' \in {queue, queue \ {handler[h].message}} /\ lost' \in 0 .. MaxLost
      /\ UNCHANGED <<sourceVars, rowVars, processed, assigned>>
  BY OwnEventsAssumption DEF Acks, At, OwnEventsInv, EventsTyped
<1>2. /\ Posted(handler[h].message, assigned, named)
      /\ Handled(handler[h], assigned, ended \/ dispatched, served)
  BY <1>1, AtWork
<1>3. EventsTyped'
  BY <1>1 DEF OwnEventsInv, EventsTyped, sourceVars, rowVars
<1>4. EventKept'
  <2> DEFINE last == [rider |-> named, number |-> assigned]
  <2> SUFFICES ASSUME ~ended, ~dispatched, named \in OwnStaff \ served
               PROVE  last \in queue'
    BY <1>1 DEF EventKept, sourceVars, rowVars
  <2>1. last \in queue
    BY DEF OwnEventsInv, EventKept
  <2>2. last.rider = named /\ last.number = assigned
    OBVIOUS
  <2> HIDE DEF last
  <2>3. handler[h].message # last
    BY <1>1, <1>2, <2>2 DEF Handled
  <2> QED BY <1>1, <2>1, <2>3
<1> QED BY <1>1, <1>3, <1>4, ConsumerRests DEF sourceVars, rowVars

\* A consumer that fails leaves the message.
LEMMA HandlerFailsKeeps ==
  ASSUME OwnEventsInv, NEW h \in Handlers, HandlerFails(h)
  PROVE  OwnEventsInv'
<1>1. /\ handler' = [handler EXCEPT ![h] = Resting] /\ lost' \in 0 .. MaxLost
      /\ UNCHANGED <<sourceVars, rowVars, processed, queue, assigned>>
  BY OwnEventsAssumption DEF HandlerFails, OwnEventsInv, EventsTyped
<1>2. EventsTyped' /\ EventKept'
  BY <1>1 DEF OwnEventsInv, EventsTyped, EventKept, sourceVars, rowVars
<1> QED BY <1>1, <1>2, ConsumerRests DEF sourceVars, rowVars

\* Every step keeps the invariant.
LEMMA EventsKept == OwnEventsInv /\ [OwnEventsNext]_ownEventVars => OwnEventsInv'
<1> SUFFICES ASSUME OwnEventsInv, [OwnEventsNext]_ownEventVars PROVE OwnEventsInv'
  OBVIOUS
<1>1. CASE UNCHANGED ownEventVars
  BY <1>1 DEF ownEventVars, sourceVars, rowVars, OwnEventsInv, EventsTyped, EventKept
<1>2. ASSUME NEW x \in OwnStaff, OwnerAssigns(x) PROVE OwnEventsInv'
  BY <1>2, OwnerAssignsKeeps
<1>3. CASE OwnerEnds
  BY <1>3, OwnerEndsKeeps
<1>4. ASSUME NEW h \in Handlers, NEW m \in queue, Receives(h, m) PROVE OwnEventsInv'
  BY <1>4, ReceivesKeeps
<1>5. ASSUME NEW h \in Handlers, HandlesEvent(h) PROVE OwnEventsInv'
  BY <1>5, ChecksCurrentKeeps, ChecksProcessedKeeps, SelectsKeeps, UpsertsKeeps,
     MarksProcessedKeeps, AcksKeeps DEF HandlesEvent
<1>6. ASSUME NEW h \in Handlers, HandlerFails(h) PROVE OwnEventsInv'
  BY <1>6, HandlerFailsKeeps
<1>7. CASE PlatformDispatches
  BY <1>7, PlatformDispatchesKeeps
<1> QED BY <1>1, <1>2, <1>3, <1>4, <1>5, <1>6, <1>7 DEF OwnEventsNext

\* The invariant of the own-rider events.
LEMMA EventsHold == OwnEventsSpec => []OwnEventsInv
BY EventsStart, EventsKept, PTL DEF OwnEventsSpec

\* Rows, messages and consumers are what the code makes of them.
THEOREM EventsTyping == OwnEventsSpec => []OwnEventsTypeOK
BY EventsHold, EventsInTypes, PTL

\* However messages are repeated, overtaken or failed, the message of an
\* assignment that stands is not deleted before its rider has been on the row,
\* unless platform dispatch created the row; and who is marked as processed has
\* been on it, whoever created it.
THEOREM AssignmentsKept == OwnEventsSpec => [](EventKept /\ processed \subseteq served)
<1>1. OwnEventsInv => EventKept /\ processed \subseteq served
  BY DEF OwnEventsInv, EventsTyped
<1> QED BY <1>1, EventsHold, PTL
=============================================================================
