---------------------------- MODULE Money_proofs -----------------------------
(***************************************************************************)
(* Theorems about the money, for any riders, transactions, amounts,        *)
(* administrators, contracts and deliveries.  Wallet: the ledger chains    *)
(* and settlements repeat their entries.  LegacyOrders: whoever delivers   *)
(* an order, only its own rider has its fee, and a rider's rides are the   *)
(* sum of the fees.  Contracts: no save is lost, and no two salaries of a  *)
(* rider overlap.  OfferPay: a rider is paid what the offer said, and a    *)
(* delivery is credited once.                                              *)
(***************************************************************************)
EXTENDS Wallet, LegacyOrders, Contracts, OfferPay, FiniteSetTheorems, WellFoundedInduction, TLAPS

\* Entries that follow each other from a balance, and the balance they leave.
Chained(s, start) ==
  \A i \in DOMAIN s :
    /\ Truthful(s[i])
    /\ s[i].before = IF i = 1 THEN start ELSE s[i - 1].after

Closing(s, start) == IF s = <<>> THEN start ELSE s[Len(s)].after

\* What the lock is for: a transaction that has it chains its entries to a
\* balance that stays, and a settlement makes one entry.
Honest(p, t, holder, start) ==
  /\ ~p.locked => p.made = <<>>
  /\ p.locked => holder = t /\ p.previous = start
  /\ Chained(p.made, start)
  /\ p.kind = "settlement" => Len(p.dues) + Len(p.made) = 1

PostingsHonest ==
  \A t \in Postings : posting[t] # NoPosting =>
    Honest(posting[t], t, walletLock[posting[t].rider], balance[posting[t].rider])

WalletInv == WalletTypeOK /\ LedgerChains /\ SettlementsClose /\ PostingsHonest

-----------------------------------------------------------------------------
(* Chains of entries.                                                      *)

\* An entry that starts where a chain ends makes it longer.
LEMMA ChainAppend ==
  ASSUME NEW s \in Seq(Entries), NEW e \in Entries, NEW start \in Int, Chained(s, start),
         e.before = Closing(s, start), Truthful(e)
  PROVE  Chained(Append(s, e), start)
<1> DEFINE u == Append(s, e)
<1>1. /\ DOMAIN u = 1 .. Len(s) + 1 /\ DOMAIN s = 1 .. Len(s) /\ Len(s) \in Nat
      /\ u[Len(s) + 1] = e /\ \A i \in 1 .. Len(s) : u[i] = s[i]
  OBVIOUS
<1>2. SUFFICES ASSUME NEW i \in 1 .. Len(s) + 1
               PROVE  /\ Truthful(u[i])
                      /\ u[i].before = IF i = 1 THEN start ELSE u[i - 1].after
  BY <1>1 DEF Chained
<1>3. CASE i = Len(s) + 1
  <2>1. CASE s = <<>>
    BY <1>1, <1>3, <2>1 DEF Closing
  <2>2. CASE s # <<>>
    <3>1. Len(s) > 0 /\ i # 1 /\ i - 1 = Len(s) /\ i - 1 \in 1 .. Len(s)
      BY <1>1, <1>3, <2>2
    <3> QED
      BY <1>1, <1>3, <2>2, <3>1 DEF Closing
  <2> QED
    BY <2>1, <2>2
<1>4. CASE i # Len(s) + 1
  <2>1. i \in DOMAIN s /\ u[i] = s[i] /\ (i # 1 => u[i - 1] = s[i - 1])
    BY <1>1, <1>4
  <2> QED
    BY <2>1 DEF Chained
<1> QED
  BY <1>3, <1>4

\* Where the entries of two sequences stand in their concatenation.
LEMMA Concatenated ==
  ASSUME NEW s \in Seq(Entries), NEW u \in Seq(Entries)
  PROVE  /\ Len(s) \in Nat /\ Len(u) \in Nat /\ Len(s \o u) = Len(s) + Len(u)
         /\ \A i \in DOMAIN s : i \in DOMAIN (s \o u) /\ (s \o u)[i] = s[i]
         /\ \A i \in DOMAIN u : Len(s) + i \in DOMAIN (s \o u) /\ (s \o u)[Len(s) + i] = u[i]
OBVIOUS

\* Two chains put end to end are one, and end where the second does.
LEMMA ChainConcat ==
  ASSUME NEW s \in Seq(Entries), NEW u \in Seq(Entries), NEW start \in Int,
         Chained(s, start), Chained(u, Closing(s, start))
  PROVE  /\ Chained(s \o u, start)
         /\ Closing(s \o u, start) = Closing(u, Closing(s, start))
<1> DEFINE w == s \o u
<1>1. /\ DOMAIN w = 1 .. Len(s) + Len(u) /\ DOMAIN s = 1 .. Len(s) /\ DOMAIN u = 1 .. Len(u)
      /\ Len(s) \in Nat /\ Len(u) \in Nat /\ Len(w) = Len(s) + Len(u)
      /\ \A i \in 1 .. Len(s) : w[i] = s[i]
      /\ \A i \in Len(s) + 1 .. Len(s) + Len(u) : w[i] = u[i - Len(s)]
  OBVIOUS
<1>2. ASSUME NEW i \in 1 .. Len(s) + Len(u)
      PROVE  /\ Truthful(w[i])
             /\ w[i].before = IF i = 1 THEN start ELSE w[i - 1].after
  <2>1. CASE i <= Len(s)
    <3>1. i \in DOMAIN s /\ w[i] = s[i] /\ (i # 1 => w[i - 1] = s[i - 1])
      BY <1>1, <2>1
    <3> QED
      BY <3>1 DEF Chained
  <2>2. CASE i = Len(s) + 1
    <3>1. 1 \in DOMAIN u /\ w[i] = u[1]
      BY <1>1, <2>2
    <3>2. Truthful(u[1]) /\ u[1].before = Closing(s, start)
      BY <3>1 DEF Chained
    <3>3. Closing(s, start) = IF i = 1 THEN start ELSE w[i - 1].after
      <4>1. CASE s = <<>>
        BY <2>2, <4>1 DEF Closing
      <4>2. CASE s # <<>>
        <5>1. i # 1 /\ i - 1 = Len(s) /\ i - 1 \in 1 .. Len(s)
          BY <1>1, <2>2, <4>2
        <5> QED
          BY <1>1, <4>2, <5>1 DEF Closing
      <4> QED
        BY <4>1, <4>2
    <3> QED
      BY <3>1, <3>2, <3>3
  <2>3. CASE i > Len(s) + 1
    <3> DEFINE j == i - Len(s)
    <3>1. /\ j \in DOMAIN u /\ j # 1 /\ w[i] = u[j] /\ i # 1
          /\ i - 1 \in Len(s) + 1 .. Len(s) + Len(u) /\ (i - 1) - Len(s) = j - 1
      BY <1>1, <2>3
    <3>2. w[i - 1] = u[j - 1]
      BY <1>1, <3>1
    <3> QED
      BY <3>1, <3>2 DEF Chained
  <2> QED
    BY <1>1, <2>1, <2>2, <2>3
<1>3. Chained(w, start)
  BY <1>1, <1>2 DEF Chained
<1>4. Closing(w, start) = Closing(u, Closing(s, start))
  <2>1. CASE u = <<>>
    <3>1. w = s
      BY <2>1
    <3> QED
      BY <2>1, <3>1 DEF Closing
  <2>2. CASE u # <<>>
    <3>1. w # <<>> /\ Len(u) > 0 /\ w[Len(w)] = u[Len(u)]
      BY <1>1, <2>2
    <3> QED
      BY <2>2, <3>1 DEF Closing
  <2> QED
    BY <2>1, <2>2
<1> QED
  BY <1>3, <1>4

-----------------------------------------------------------------------------
(* The types.                                                              *)

\* What a posting owes is whole, and a settlement owes one amount.
LEMMA DuesTyped ==
  ASSUME NEW kind \in PostingKinds, NEW dues \in Dues(kind)
  PROVE  dues \in Seq(Int) /\ (kind = "settlement" => Len(dues) = 1)
<1>1. \A x \in Amounts : x \in Int
  BY WalletAssumption
<1>2. CASE kind = "delivery"
  <2>1. dues \in DeliveryDues
    BY <1>2 DEF Dues
  <2>2. \/ \E pay \in Amounts : dues = <<pay>>
        \/ \E pay \in Amounts, cash \in Amounts : dues = <<pay, -cash>>
    BY <2>1 DEF DeliveryDues
  <2>3. \A pay \in Amounts : <<pay>> \in Seq(Int)
    BY <1>1
  <2>4. ASSUME NEW pay \in Amounts, NEW cash \in Amounts
        PROVE  <<pay, -cash>> \in Seq(Int)
    <3>1. pay \in Int /\ -cash \in Int
      BY <1>1
    <3> QED
      BY <3>1
  <2> QED
    BY <1>2, <2>2, <2>3, <2>4
<1>3. CASE kind = "settlement"
  <2>1. dues \in SettlementDues
    BY <1>3 DEF Dues
  <2>2. PICK got \in Amounts, paid \in Amounts, fix \in Amounts \cup {-a : a \in Amounts} :
          dues = <<(got - paid) + fix>>
    BY <2>1 DEF SettlementDues
  <2>3. (got - paid) + fix \in Int
    <3>1. fix \in Int
      BY <1>1
    <3> QED BY <1>1, <3>1
  <2> QED
    BY <2>2, <2>3
<1>4. CASE kind = "adjustment"
  <2>1. dues \in AdjustmentDues
    BY <1>4 DEF Dues
  <2>2. \E a \in Amounts : dues = <<a>> \/ dues = <<-a>>
    BY <2>1 DEF AdjustmentDues
  <2>3. ASSUME NEW a \in Amounts PROVE <<a>> \in Seq(Int) /\ <<-a>> \in Seq(Int)
    <3>1. a \in Int /\ -a \in Int
      BY <1>1
    <3> QED
      BY <3>1
  <2> QED
    BY <1>4, <2>2, <2>3
<1> QED
  BY <1>2, <1>3, <1>4 DEF PostingKinds

\* A transaction that is open is a record of all its fields.
LEMMA OpenPosting ==
  ASSUME WalletTypeOK, NEW t \in Postings, posting[t] # NoPosting
  PROVE  /\ posting[t] \in OpenPostings
         /\ posting[t].rider \in WalletRiders /\ posting[t].kind \in PostingKinds
         /\ posting[t].dues \in Seq(Int) /\ posting[t].made \in Seq(Entries)
         /\ balance[posting[t].rider] \in Int
<1>1. posting[t] \in OpenPostings
  BY DEF WalletTypeOK
<1> QED
  BY <1>1 DEF WalletTypeOK, OpenPostings

\* The balance a transaction sees closes what it has made.
LEMMA SeenCloses ==
  ASSUME WalletTypeOK, NEW t \in Postings, posting[t] # NoPosting
  PROVE  /\ Seen(posting[t]) = Closing(posting[t].made, balance[posting[t].rider])
         /\ Seen(posting[t]) \in Int
<1> DEFINE p == posting[t]
<1>1. p.made \in Seq(Entries) /\ balance[p.rider] \in Int
  BY OpenPosting
<1>2. CASE p.made = <<>>
  BY <1>1, <1>2 DEF Seen, Closing
<1>3. CASE p.made # <<>>
  <2>1. p.made[Len(p.made)] \in Entries
    BY <1>1, <1>3
  <2> QED
    BY <1>1, <1>3, <2>1 DEF Seen, Closing, Entries
<1> QED
  BY <1>2, <1>3

-----------------------------------------------------------------------------
(* The steps of a transaction.                                             *)

\* A rounding to the nearest coin is within half a coin.
LEMMA NearestIsNear ==
  ASSUME NEW x \in Int, NEW n \in Nearest(x)
  PROVE  n \in Int /\ WithinHalf(n, x)
BY DEF Nearest, WithinHalf

\* A transaction begins with nothing written.
LEMMA StartKeeps ==
  ASSUME WalletInv, NEW t \in Postings, NEW r \in WalletRiders,
         NEW kind \in PostingKinds, NEW dues \in Dues(kind), StartsPosting(t, r, kind, dues)
  PROVE  WalletInv'
<1> DEFINE new == [rider |-> r, kind |-> kind, dues |-> dues,
                   locked |-> FALSE, previous |-> 0, made |-> <<>>]
<1>1. new \in OpenPostings /\ (kind = "settlement" => Len(dues) = 1)
  BY DuesTyped DEF OpenPostings
<1>2. /\ posting' = [posting EXCEPT ![t] = new]
      /\ UNCHANGED <<balance, ledger, settlements, walletLock>>
  BY DEF StartsPosting
<1>3. WalletTypeOK'
  BY <1>1, <1>2 DEF WalletInv, WalletTypeOK
<1>4. LedgerChains' /\ SettlementsClose'
  BY <1>2 DEF WalletInv, LedgerChains, SettlementsClose
<1>5. Honest(new, t, walletLock[r], balance[r])
  BY <1>1 DEF Honest, Chained
<1>6. PostingsHonest'
  <2>1. ASSUME NEW u \in Postings, posting'[u] # NoPosting
        PROVE  Honest(posting'[u], u, walletLock'[posting'[u].rider], balance'[posting'[u].rider])
    <3>1. CASE u = t
      <4>1. posting'[u] = new
        BY <1>2, <3>1 DEF WalletInv, WalletTypeOK
      <4> QED
        BY <1>2, <1>5, <3>1, <4>1
    <3>2. CASE u # t
      <4>1. posting'[u] = posting[u]
        BY <1>2, <3>2 DEF WalletInv, WalletTypeOK
      <4> QED
        BY <1>2, <2>1, <4>1 DEF WalletInv, PostingsHonest
    <3> QED
      BY <3>1, <3>2
  <2> QED
    BY <2>1 DEF PostingsHonest
<1> QED
  BY <1>3, <1>4, <1>6 DEF WalletInv

\* The lock shows the committed balance, and nobody else has it.
LEMMA LockKeeps ==
  ASSUME WalletInv, NEW t \in Postings, LocksBalance(t)
  PROVE  WalletInv'
<1> DEFINE p == posting[t]
           r == p.rider
           new == [p EXCEPT !.locked = TRUE, !.previous = balance[r]]
<1>1. p # NoPosting /\ ~p.locked /\ walletLock[r] = NoPosting
  BY DEF LocksBalance
<1>2. p \in OpenPostings /\ r \in WalletRiders /\ balance[r] \in Int
  BY <1>1, OpenPosting DEF WalletInv
<1>3. new \in OpenPostings
  BY <1>2 DEF OpenPostings
<1>4. /\ posting' = [posting EXCEPT ![t] = new]
      /\ walletLock' = [walletLock EXCEPT ![r] = t]
      /\ UNCHANGED <<balance, ledger, settlements>>
  BY DEF LocksBalance, Locked, WalletInv, WalletTypeOK
<1>5. WalletTypeOK'
  BY <1>2, <1>3, <1>4 DEF WalletInv, WalletTypeOK
<1>6. LedgerChains' /\ SettlementsClose'
  BY <1>4 DEF WalletInv, LedgerChains, SettlementsClose
<1>7. Honest(p, t, walletLock[r], balance[r])
  BY <1>1 DEF WalletInv, PostingsHonest
<1>8. /\ new.locked /\ new.previous = balance[r] /\ new.rider = r
      /\ new.made = p.made /\ new.dues = p.dues /\ new.kind = p.kind
  BY <1>2 DEF OpenPostings
<1>9. Honest(new, t, t, balance[r])
  BY <1>1, <1>7, <1>8 DEF Honest
<1>10. PostingsHonest'
  <2>1. ASSUME NEW u \in Postings, posting'[u] # NoPosting
        PROVE  Honest(posting'[u], u, walletLock'[posting'[u].rider], balance'[posting'[u].rider])
    <3>1. CASE u = t
      <4>1. posting'[u] = new /\ walletLock'[new.rider] = t
        BY <1>2, <1>4, <1>8, <3>1 DEF WalletInv, WalletTypeOK
      <4> QED
        BY <1>4, <1>8, <1>9, <3>1, <4>1
    <3>2. CASE u # t
      <4> DEFINE q == posting[u]
      <4>1. posting'[u] = q /\ q # NoPosting
        BY <1>4, <2>1, <3>2 DEF WalletInv, WalletTypeOK
      <4>2. Honest(q, u, walletLock[q.rider], balance[q.rider])
        BY <4>1 DEF WalletInv, PostingsHonest
      <4>3. q.rider \in WalletRiders /\ q.locked \in BOOLEAN
        BY <4>1, OpenPosting DEF WalletInv, OpenPostings
      <4>4. CASE q.locked
        <5>1. q.rider # r
          BY <1>1, <4>2, <4>4, WalletAssumption DEF Honest
        <5> QED
          BY <1>2, <1>4, <4>1, <4>2, <4>3, <5>1 DEF WalletInv, WalletTypeOK
      <4>5. CASE ~q.locked
        <5> QED
          BY <1>4, <4>1, <4>2, <4>5 DEF Honest
      <4> QED
        BY <4>4, <4>5
    <3> QED
      BY <3>1, <3>2
  <2> QED
    BY <2>1 DEF PostingsHonest
<1> QED
  BY <1>5, <1>6, <1>10 DEF WalletInv

\* Each entry is chained to the one the transaction wrote before.
LEMMA PostKeeps ==
  ASSUME WalletInv, NEW t \in Postings, PostsEntry(t)
  PROVE  WalletInv'
<1>1. posting[t] # NoPosting /\ posting[t].locked /\ posting[t].dues # <<>>
  BY DEF PostsEntry
<1> PICK stored \in Nearest(Head(posting[t].dues)), moved \in Nearest(Head(posting[t].dues)) :
      posting' = [posting EXCEPT
        ![t].dues = Tail(posting[t].dues),
        ![t].made = Append(posting[t].made,
                           [due |-> Head(posting[t].dues), amount |-> stored,
                            before |-> Seen(posting[t]), after |-> Seen(posting[t]) + moved])]
  BY DEF PostsEntry
<1> DEFINE p == posting[t]
           r == p.rider
           e == [due |-> Head(p.dues), amount |-> stored, before |-> Seen(p),
                 after |-> Seen(p) + moved]
           new == [p EXCEPT !.dues = Tail(p.dues), !.made = Append(p.made, e)]
<1>2. /\ p \in OpenPostings /\ r \in WalletRiders /\ balance[r] \in Int
      /\ p.dues \in Seq(Int) /\ p.made \in Seq(Entries)
  BY <1>1, OpenPosting DEF WalletInv
<1>3. Seen(p) = Closing(p.made, balance[r]) /\ Seen(p) \in Int
  BY <1>1, SeenCloses DEF WalletInv
<1>4. /\ Head(p.dues) \in Int /\ Tail(p.dues) \in Seq(Int)
      /\ Len(Tail(p.dues)) = Len(p.dues) - 1
  BY <1>1, <1>2
<1>19. /\ stored \in Int /\ WithinHalf(stored, Head(p.dues))
       /\ moved \in Int /\ WithinHalf(moved, Head(p.dues))
  BY <1>4, NearestIsNear
<1>5. e \in Entries
  BY <1>3, <1>4, <1>19 DEF Entries
<1>6. /\ Append(p.made, e) \in Seq(Entries)
      /\ Len(Append(p.made, e)) = Len(p.made) + 1
  BY <1>2, <1>5
<1>7. new \in OpenPostings
  BY <1>2, <1>4, <1>6 DEF OpenPostings
<1>8. /\ posting' = [posting EXCEPT ![t] = new]
      /\ UNCHANGED <<balance, ledger, settlements, walletLock>>
  BY DEF PostsEntry, WalletInv, WalletTypeOK
<1>9. WalletTypeOK'
  BY <1>7, <1>8 DEF WalletInv, WalletTypeOK
<1>10. LedgerChains' /\ SettlementsClose'
  BY <1>8 DEF WalletInv, LedgerChains, SettlementsClose
<1>11. Honest(p, t, walletLock[r], balance[r])
  BY <1>1 DEF WalletInv, PostingsHonest
<1>12. /\ new.locked = p.locked /\ new.previous = p.previous /\ new.rider = r
       /\ new.made = Append(p.made, e) /\ new.dues = Tail(p.dues) /\ new.kind = p.kind
  BY <1>2 DEF OpenPostings
<1>13. Chained(p.made, balance[r])
  BY <1>11 DEF Honest
<1>14. e.before = Closing(p.made, balance[r]) /\ Truthful(e)
  <2>1. (Seen(p) + moved) - Seen(p) = moved
    BY <1>3, <1>19
  <2> QED BY <1>3, <1>19, <2>1 DEF Truthful
<1>15. Chained(Append(p.made, e), balance[r])
  BY <1>2, <1>5, <1>13, <1>14, ChainAppend
<1>16. Len(p.dues) \in Nat /\ Len(p.made) \in Nat
  BY <1>2
<1>17. Honest(new, t, walletLock[r], balance[r])
  <2>1. p.kind = "settlement" => Len(Tail(p.dues)) + Len(Append(p.made, e)) = 1
    <3>1. p.kind = "settlement" => Len(p.dues) + Len(p.made) = 1
      BY <1>11 DEF Honest
    <3>2. Len(Tail(p.dues)) = Len(p.dues) - 1
      BY <1>4
    <3>3. Len(Append(p.made, e)) = Len(p.made) + 1
      BY <1>6
    <3>4. \A a, b \in Nat : a + b = 1 => (a - 1) + (b + 1) = 1
      OBVIOUS
    <3> QED
      BY <1>16, <3>1, <3>2, <3>3, <3>4, Zenon
  <2>2. walletLock[r] = t /\ p.previous = balance[r]
    BY <1>1, <1>11 DEF Honest
  <2> HIDE DEF e, new
  <2> QED
    BY <1>1, <1>12, <1>15, <2>1, <2>2 DEF Honest
<1>18. PostingsHonest'
  <2>1. ASSUME NEW u \in Postings, posting'[u] # NoPosting
        PROVE  Honest(posting'[u], u, walletLock'[posting'[u].rider], balance'[posting'[u].rider])
    <3>1. CASE u = t
      <4>1. posting'[u] = new
        BY <1>8, <3>1 DEF WalletInv, WalletTypeOK
      <4> QED
        BY <1>8, <1>12, <1>17, <3>1, <4>1
    <3>2. CASE u # t
      <4>1. posting'[u] = posting[u]
        BY <1>8, <3>2 DEF WalletInv, WalletTypeOK
      <4> QED
        BY <1>8, <2>1, <4>1 DEF WalletInv, PostingsHonest
    <3> QED
      BY <3>1, <3>2
  <2> QED
    BY <2>1 DEF PostingsHonest
<1> QED
  BY <1>9, <1>10, <1>18 DEF WalletInv

\* A commit puts the entries behind those of the ledger.
LEMMA CommitKeeps ==
  ASSUME WalletInv, NEW t \in Postings, CommitsPosting(t)
  PROVE  WalletInv'
<1> DEFINE p == posting[t]
           r == p.rider
           row == SettlementRow(p, r)
<1>1. /\ p # NoPosting /\ p.locked /\ p.dues = <<>>
      /\ balance' = [balance EXCEPT ![r] = Seen(p)]
      /\ ledger' = [ledger EXCEPT ![r] = ledger[r] \o p.made]
      /\ walletLock' = [walletLock EXCEPT ![r] = NoPosting]
      /\ posting' = [posting EXCEPT ![t] = NoPosting]
      /\ settlements' = IF p.kind = "settlement"
                        THEN [settlements EXCEPT ![r] = Append(settlements[r], row)]
                        ELSE settlements
  BY DEF CommitsPosting
<1>2. /\ p \in OpenPostings /\ r \in WalletRiders /\ balance[r] \in Int
      /\ p.made \in Seq(Entries) /\ p.previous \in Int
  BY <1>1, OpenPosting DEF WalletInv, OpenPostings
<1>3. Seen(p) = Closing(p.made, balance[r]) /\ Seen(p) \in Int
  BY <1>1, SeenCloses DEF WalletInv
<1>4. ledger[r] \in Seq(Entries) /\ ledger[r] \o p.made \in Seq(Entries)
  BY <1>2 DEF WalletInv, WalletTypeOK
<1>5. Honest(p, t, walletLock[r], balance[r])
  BY <1>1 DEF WalletInv, PostingsHonest
<1>6. p.previous = balance[r] /\ walletLock[r] = t /\ Chained(p.made, balance[r])
  BY <1>1, <1>5 DEF Honest
<1>7. Chained(ledger[r], 0) /\ balance[r] = Closing(ledger[r], 0)
  BY <1>2 DEF WalletInv, LedgerChains, Chained, Closing
<1>8. /\ Chained(ledger[r] \o p.made, 0)
      /\ Closing(ledger[r] \o p.made, 0) = Seen(p)
  BY <1>2, <1>3, <1>4, <1>6, <1>7, ChainConcat
<1>9. LedgerChains'
  <2>1. ASSUME NEW x \in WalletRiders
        PROVE  Chained(ledger'[x], 0) /\ balance'[x] = Closing(ledger'[x], 0)
    <3>1. CASE x = r
      <4>1. ledger'[x] = ledger[r] \o p.made /\ balance'[x] = Seen(p)
        BY <1>1, <1>2, <3>1 DEF WalletInv, WalletTypeOK
      <4> QED
        BY <1>8, <4>1
    <3>2. CASE x # r
      <4>1. ledger'[x] = ledger[x] /\ balance'[x] = balance[x]
        BY <1>1, <1>2, <3>2 DEF WalletInv, WalletTypeOK
      <4> QED
        BY <4>1 DEF WalletInv, LedgerChains, Chained, Closing
    <3> QED
      BY <3>1, <3>2
  <2> QED
    BY <2>1 DEF LedgerChains, Chained, Closing
<1>10. ASSUME p.kind = "settlement"
       PROVE  /\ row \in SettlementRows
              /\ row.entry = Len(ledger[r]) + 1
              /\ row.entry \in DOMAIN (ledger[r] \o p.made)
              /\ SignedOff(row, (ledger[r] \o p.made)[row.entry])
  <2>1. Len(p.made) = 1
    <3>1. Len(p.dues) + Len(p.made) = 1 /\ Len(p.dues) = 0
      BY <1>1, <1>5, <1>10 DEF Honest
    <3> QED
      BY <1>2, <3>1
  <2>2. p.made[1] \in Entries /\ 1 \in DOMAIN p.made
    BY <1>2, <2>1
  <2>3. p.made[1].before = balance[r]
    BY <1>6, <2>2 DEF Chained
  <2>4. Len(ledger[r]) \in Nat
    BY <1>4
  <2>5. /\ row = [previous |-> p.previous, net |-> p.made[1].amount,
                  closing |-> p.made[1].after, entry |-> Len(ledger[r]) + 1]
        /\ row \in SettlementRows
    <3>1. p.made[1].amount \in Int /\ p.made[1].after \in Int
      BY <2>2 DEF Entries
    <3>2. p.previous \in Int /\ Len(ledger[r]) + 1 \in Nat
      BY <1>2, <2>4
    <3> QED
      BY <3>1, <3>2 DEF SettlementRow, SettlementRows
  <2>6. (ledger[r] \o p.made)[Len(ledger[r]) + 1] = p.made[1]
    BY <1>2, <1>4, <2>2, Concatenated
  <2>8. Len(ledger[r]) + 1 \in DOMAIN (ledger[r] \o p.made)
    BY <1>2, <1>4, <2>2, Concatenated
  <2>9. /\ row.entry = Len(ledger[r]) + 1 /\ row.net = p.made[1].amount
        /\ row.previous = balance[r] /\ row.closing = p.made[1].after
    BY <1>6, <2>5
  <2> HIDE DEF row
  <2> QED
    BY <2>3, <2>5, <2>6, <2>8, <2>9 DEF SignedOff
<1>11. settlements' \in [WalletRiders -> Seq(SettlementRows)]
  <2>1. CASE p.kind = "settlement"
    <3>1. settlements[r] \in Seq(SettlementRows) /\ row \in SettlementRows
      BY <1>2, <1>10, <2>1 DEF WalletInv, WalletTypeOK
    <3>2. Append(settlements[r], row) \in Seq(SettlementRows)
      BY <3>1
    <3> QED
      BY <1>1, <2>1, <3>2 DEF WalletInv, WalletTypeOK
  <2>2. CASE p.kind # "settlement"
    BY <1>1, <2>2 DEF WalletInv, WalletTypeOK
  <2> QED
    BY <2>1, <2>2
<1>12. WalletTypeOK'
  BY <1>1, <1>2, <1>3, <1>4, <1>11 DEF WalletInv, WalletTypeOK
<1>13. ASSUME NEW x \in WalletRiders, NEW n \in DOMAIN ledger[x]
       PROVE  n \in DOMAIN ledger'[x] /\ ledger'[x][n] = ledger[x][n]
  <2>1. CASE x = r
    <3>1. ledger'[x] = ledger[r] \o p.made
      BY <1>1, <1>2, <2>1 DEF WalletInv, WalletTypeOK
    <3>2. n \in DOMAIN ledger[r]
      BY <2>1, <1>13
    <3>3. /\ n \in DOMAIN (ledger[r] \o p.made)
          /\ (ledger[r] \o p.made)[n] = ledger[r][n]
      BY <1>2, <1>4, <3>2, Concatenated, Zenon
    <3> QED
      BY <2>1, <3>1, <3>3
  <2>2. CASE x # r
    BY <1>1, <1>2, <2>2 DEF WalletInv, WalletTypeOK
  <2> QED
    BY <2>1, <2>2
<1>14. SettlementsClose'
  <2>1. ASSUME NEW x \in WalletRiders, NEW i \in DOMAIN settlements'[x]
        PROVE  /\ settlements'[x][i].entry \in DOMAIN ledger'[x]
               /\ SignedOff(settlements'[x][i], ledger'[x][settlements'[x][i].entry])
    <3>1. CASE i \in DOMAIN settlements[x] /\ settlements'[x][i] = settlements[x][i]
      BY <1>13, <3>1 DEF WalletInv, SettlementsClose
    <3>2. CASE ~(i \in DOMAIN settlements[x] /\ settlements'[x][i] = settlements[x][i])
      <4>1. p.kind = "settlement" /\ x = r
        BY <1>1, <1>2, <3>2 DEF WalletInv, WalletTypeOK
      <4>2. settlements'[x] = Append(settlements[r], row) /\ settlements[r] \in Seq(SettlementRows)
        BY <1>1, <1>2, <4>1 DEF WalletInv, WalletTypeOK
      <4>3. settlements'[x][i] = row
        <5> HIDE DEF row
        <5> QED
          BY <2>1, <3>2, <4>1, <4>2
      <4>4. ledger'[x] = ledger[r] \o p.made
        BY <1>1, <1>2, <4>1 DEF WalletInv, WalletTypeOK
      <4>5. row.entry \in DOMAIN ledger'[x]
        BY <1>10, <4>1, <4>4
      <4> QED
        BY <1>10, <4>1, <4>3, <4>4, <4>5
    <3> QED
      BY <3>1, <3>2
  <2> QED
    BY <2>1 DEF SettlementsClose
<1>15. PostingsHonest'
  <2>1. ASSUME NEW u \in Postings, posting'[u] # NoPosting
        PROVE  Honest(posting'[u], u, walletLock'[posting'[u].rider], balance'[posting'[u].rider])
    <3> DEFINE q == posting[u]
    <3>1. u # t /\ posting'[u] = q /\ q # NoPosting
      BY <1>1, <2>1 DEF WalletInv, WalletTypeOK
    <3>2. Honest(q, u, walletLock[q.rider], balance[q.rider])
      BY <3>1 DEF WalletInv, PostingsHonest
    <3>3. q.rider \in WalletRiders /\ q.locked \in BOOLEAN
      BY <3>1, OpenPosting DEF WalletInv, OpenPostings
    <3>4. CASE q.rider = r
      <4>1. ~q.locked /\ q.made = <<>>
        BY <1>6, <3>1, <3>2, <3>4 DEF Honest
      <4> QED
        BY <3>1, <3>2, <4>1 DEF Honest, Chained
    <3>5. CASE q.rider # r
      <4>1. walletLock'[q.rider] = walletLock[q.rider] /\ balance'[q.rider] = balance[q.rider]
        BY <1>1, <1>2, <3>3, <3>5 DEF WalletInv, WalletTypeOK
      <4> QED
        BY <3>1, <3>2, <4>1
    <3> QED
      BY <3>4, <3>5
  <2> QED
    BY <2>1 DEF PostingsHonest
<1> QED
  BY <1>9, <1>12, <1>14, <1>15 DEF WalletInv

\* A transaction that is rolled back leaves no trace.
LEMMA RollbackKeeps ==
  ASSUME WalletInv, NEW t \in Postings, RollsPostingBack(t)
  PROVE  WalletInv'
<1>1. /\ posting' = [posting EXCEPT ![t] = NoPosting]
      /\ walletLock' = [r \in WalletRiders |->
                          IF walletLock[r] = t THEN NoPosting ELSE walletLock[r]]
      /\ UNCHANGED <<balance, ledger, settlements>>
  BY DEF RollsPostingBack
<1>2. WalletTypeOK'
  BY <1>1 DEF WalletInv, WalletTypeOK
<1>3. LedgerChains' /\ SettlementsClose'
  BY <1>1 DEF WalletInv, LedgerChains, SettlementsClose
<1>4. PostingsHonest'
  <2>1. ASSUME NEW u \in Postings, posting'[u] # NoPosting
        PROVE  Honest(posting'[u], u, walletLock'[posting'[u].rider], balance'[posting'[u].rider])
    <3> DEFINE q == posting[u]
    <3>1. u # t /\ posting'[u] = q /\ q # NoPosting
      BY <1>1, <2>1 DEF WalletInv, WalletTypeOK
    <3>2. Honest(q, u, walletLock[q.rider], balance[q.rider])
      BY <3>1 DEF WalletInv, PostingsHonest
    <3>3. q.rider \in WalletRiders
      BY <3>1, OpenPosting DEF WalletInv
    <3>4. q.locked => walletLock'[q.rider] = u
      BY <1>1, <3>1, <3>2, <3>3 DEF Honest
    <3> QED
      BY <1>1, <3>1, <3>2, <3>4 DEF Honest
  <2> QED
    BY <2>1 DEF PostingsHonest
<1> QED
  BY <1>2, <1>3, <1>4 DEF WalletInv

-----------------------------------------------------------------------------
LEMMA WalletStarts == WalletInit => WalletInv
BY DEF WalletInit, WalletInv, WalletTypeOK, LedgerChains, SettlementsClose, PostingsHonest

\* Every step keeps the invariant.
LEMMA WalletSteps == WalletInv /\ [WalletNext]_walletVars => WalletInv'
<1>1. SUFFICES ASSUME WalletInv, [WalletNext]_walletVars PROVE WalletInv'
  OBVIOUS
<1>2. CASE UNCHANGED walletVars
  BY <1>1, <1>2 DEF walletVars, WalletInv, WalletTypeOK, LedgerChains, SettlementsClose,
                    PostingsHonest
<1>3. CASE WalletNext
  <2>1. PICK t \in Postings :
          \/ \E r \in WalletRiders, kind \in PostingKinds :
               \E dues \in Dues(kind) : StartsPosting(t, r, kind, dues)
          \/ LocksBalance(t)
          \/ PostsEntry(t)
          \/ CommitsPosting(t)
          \/ RollsPostingBack(t)
    BY <1>3 DEF WalletNext
  <2> QED
    BY <1>1, <2>1, StartKeeps, LockKeeps, PostKeeps, CommitKeeps, RollbackKeeps
<1> QED
  BY <1>1, <1>2, <1>3

(* Balances are whole numbers and entries, settlements and open            *)
(* transactions are complete records, for any amounts.                     *)
THEOREM WalletTyping == WalletSpec => []WalletTypeOK
<1>1. WalletInv => WalletTypeOK
  BY DEF WalletInv
<1> QED
  BY <1>1, WalletStarts, WalletSteps, PTL DEF WalletSpec

(* No posting of repository/rider_wallet_repo.go is lost or counted twice, *)
(* however many transactions overlap, fail or wait for the balance row;    *)
(* and each changes the balance by what was posted, to the nearest coin.   *)
THEOREM LedgerSound == WalletSpec => []LedgerChains
<1>1. WalletInv => LedgerChains
  BY DEF WalletInv
<1> QED
  BY <1>1, WalletStarts, WalletSteps, PTL DEF WalletSpec

(* A settlement repeats the figures of its entry, which no other posting   *)
(* of the rider can slip in between.                                       *)
THEOREM SettlementsSound == WalletSpec => []SettlementsClose
<1>1. WalletInv => SettlementsClose
  BY DEF WalletInv
<1> QED
  BY <1>1, WalletStarts, WalletSteps, PTL DEF WalletSpec

-----------------------------------------------------------------------------
(* Sums.  The library's induction theorems are about an operator, which    *)
(* the provers cannot instantiate; the next two are about a set.           *)

\* Every natural number is in a set that has zero and each one's successor.
LEMMA AllNumbers ==
  ASSUME NEW G, 0 \in G, \A n \in Nat : n \in G => n + 1 \in G
  PROVE  Nat \subseteq G
<1> DEFINE T == Nat \ G
           less == OpToRel(<, Nat)
<1> SUFFICES ASSUME T # {} PROVE FALSE
  OBVIOUS
<1>1. PICK n \in T : \A k \in T : <<k, n>> \notin less
  <2>1. T \subseteq Nat
    OBVIOUS
  <2> QED BY <2>1, NatLessThanWellFounded, WFMin
<1>2. n \in Nat /\ n # 0
  OBVIOUS
<1>3. n - 1 \in Nat /\ n - 1 < n /\ (n - 1) + 1 = n
  BY <1>2
<1>4. n - 1 \in T
  BY <1>3
<1> QED BY <1>1, <1>2, <1>3, <1>4 DEF OpToRel

\* The element a sum takes first.
First(s) == CHOOSE x \in s : TRUE

\* Every subset is in a set that has the empty one and each one that has one
\* element more.
LEMMA AllSubsets ==
  ASSUME NEW S, IsFiniteSet(S), NEW G, {} \in G,
         \A s \in SUBSET S : s # {} /\ s \ {First(s)} \in G => s \in G
  PROVE  SUBSET S \subseteq G
<1> DEFINE N == {n \in Nat : \A s \in SUBSET S : Cardinality(s) = n => s \in G}
<1>1. \A s \in SUBSET S : IsFiniteSet(s) /\ Cardinality(s) \in Nat
  BY FS_Subset, FS_CardinalityType
<1>2. 0 \in N
  BY <1>1, FS_EmptySet
<1>3. ASSUME NEW n \in Nat, n \in N PROVE n + 1 \in N
  <2>1. ASSUME NEW s \in SUBSET S, Cardinality(s) = n + 1 PROVE s \in G
    <3>1. s # {}
      <4>1. n + 1 # 0
        OBVIOUS
      <4> QED BY <2>1, <4>1, FS_EmptySet
    <3>2. First(s) \in s
      BY <3>1 DEF First
    <3>3. Cardinality(s \ {First(s)}) = Cardinality(s) - 1
      BY <1>1, <3>2, FS_RemoveElement
    <3>4. Cardinality(s \ {First(s)}) = n
      BY <2>1, <3>3
    <3>5. s \ {First(s)} \in SUBSET S
      OBVIOUS
    <3>6. s \ {First(s)} \in G
      BY <1>3, <3>4, <3>5
    <3> QED BY <3>1, <3>6
  <2> QED BY <2>1
<1>4. Nat \subseteq N
  <2> HIDE DEF N
  <2> QED BY <1>2, <1>3, AllNumbers
<1> QED BY <1>1, <1>4

\* The recursion by which a fold sums a function over the subsets of a set.
IsSum(g, h, S) ==
  g = [s \in SUBSET S |-> IF s = {} THEN 0 ELSE h[First(s)] + g[s \ {First(s)}]]

\* The sums of up to n elements.
SumsUpTo(g, h, S, n) ==
  \A s \in SUBSET S : Cardinality(s) <= n =>
    g[s] \in Nat /\ g[s] = IF s = {} THEN 0 ELSE h[First(s)] + g[s \ {First(s)}]

\* There are such sums, whatever the function.
LEMMA SumExists ==
  ASSUME NEW S, IsFiniteSet(S), NEW h \in [S -> Nat]
  PROVE  \E g : IsSum(g, h, S)
<1> DEFINE N == {n \in Nat : \E g \in [SUBSET S -> Nat] : SumsUpTo(g, h, S, n)}
<1>1. \A s \in SUBSET S : IsFiniteSet(s) /\ Cardinality(s) \in Nat
  BY FS_Subset, FS_CardinalityType
<1>2. \A s \in SUBSET S : s # {} => /\ First(s) \in S /\ s \ {First(s)} \in SUBSET S
                                    /\ Cardinality(s \ {First(s)}) = Cardinality(s) - 1
  BY <1>1, FS_RemoveElement DEF First
<1>3. 0 \in N
  <2> DEFINE g == [s \in SUBSET S |-> 0]
  <2>1. \A s \in SUBSET S : Cardinality(s) <= 0 => s = {}
    BY <1>1, FS_EmptySet
  <2>2. SumsUpTo(g, h, S, 0)
    BY <2>1 DEF SumsUpTo
  <2>3. g \in [SUBSET S -> Nat]
    OBVIOUS
  <2> QED BY <2>2, <2>3
<1>4. ASSUME NEW n \in Nat, n \in N PROVE n + 1 \in N
  <2>1. PICK g \in [SUBSET S -> Nat] : SumsUpTo(g, h, S, n)
    BY <1>4
  <2> DEFINE f == [s \in SUBSET S |-> IF s = {} THEN 0 ELSE h[First(s)] + g[s \ {First(s)}]]
  <2>2. \A s \in SUBSET S : f[s] \in Nat
    <3> SUFFICES ASSUME NEW s \in SUBSET S PROVE f[s] \in Nat
      OBVIOUS
    <3>1. CASE s = {}
      BY <3>1
    <3>2. CASE s # {}
      <4>1. h[First(s)] \in Nat /\ g[s \ {First(s)}] \in Nat
        BY <1>2, <3>2
      <4> QED BY <3>2, <4>1
    <3> QED BY <3>1, <3>2
  <2>3. f \in [SUBSET S -> Nat]
    BY <2>2
  <2>4. \A s \in SUBSET S : Cardinality(s) <= n => f[s] = g[s]
    BY <2>1 DEF SumsUpTo
  <2>5. \A s \in SUBSET S : Cardinality(s) <= n + 1 =>
          f[s] = IF s = {} THEN 0 ELSE h[First(s)] + f[s \ {First(s)}]
    <3> SUFFICES ASSUME NEW s \in SUBSET S, Cardinality(s) <= n + 1, s # {}
                 PROVE  f[s] = h[First(s)] + f[s \ {First(s)}]
      OBVIOUS
    <3>1. s \ {First(s)} \in SUBSET S /\ Cardinality(s \ {First(s)}) <= n
      BY <1>1, <1>2
    <3>2. f[s \ {First(s)}] = g[s \ {First(s)}]
      BY <2>4, <3>1
    <3> QED BY <3>2
  <2> HIDE DEF f
  <2>6. SumsUpTo(f, h, S, n + 1)
    BY <2>2, <2>5 DEF SumsUpTo
  <2> QED BY <2>3, <2>6
<1>5. Nat \subseteq N
  <2> HIDE DEF N
  <2> QED BY <1>3, <1>4, AllNumbers
<1>6. IsFiniteSet(S) /\ Cardinality(S) \in Nat
  BY FS_CardinalityType
<1>7. PICK g \in [SUBSET S -> Nat] : SumsUpTo(g, h, S, Cardinality(S))
  BY <1>5, <1>6
<1>8. \A s \in SUBSET S : Cardinality(s) <= Cardinality(S)
  BY FS_Subset
<1>9. g = [s \in SUBSET S |-> g[s]]
  OBVIOUS
<1>10. \A s \in SUBSET S : g[s] = IF s = {} THEN 0 ELSE h[First(s)] + g[s \ {First(s)}]
  BY <1>7, <1>8 DEF SumsUpTo
<1> QED BY <1>9, <1>10 DEF IsSum

\* The sums are natural numbers.
LEMMA SumTyped ==
  ASSUME NEW S, IsFiniteSet(S), NEW h \in [S -> Nat], NEW g, IsSum(g, h, S)
  PROVE  \A s \in SUBSET S : g[s] \in Nat
<1> DEFINE G == {s \in SUBSET S : g[s] \in Nat}
<1>1. {} \in G
  BY DEF IsSum
<1>2. ASSUME NEW s \in SUBSET S, s # {}, s \ {First(s)} \in G PROVE s \in G
  <2>1. g[s] = h[First(s)] + g[s \ {First(s)}]
    BY <1>2 DEF IsSum
  <2>2. h[First(s)] \in Nat
    BY <1>2 DEF First
  <2> QED BY <1>2, <2>1, <2>2
<1>3. SUBSET S \subseteq G
  <2> HIDE DEF G
  <2> QED BY <1>1, <1>2, AllSubsets
<1> QED BY <1>3

\* One more for one element is one more for the sum.
LEMMA SumGrows ==
  ASSUME NEW S, IsFiniteSet(S), NEW h \in [S -> Nat], NEW o \in S,
         NEW k \in [S -> Nat], \A x \in S : k[x] = IF x = o THEN h[x] + 1 ELSE h[x],
         NEW g, IsSum(g, h, S), NEW f, IsSum(f, k, S)
  PROVE  f[S] = g[S] + 1
<1> DEFINE G == {s \in SUBSET S : f[s] = g[s] + (IF o \in s THEN 1 ELSE 0)}
<1>1. {} \in G
  BY DEF IsSum
<1>2. ASSUME NEW s \in SUBSET S, s # {}, s \ {First(s)} \in G PROVE s \in G
  <2> DEFINE x == First(s)
             t == s \ {x}
  <2>1. x \in s
    BY <1>2 DEF First
  <2>2. f[s] = k[x] + f[t] /\ g[s] = h[x] + g[t]
    BY <1>2 DEF IsSum
  <2>3. f[t] = g[t] + (IF o \in t THEN 1 ELSE 0)
    BY <1>2
  <2>4. g[t] \in Nat /\ h[x] \in Nat
    BY <2>1, SumTyped
  <2> HIDE DEF x
  <2>5. CASE x = o
    <3>1. k[x] = h[x] + 1 /\ f[t] = g[t]
      BY <2>1, <2>3, <2>4, <2>5
    <3>2. f[s] = g[s] + 1
      BY <2>2, <2>4, <3>1
    <3> QED BY <2>1, <2>5, <3>2
  <2>6. CASE x # o
    <3>1. k[x] = h[x] /\ (o \in t <=> o \in s)
      BY <2>1, <2>6
    <3>2. f[s] = g[s] + (IF o \in s THEN 1 ELSE 0)
      BY <2>2, <2>3, <2>4, <3>1
    <3> QED BY <3>2
  <2> QED BY <2>5, <2>6
<1>3. SUBSET S \subseteq G
  <2> HIDE DEF G
  <2> QED BY <1>1, <1>2, AllSubsets
<1> QED BY <1>3

\* Sums over the same elements are equal.
LEMMA SumSame ==
  ASSUME NEW S, IsFiniteSet(S), NEW h \in [S -> Nat],
         NEW k \in [S -> Nat], \A x \in S : k[x] = h[x],
         NEW g, IsSum(g, h, S), NEW f, IsSum(f, k, S)
  PROVE  f[S] = g[S]
<1> DEFINE G == {s \in SUBSET S : f[s] = g[s]}
<1>1. {} \in G
  BY DEF IsSum
<1>2. ASSUME NEW s \in SUBSET S, s # {}, s \ {First(s)} \in G PROVE s \in G
  <2>1. First(s) \in S
    BY <1>2 DEF First
  <2>2. f[s] = k[First(s)] + f[s \ {First(s)}] /\ g[s] = h[First(s)] + g[s \ {First(s)}]
    BY <1>2 DEF IsSum
  <2> QED BY <1>2, <2>1, <2>2
<1>3. SUBSET S \subseteq G
  <2> HIDE DEF G
  <2> QED BY <1>1, <1>2, AllSubsets
<1> QED BY <1>3

-----------------------------------------------------------------------------
(* Orders of older apps.                                                   *)

\* All fees of a rider.
FeesOf(all, r) == MapThenSumSet(LAMBDA o : all[o][r], OldOrders)
FeeTables == [OldOrders -> [OldRiders -> Nat]]
Column(all, r) == [o \in OldOrders |-> all[o][r]]

\* What a rider's fees sum up to.
LEMMA FeesOfSum ==
  ASSUME NEW all \in FeeTables, NEW r \in OldRiders
  PROVE  \E g : /\ IsSum(g, Column(all, r), OldOrders)
                /\ FeesOf(all, r) = g[OldOrders]
<1> DEFINE h == Column(all, r)
           g == CHOOSE g : g = [s \in SUBSET OldOrders |->
                                  IF s = {} THEN 0
                                  ELSE all[First(s)][r] + g[s \ {First(s)}]]
<1>1. FeesOf(all, r) = g[OldOrders]
  BY DEF FeesOf, MapThenSumSet, MapThenFoldSet, First
<1>2. h \in [OldOrders -> Nat]
  BY DEF Column, FeeTables
<1>3. \E f : IsSum(f, h, OldOrders)
  BY <1>2, SumExists, LegacyAssumption
<1>4. \A f : IsSum(f, h, OldOrders) <=>
               f = [s \in SUBSET OldOrders |->
                      IF s = {} THEN 0 ELSE all[First(s)][r] + f[s \ {First(s)}]]
  <2>1. \A s \in SUBSET OldOrders : s # {} => h[First(s)] = all[First(s)][r]
    BY DEF First, Column
  <2> QED BY <2>1 DEF IsSum
<1>5. IsSum(g, h, OldOrders)
  <2>1. \E f : f = [s \in SUBSET OldOrders |->
                      IF s = {} THEN 0 ELSE all[First(s)][r] + f[s \ {First(s)}]]
    BY <1>3, <1>4
  <2>2. g = [s \in SUBSET OldOrders |->
               IF s = {} THEN 0 ELSE all[First(s)][r] + g[s \ {First(s)}]]
    BY <2>1
  <2> QED BY <1>4, <2>2
<1> QED BY <1>1, <1>5

\* One fee more is one more for its rider, and none for another.
LEMMA FeesOfGrows ==
  ASSUME NEW all \in FeeTables, NEW o \in OldOrders, NEW r \in OldRiders, NEW v \in OldRiders,
         NEW more \in FeeTables,
         \A x \in OldOrders, w \in OldRiders :
           more[x][w] = IF x = o /\ w = r THEN all[x][w] + 1 ELSE all[x][w]
  PROVE  FeesOf(more, v) = IF v = r THEN FeesOf(all, v) + 1 ELSE FeesOf(all, v)
<1> DEFINE h == Column(all, v)
           k == Column(more, v)
<1>1. h \in [OldOrders -> Nat] /\ k \in [OldOrders -> Nat]
  BY DEF Column, FeeTables
<1>2. PICK g : IsSum(g, h, OldOrders) /\ FeesOf(all, v) = g[OldOrders]
  BY FeesOfSum
<1>3. PICK f : IsSum(f, k, OldOrders) /\ FeesOf(more, v) = f[OldOrders]
  BY FeesOfSum
<1>4. \A x \in OldOrders : k[x] = IF x = o /\ v = r THEN h[x] + 1 ELSE h[x]
  BY DEF Column, FeeTables
<1> HIDE DEF h, k
<1>5. CASE v = r
  <2>1. \A x \in OldOrders : k[x] = IF x = o THEN h[x] + 1 ELSE h[x]
    BY <1>4, <1>5
  <2>2. f[OldOrders] = g[OldOrders] + 1
    BY <1>1, <1>2, <1>3, <2>1, SumGrows, LegacyAssumption
  <2> QED BY <1>2, <1>3, <1>5, <2>2
<1>6. CASE v # r
  <2>1. \A x \in OldOrders : k[x] = h[x]
    BY <1>4, <1>6
  <2>2. f[OldOrders] = g[OldOrders]
    BY <1>1, <1>2, <1>3, <2>1, SumSame, LegacyAssumption
  <2> QED BY <1>2, <1>3, <1>6, <2>2
<1> QED BY <1>5, <1>6

\* Without fees the sum is none.
LEMMA NoFees ==
  ASSUME NEW all \in FeeTables, NEW r \in OldRiders,
         \A o \in OldOrders : all[o][r] = 0
  PROVE  FeesOf(all, r) = 0
<1> DEFINE h == Column(all, r)
           zero == [s \in SUBSET OldOrders |-> 0]
<1>1. h \in [OldOrders -> Nat] /\ \A o \in OldOrders : h[o] = 0
  BY DEF Column, FeeTables
<1>2. PICK g : IsSum(g, h, OldOrders) /\ FeesOf(all, r) = g[OldOrders]
  BY FeesOfSum
<1>3. IsSum(zero, h, OldOrders)
  <2>1. \A s \in SUBSET OldOrders : s # {} =>
          h[First(s)] = 0 /\ s \ {First(s)} \in SUBSET OldOrders
    BY <1>1 DEF First
  <2> HIDE DEF h
  <2> QED BY <2>1 DEF IsSum
<1>4. g[OldOrders] = zero[OldOrders]
  <2> HIDE DEF h, zero
  <2> QED BY <1>1, <1>2, <1>3, SumSame, LegacyAssumption
<1> QED BY <1>2, <1>4

\* An order that the rider has delivered stays so: its status is final, and with
\* it the rider.
Done(o, r, statuses, partners) == statuses[o] = "delivered" /\ partners[o] = r

LegacyInv ==
  /\ LegacyTypeOK
  /\ \A o \in OldOrders, r \in OldRiders : fees[o][r] > 0 => Done(o, r, canonical, partner)
  /\ \A t \in Taps : tap[t].step = "record" /\ tap[t].kind = "delivered"
                       => Done(tap[t].order, tap[t].rider, canonical, partner)
  /\ \A r \in OldRiders : rides[r] = FeesOf(fees, r)

Tapped == [step : TapSteps, kind : TapKinds, order : OldOrders, rider : OldRiders]

\* A tap that is served is a record of all its fields.
LEMMA TapTyped ==
  ASSUME LegacyTypeOK, NEW t \in Taps
  PROVE  /\ tap[t] \in {NoTap} \cup Tapped /\ NoTap.step = "idle"
         /\ tap[t].step # "idle" => tap[t] \in Tapped
BY DEF LegacyTypeOK, Tapped, NoTap

\* What restaurant-service accepts leaves a delivered order as it is.
LEMMA AcceptedTyped ==
  ASSUME LegacyTypeOK, NEW q \in Tapped, Accepted(q)
  PROVE  /\ canonical' \in [OldOrders -> Canonical]
         /\ partner' \in [OldOrders -> OldRiders \cup {NoPartner}]
         /\ \A o \in OldOrders, r \in OldRiders :
              Done(o, r, canonical, partner) => Done(o, r, canonical', partner')
         /\ q.kind = "delivered" => Done(q.order, q.rider, canonical', partner')
<1>1. q.order \in OldOrders /\ q.rider \in OldRiders
  BY DEF Tapped
<1>2. CASE q.kind \in {"picked_up", "delivered"}
  <2> DEFINE next == IF q.kind = "delivered" THEN "delivered" ELSE "out_for_delivery"
  <2>1. /\ partner[q.order] = q.rider /\ UNCHANGED partner
        /\ canonical[q.order] \in TapAllowed(q.kind) \cup {next}
        /\ canonical' = [canonical EXCEPT ![q.order] = next]
    BY <1>2 DEF Accepted
  <2>2. next \in Canonical
    BY DEF Canonical
  <2>3. canonical[q.order] = "delivered" => next = "delivered"
    BY <1>2, <2>1 DEF TapAllowed
  <2>4. q.kind = "delivered" => next = "delivered"
    OBVIOUS
  <2> HIDE DEF next
  <2> QED BY <1>1, <2>1, <2>2, <2>3, <2>4 DEF LegacyTypeOK, Done
<1>3. CASE q.kind \in {"cancelled", "failed"}
  <2>1. PICK r \in {q.rider, NoPartner} :
          /\ partner' = [partner EXCEPT ![q.order] = r] /\ UNCHANGED canonical
          /\ canonical[q.order] \in {"ready", "out_for_delivery"}
    BY <1>3 DEF Accepted
  <2> QED BY <1>1, <1>3, <2>1 DEF LegacyTypeOK, Done
<1> QED BY <1>2, <1>3 DEF Accepted

\* Steps that record no fee: what is done stays done, and who records a delivery
\* has it done.
LEMMA NoFeeKeeps ==
  ASSUME LegacyInv, UNCHANGED <<fees, rides>>,
         canonical' \in [OldOrders -> Canonical],
         partner' \in [OldOrders -> OldRiders \cup {NoPartner}],
         onTrip' \in [OldRiders -> BOOLEAN],
         trail' \in [OldOrders -> SUBSET Events],
         tap' \in [Taps -> {NoTap} \cup Tapped],
         \A o \in OldOrders, r \in OldRiders :
           Done(o, r, canonical, partner) => Done(o, r, canonical', partner'),
         \A t \in Taps : \/ tap'[t] = tap[t]
                         \/ tap'[t].step # "record"
                         \/ tap'[t].kind # "delivered"
                         \/ Done(tap'[t].order, tap'[t].rider, canonical', partner')
  PROVE  LegacyInv'
<1>1. LegacyTypeOK'
  BY DEF LegacyInv, LegacyTypeOK, Tapped
<1>2. \A o \in OldOrders, r \in OldRiders : fees'[o][r] > 0 => Done(o, r, canonical', partner')
  BY DEF LegacyInv
<1>3. \A t \in Taps : tap'[t].step = "record" /\ tap'[t].kind = "delivered"
                       => Done(tap'[t].order, tap'[t].rider, canonical', partner')
  <2> SUFFICES ASSUME NEW t \in Taps, tap'[t].step = "record", tap'[t].kind = "delivered",
                      tap'[t] = tap[t]
               PROVE  Done(tap[t].order, tap[t].rider, canonical', partner')
    OBVIOUS
  <2>1. tap[t].order \in OldOrders /\ tap[t].rider \in OldRiders
    BY TapTyped DEF LegacyInv, Tapped
  <2>2. Done(tap[t].order, tap[t].rider, canonical, partner)
    BY DEF LegacyInv
  <2>3. canonical'[tap[t].order] = "delivered" /\ partner'[tap[t].order] = tap[t].rider
    BY <2>1, <2>2 DEF Done
  <2> QED BY <2>3 DEF Done
<1>4. \A r \in OldRiders : rides'[r] = FeesOf(fees', r)
  BY DEF LegacyInv
<1> QED BY <1>1, <1>2, <1>3, <1>4 DEF LegacyInv

\* The fee is recorded once restaurant-service has the order delivered.
LEMMA FeeKeeps ==
  ASSUME LegacyInv, NEW t \in Taps, RecordsDelivery(t)
  PROVE  LegacyInv'
<1> DEFINE o == tap[t].order
           r == tap[t].rider
<1>1. /\ tap[t].step = "record" /\ tap[t].kind = "delivered"
      /\ fees' = [fees EXCEPT ![o][r] = @ + 1]
      /\ rides' = [rides EXCEPT ![r] = @ + 1]
      /\ onTrip' = [onTrip EXCEPT ![r] = FALSE]
      /\ tap' = [tap EXCEPT ![t] = NoTap]
      /\ UNCHANGED <<canonical, partner, trail>>
  BY DEF RecordsDelivery, Frees, Finishes, orderRows
<1>2. o \in OldOrders /\ r \in OldRiders
  BY <1>1, TapTyped DEF LegacyInv, Tapped
<1>3. Done(o, r, canonical, partner)
  BY <1>1 DEF LegacyInv
<1> HIDE DEF o, r
<1>4. fees \in FeeTables /\ fees' \in FeeTables
  BY <1>1, <1>2 DEF LegacyInv, LegacyTypeOK, FeeTables
<1>5. \A p \in OldOrders, v \in OldRiders :
        fees'[p][v] = IF p = o /\ v = r THEN fees[p][v] + 1 ELSE fees[p][v]
  <2>1. \A p \in OldOrders : fees'[p] = IF p = o THEN [fees[o] EXCEPT ![r] = @ + 1] ELSE fees[p]
    BY <1>1, <1>2, <1>4 DEF FeeTables
  <2>2. fees[o] \in [OldRiders -> Nat]
    BY <1>2, <1>4 DEF FeeTables
  <2> QED BY <2>1, <2>2
<1>6. LegacyTypeOK'
  <2>1. rides' \in [OldRiders -> Nat] /\ onTrip' \in [OldRiders -> BOOLEAN]
    BY <1>1, <1>2 DEF LegacyInv, LegacyTypeOK
  <2>2. tap' \in [Taps -> {NoTap} \cup Tapped]
    BY <1>1 DEF LegacyInv, LegacyTypeOK, Tapped
  <2> QED BY <1>1, <1>4, <2>1, <2>2 DEF LegacyInv, LegacyTypeOK, FeeTables, Tapped
<1>7. \A p \in OldOrders, v \in OldRiders : fees'[p][v] > 0 => Done(p, v, canonical', partner')
  <2>1. \A p \in OldOrders, v \in OldRiders :
          ~(p = o /\ v = r) => fees'[p][v] = fees[p][v]
    BY <1>5
  <2> QED BY <1>1, <1>3, <2>1 DEF LegacyInv, Done
<1>8. \A s \in Taps : tap'[s].step = "record" /\ tap'[s].kind = "delivered"
                       => Done(tap'[s].order, tap'[s].rider, canonical', partner')
  <2>1. \A s \in Taps : tap'[s] = IF s = t THEN NoTap ELSE tap[s]
    BY <1>1 DEF LegacyInv, LegacyTypeOK
  <2>2. NoTap.step = "idle"
    BY DEF NoTap
  <2> QED BY <1>1, <2>1, <2>2 DEF LegacyInv, Done
<1>9. \A v \in OldRiders : rides'[v] = FeesOf(fees', v)
  <2> SUFFICES ASSUME NEW v \in OldRiders PROVE rides'[v] = FeesOf(fees', v)
    OBVIOUS
  <2>1. FeesOf(fees', v) = IF v = r THEN FeesOf(fees, v) + 1 ELSE FeesOf(fees, v)
    BY <1>2, <1>4, <1>5, FeesOfGrows
  <2>2. rides'[v] = IF v = r THEN rides[v] + 1 ELSE rides[v]
    BY <1>1, <1>2 DEF LegacyInv, LegacyTypeOK
  <2> QED BY <2>1, <2>2 DEF LegacyInv
<1> QED BY <1>6, <1>7, <1>8, <1>9 DEF LegacyInv

\* A callback that restaurant-service accepts, for a tap that goes on or ends.
LEMMA CallKeeps ==
  ASSUME LegacyInv, NEW t \in Taps, tap[t] \in Tapped,
         canonical' \in [OldOrders -> Canonical],
         partner' \in [OldOrders -> OldRiders \cup {NoPartner}],
         \A o \in OldOrders, r \in OldRiders :
           Done(o, r, canonical, partner) => Done(o, r, canonical', partner'),
         tap[t].kind = "delivered" => Done(tap[t].order, tap[t].rider, canonical', partner'),
         UNCHANGED <<onTrip, fees, rides, trail>>,
         NEW q \in {NoTap} \cup Tapped, tap' = [tap EXCEPT ![t] = q],
         q # NoTap => q.kind = tap[t].kind /\ q.order = tap[t].order /\ q.rider = tap[t].rider
  PROVE  LegacyInv'
<1>1. /\ onTrip' \in [OldRiders -> BOOLEAN] /\ trail' \in [OldOrders -> SUBSET Events]
      /\ tap' \in [Taps -> {NoTap} \cup Tapped]
  BY DEF LegacyInv, LegacyTypeOK, Tapped
<1>2. \A s \in Taps : tap'[s] = IF s = t THEN q ELSE tap[s]
  BY DEF LegacyInv, LegacyTypeOK
<1>3. NoTap.step = "idle"
  BY DEF NoTap
<1>4. \A s \in Taps : \/ tap'[s] = tap[s]
                      \/ tap'[s].step # "record"
                      \/ tap'[s].kind # "delivered"
                      \/ Done(tap'[s].order, tap'[s].rider, canonical', partner')
  <2> SUFFICES ASSUME NEW s \in Taps, s = t, q # NoTap, q.kind = "delivered"
               PROVE  Done(q.order, q.rider, canonical', partner')
    BY <1>2, <1>3
  <2> QED OBVIOUS
<1> QED BY <1>1, <1>4, NoFeeKeeps

\* Every step keeps the invariant.
LEMMA LegacyInvNext == LegacyInv /\ [LegacyNext]_legacyVars => LegacyInv'
<1> SUFFICES ASSUME LegacyInv, [LegacyNext]_legacyVars PROVE LegacyInv'
  OBVIOUS
<1>1. /\ canonical \in [OldOrders -> Canonical]
      /\ partner \in [OldOrders -> OldRiders \cup {NoPartner}]
      /\ onTrip \in [OldRiders -> BOOLEAN] /\ trail \in [OldOrders -> SUBSET Events]
      /\ tap \in [Taps -> {NoTap} \cup Tapped] /\ NoTap.step = "idle"
  BY DEF LegacyInv, LegacyTypeOK, Tapped, NoTap
<1>2. \A o \in OldOrders, r \in OldRiders :
        Done(o, r, canonical, partner) => canonical[o] = "delivered"
  BY DEF Done
<1>3. CASE UNCHANGED legacyVars
  BY <1>1, <1>3, NoFeeKeeps DEF legacyVars
<1>4. ASSUME NEW o \in OldOrders, OrderReadies(o) \/ OrderCancels(o) PROVE LegacyInv'
  <2>1. /\ canonical[o] # "delivered"
        /\ \E c \in Canonical : canonical' = [canonical EXCEPT ![o] = c]
        /\ UNCHANGED <<partner, onTrip, fees, rides, trail, tap>>
    BY <1>4 DEF OrderReadies, OrderCancels, riderRows, Canonical
  <2>2. canonical' \in [OldOrders -> Canonical]
    BY <1>1, <2>1
  <2>3. \A p \in OldOrders, r \in OldRiders :
          Done(p, r, canonical, partner) => Done(p, r, canonical', partner')
    BY <1>1, <2>1 DEF Done
  <2> QED BY <1>1, <2>1, <2>2, <2>3, NoFeeKeeps
<1>5. ASSUME NEW o \in OldOrders, NEW r \in OldRiders \cup {NoPartner}, PartnerChanges(o, r)
      PROVE  LegacyInv'
  <2>1. /\ canonical[o] # "delivered"
        /\ partner' = [partner EXCEPT ![o] = r]
        /\ UNCHANGED <<canonical, fees, rides, trail, tap>>
    BY <1>5 DEF PartnerChanges
  <2>2. partner' \in [OldOrders -> OldRiders \cup {NoPartner}]
    BY <1>1, <1>5, <2>1
  <2>3. onTrip' \in [OldRiders -> BOOLEAN]
    BY <1>1, <1>5 DEF PartnerChanges
  <2>4. \A p \in OldOrders, v \in OldRiders :
          Done(p, v, canonical, partner) => Done(p, v, canonical', partner')
    BY <1>1, <2>1 DEF Done
  <2> QED BY <1>1, <2>1, <2>2, <2>3, <2>4, NoFeeKeeps
<1>6. ASSUME NEW t \in Taps, NEW q \in {NoTap} \cup Tapped,
             tap' = [tap EXCEPT ![t] = q], q.step # "record",
             UNCHANGED <<canonical, partner, fees, rides>>,
             onTrip' \in [OldRiders -> BOOLEAN], trail' \in [OldOrders -> SUBSET Events]
      PROVE  LegacyInv'
  <2>1. tap' \in [Taps -> {NoTap} \cup Tapped]
    BY <1>1, <1>6
  <2>2. \A s \in Taps : tap'[s] = tap[s] \/ tap'[s].step # "record"
    BY <1>1, <1>6
  <2>3. /\ canonical' \in [OldOrders -> Canonical]
        /\ partner' \in [OldOrders -> OldRiders \cup {NoPartner}]
        /\ \A p \in OldOrders, v \in OldRiders :
             Done(p, v, canonical, partner) => Done(p, v, canonical', partner')
    BY <1>1, <1>6
  <2> QED BY <1>6, <2>1, <2>2, <2>3, NoFeeKeeps
<1>7. ASSUME NEW t \in Taps, NEW o \in OldOrders, NEW r \in OldRiders, NEW kind \in TapKinds,
             TapStarts(t, o, r, kind)
      PROVE  LegacyInv'
  <2> DEFINE q == [step |-> "read", kind |-> kind, order |-> o, rider |-> r]
  <2>1. q \in Tapped /\ q.step = "read"
    BY DEF Tapped, TapSteps
  <2>2. /\ tap' = [tap EXCEPT ![t] = q]
        /\ UNCHANGED <<canonical, partner, onTrip, fees, rides, trail>>
    BY <1>7 DEF TapStarts, orderRows, riderRows
  <2> HIDE DEF q
  <2> QED BY <1>1, <1>6, <2>1, <2>2
<1>8. ASSUME NEW t \in Taps, NEW e \in Events, Notes(tap[t].order, e), tap[t] \in Tapped
      PROVE  trail' \in [OldOrders -> SUBSET Events]
  BY <1>1, <1>8 DEF Notes, Tapped
<1>9. ASSUME NEW t \in Taps, Arrives(t) PROVE LegacyInv'
  <2>1. tap[t] \in Tapped
    BY <1>9, TapTyped DEF Arrives, Reads, LegacyInv
  <2>2. /\ trail' \in [OldOrders -> SUBSET Events]
        /\ tap' = [tap EXCEPT ![t] = NoTap]
        /\ UNCHANGED <<canonical, partner, onTrip, fees, rides>>
    BY <1>8, <1>9, <2>1 DEF Arrives, Finishes, orderRows
  <2> QED BY <1>1, <1>6, <2>2
<1>10. ASSUME NEW t \in Taps, Transitions(t) PROVE LegacyInv'
  <2> DEFINE q == [tap[t] EXCEPT !.step = "call"]
  <2>1. tap[t] \in Tapped
    BY <1>10, TapTyped DEF Transitions, Reads, LegacyInv
  <2>2. q \in Tapped /\ q.step = "call"
    BY <2>1 DEF Tapped, TapSteps
  <2>3. /\ tap' = [tap EXCEPT ![t] = q]
        /\ UNCHANGED <<canonical, partner, onTrip, fees, rides, trail>>
    BY <1>10 DEF Transitions, StartsCall, orderRows, riderRows
  <2> HIDE DEF q
  <2> QED BY <1>1, <1>6, <2>2, <2>3
<1>11. ASSUME NEW t \in Taps, CallsBack(t) PROVE LegacyInv'
  <2> DEFINE q == IF tap[t].kind = "picked_up" THEN NoTap ELSE [tap[t] EXCEPT !.step = "record"]
  <2>1. tap[t] \in Tapped /\ Accepted(tap[t])
    BY <1>11, TapTyped DEF CallsBack, LegacyInv
  <2>2. /\ q \in {NoTap} \cup Tapped
        /\ q # NoTap => /\ q.kind = tap[t].kind /\ q.order = tap[t].order
                        /\ q.rider = tap[t].rider
    BY <2>1 DEF Tapped, TapSteps
  <2>3. tap' = [tap EXCEPT ![t] = q] /\ UNCHANGED <<onTrip, fees, rides, trail>>
    BY <1>11 DEF CallsBack, riderRows
  <2> HIDE DEF q
  <2>4. /\ canonical' \in [OldOrders -> Canonical]
        /\ partner' \in [OldOrders -> OldRiders \cup {NoPartner}]
        /\ \A o \in OldOrders, r \in OldRiders :
             Done(o, r, canonical, partner) => Done(o, r, canonical', partner')
        /\ tap[t].kind = "delivered" => Done(tap[t].order, tap[t].rider, canonical', partner')
    BY <2>1, AcceptedTyped DEF LegacyInv
  <2> QED BY <2>1, <2>2, <2>3, <2>4, CallKeeps
<1>12. ASSUME NEW t \in Taps, TapEnds(t) PROVE LegacyInv'
  <2>1. /\ tap[t] # NoTap /\ tap' = [tap EXCEPT ![t] = NoTap]
        /\ UNCHANGED <<onTrip, fees, rides, trail>>
    BY <1>12 DEF TapEnds, Finishes, riderRows
  <2>2. CASE UNCHANGED orderRows
    BY <1>1, <1>6, <2>1, <2>2 DEF orderRows
  <2>3. CASE Accepted(tap[t])
    <3>1. tap[t] \in Tapped
      BY <2>1, TapTyped DEF LegacyInv
    <3>2. /\ canonical' \in [OldOrders -> Canonical]
          /\ partner' \in [OldOrders -> OldRiders \cup {NoPartner}]
          /\ \A o \in OldOrders, r \in OldRiders :
               Done(o, r, canonical, partner) => Done(o, r, canonical', partner')
          /\ tap[t].kind = "delivered" => Done(tap[t].order, tap[t].rider, canonical', partner')
      BY <2>3, <3>1, AcceptedTyped DEF LegacyInv
    <3> DEFINE q == NoTap
    <3>3. q \in {NoTap} \cup Tapped /\ (q # NoTap => /\ q.kind = tap[t].kind
             /\ q.order = tap[t].order /\ q.rider = tap[t].rider)
      OBVIOUS
    <3>4. tap' = [tap EXCEPT ![t] = q] /\ UNCHANGED <<onTrip, fees, rides, trail>>
      BY <2>1
    <3> HIDE DEF q
    <3> QED BY <3>1, <3>2, <3>3, <3>4, CallKeeps
  <2> QED BY <1>12, <2>2, <2>3 DEF TapEnds
<1>13. ASSUME NEW t \in Taps, RecordsCancellation(t) \/ RecordsFailure(t) PROVE LegacyInv'
  <2>1. tap[t] \in Tapped
    BY <1>13, TapTyped DEF RecordsCancellation, RecordsFailure, LegacyInv
  <2>2. /\ \E e \in Events : Notes(tap[t].order, e)
        /\ onTrip' = [onTrip EXCEPT ![tap[t].rider] = FALSE]
        /\ tap' = [tap EXCEPT ![t] = NoTap]
        /\ UNCHANGED <<canonical, partner, fees, rides>>
    BY <1>13 DEF RecordsCancellation, RecordsFailure, Frees, Finishes, orderRows, Events
  <2>3. trail' \in [OldOrders -> SUBSET Events] /\ onTrip' \in [OldRiders -> BOOLEAN]
    BY <1>1, <1>8, <2>1, <2>2
  <2> QED BY <1>1, <1>6, <2>2, <2>3
<1> QED BY <1>3, <1>4, <1>5, <1>7, <1>9, <1>10, <1>11, <1>12, <1>13, FeeKeeps DEF LegacyNext

\* At first nobody has a fee.
LEMMA LegacyInvInit == LegacyInit => LegacyInv
<1> SUFFICES ASSUME LegacyInit PROVE LegacyInv
  OBVIOUS
<1>1. LegacyTypeOK
  BY DEF LegacyInit, LegacyTypeOK, Canonical
<1>2. \A o \in OldOrders, r \in OldRiders : fees[o][r] = 0
  BY DEF LegacyInit
<1>3. fees \in FeeTables
  BY <1>1 DEF LegacyTypeOK, FeeTables
<1>4. \A r \in OldRiders : rides[r] = FeesOf(fees, r)
  BY <1>2, <1>3, NoFees DEF LegacyInit
<1>5. \A t \in Taps : tap[t].step # "record"
  BY DEF LegacyInit, NoTap
<1> QED BY <1>1, <1>2, <1>4, <1>5 DEF LegacyInv

\* Whatever orders, riders and taps there are, a fee stands only for an order that
\* restaurant-service has delivered by that rider, and a rider's count is the sum
\* of his fees (recordDelivered after its callback, in one transaction).
THEOREM FeesFollow == LegacySpec => []FeeFollowsTheOrder
<1>1. LegacyInv => FeeFollowsTheOrder
  BY DEF LegacyInv, FeeFollowsTheOrder, FeesOf, Done
<1> QED BY <1>1, LegacyInvInit, LegacyInvNext, PTL DEF LegacySpec

-----------------------------------------------------------------------------
(* The contracts: what a page shows, and which periods are open.           *)

ContractRows == [version : {0}] \cup [version : Nat, policy : Typed]
Pages == [rider : ContractRiders, version : Nat]
Spans == Int \X Int
OpenAccruals == [rider : ContractRiders, period : Spans]

ContractsTyped ==
  /\ contract \in [ContractRiders -> ContractRows]
  /\ audit \in [ContractRiders -> Seq(Nat)]
  /\ page \in [Admins -> Pages \cup {NoPage}]
  /\ contractLock \in [ContractRiders -> Admins \cup {NoPage}]
  /\ accrual \in [Admins -> OpenAccruals \cup {NoPage}]
  /\ accruals \in [ContractRiders -> Seq(Spans)]

\* A period that no committed accrual of its rider overlaps.
Clear(e, rows) == \A i \in DOMAIN rows : ~Overlap(e, rows[i])

\* What the row lock is for: while a salary transaction is open it holds the
\* contract, and what it found free stays free.
AccrualsLocked ==
  \A a \in Admins : accrual[a] # NoPage =>
    /\ contractLock[accrual[a].rider] = a
    /\ Clear(accrual[a].period, accruals[accrual[a].rider])

ContractsInv == ContractsTyped /\ NoSaveLost /\ SalariesDisjoint /\ AccrualsLocked

Disjoint(rows) == \A i, j \in DOMAIN rows : i # j => ~Overlap(rows[i], rows[j])
Successive(versions) == \A i \in DOMAIN versions : versions[i] = i - 1

-----------------------------------------------------------------------------
(* Appending a row.                                                        *)

\* Overlap does not depend on the order of the two periods.
LEMMA OverlapSymmetric ==
  ASSUME NEW x \in Spans, NEW y \in Spans
  PROVE  Overlap(x, y) <=> Overlap(y, x)
BY DEF Overlap, Spans

\* A clear period may join the periods that do not overlap.
LEMMA DisjointAppend ==
  ASSUME NEW rows \in Seq(Spans), NEW e \in Spans, Disjoint(rows), Clear(e, rows)
  PROVE  Disjoint(Append(rows, e)) /\ Append(rows, e) \in Seq(Spans)
<1> DEFINE u == Append(rows, e)
<1>1. /\ DOMAIN u = 1 .. Len(rows) + 1 /\ DOMAIN rows = 1 .. Len(rows) /\ Len(rows) \in Nat
      /\ u[Len(rows) + 1] = e /\ \A i \in 1 .. Len(rows) : u[i] = rows[i] /\ rows[i] \in Spans
      /\ u \in Seq(Spans)
  OBVIOUS
<1>2. ASSUME NEW i \in DOMAIN rows
      PROVE  ~Overlap(rows[i], e) /\ ~Overlap(e, rows[i])
  BY <1>1, OverlapSymmetric DEF Clear
<1>3. ASSUME NEW i \in DOMAIN u, NEW j \in DOMAIN u, i # j
      PROVE  ~Overlap(u[i], u[j])
  <2>1. CASE i = Len(rows) + 1
    <3>1. j \in DOMAIN rows /\ u[j] = rows[j] /\ u[i] = e
      BY <1>1, <1>3, <2>1
    <3> QED
      BY <1>2, <3>1
  <2>2. CASE j = Len(rows) + 1
    <3>1. i \in DOMAIN rows /\ u[i] = rows[i] /\ u[j] = e
      BY <1>1, <1>3, <2>2
    <3> QED
      BY <1>2, <3>1
  <2>3. CASE i # Len(rows) + 1 /\ j # Len(rows) + 1
    <3>1. i \in DOMAIN rows /\ u[i] = rows[i] /\ j \in DOMAIN rows /\ u[j] = rows[j]
      BY <1>1, <1>3, <2>3
    <3> QED
      BY <1>3, <3>1 DEF Disjoint
  <2> QED
    BY <2>1, <2>2, <2>3
<1> QED
  BY <1>1, <1>3 DEF Disjoint

\* Versions stay successive when one is saved against the last.
LEMMA SuccessiveAppend ==
  ASSUME NEW versions \in Seq(Nat), Successive(versions)
  PROVE  LET u == Append(versions, Len(versions)) IN
         u \in Seq(Nat) /\ Len(u) = Len(versions) + 1 /\ Successive(u)
<1> DEFINE u == Append(versions, Len(versions))
<1>1. /\ DOMAIN u = 1 .. Len(versions) + 1 /\ DOMAIN versions = 1 .. Len(versions)
      /\ Len(versions) \in Nat /\ u[Len(versions) + 1] = Len(versions)
      /\ \A i \in 1 .. Len(versions) : u[i] = versions[i]
      /\ u \in Seq(Nat) /\ Len(u) = Len(versions) + 1
  OBVIOUS
<1>2. ASSUME NEW i \in DOMAIN u PROVE u[i] = i - 1
  <2>1. CASE i = Len(versions) + 1
    BY <1>1, <2>1
  <2>2. CASE i # Len(versions) + 1
    <3>1. i \in DOMAIN versions /\ u[i] = versions[i]
      BY <1>1, <1>2, <2>2
    <3> QED
      BY <3>1 DEF Successive
  <2> QED
    BY <2>1, <2>2
<1> QED
  BY <1>1, <1>2 DEF Successive

-----------------------------------------------------------------------------
\* Nothing is saved and nothing is open.
LEMMA ContractsInvInit == ContractsInit => ContractsInv
<1> SUFFICES ASSUME ContractsInit PROVE ContractsInv
  OBVIOUS
<1>1. ContractsTyped
  BY DEF ContractsInit, ContractsTyped, ContractRows, NoContract
<1>2. NoSaveLost
  BY DEF ContractsInit, NoSaveLost, NoContract
<1>3. SalariesDisjoint
  BY DEF ContractsInit, SalariesDisjoint
<1>4. AccrualsLocked
  BY DEF ContractsInit, AccrualsLocked
<1> QED
  BY <1>1, <1>2, <1>3, <1>4 DEF ContractsInv

\* A page shows the version that is in force.
LEMMA GetKeeps ==
  ASSUME ContractsInv, NEW a \in Admins, NEW r \in ContractRiders, GetEarningContract(a, r)
  PROVE  ContractsInv'
<1>1. contract[r].version \in Nat
  BY DEF ContractsInv, ContractsTyped, ContractRows
<1>2. [rider |-> r, version |-> contract[r].version] \in Pages
  BY <1>1 DEF Pages
<1>3. page' \in [Admins -> Pages \cup {NoPage}]
  BY <1>2 DEF ContractsInv, ContractsTyped, GetEarningContract
<1>4. UNCHANGED <<contract, audit, contractLock, accrual, accruals>>
  BY DEF GetEarningContract
<1> QED
  BY <1>3, <1>4 DEF ContractsInv, ContractsTyped, NoSaveLost, SalariesDisjoint, AccrualsLocked

\* A save adds one version, to the version its page showed.
LEMMA SaveKeeps ==
  ASSUME ContractsInv, NEW a \in Admins, NEW p \in Typed, SaveEarningContract(a, p)
  PROVE  ContractsInv'
<1> DEFINE r == page[a].rider
           v == contract[r].version + 1
<1>1. page[a] \in Pages /\ r \in ContractRiders
  BY DEF ContractsInv, ContractsTyped, SaveEarningContract, Pages
<1>2. /\ audit[r] \in Seq(Nat) /\ Successive(audit[r])
      /\ contract[r].version = Len(audit[r]) /\ Len(audit[r]) \in Nat
      /\ page[a].version = Len(audit[r])
  BY <1>1 DEF ContractsInv, ContractsTyped, NoSaveLost, Successive, SaveEarningContract
<1>3. /\ contract' = [contract EXCEPT ![r] = Saved(p, v)]
      /\ audit' = [audit EXCEPT ![r] = Append(audit[r], Len(audit[r]))]
      /\ page' = [page EXCEPT ![a].version = v]
      /\ UNCHANGED <<contractLock, accrual, accruals>>
  BY <1>2 DEF SaveEarningContract, Saves
<1>4. v \in Nat /\ v = Len(audit[r]) + 1
  BY <1>2
<1>5. Saved(p, v) \in ContractRows /\ Saved(p, v).version = v
  BY <1>4 DEF Saved, ContractRows
<1>6. [page[a] EXCEPT !.version = v] \in Pages
  BY <1>1, <1>4 DEF Pages
<1>7. /\ Append(audit[r], Len(audit[r])) \in Seq(Nat)
      /\ Len(Append(audit[r], Len(audit[r]))) = v
      /\ Successive(Append(audit[r], Len(audit[r])))
  BY <1>2, <1>4, SuccessiveAppend
<1> HIDE DEF r, v
<1>8. ContractsTyped'
  <2>1. contract' \in [ContractRiders -> ContractRows]
    BY <1>1, <1>3, <1>5 DEF ContractsInv, ContractsTyped
  <2>2. audit' \in [ContractRiders -> Seq(Nat)]
    BY <1>1, <1>3, <1>7 DEF ContractsInv, ContractsTyped
  <2>3. page' \in [Admins -> Pages \cup {NoPage}]
    BY <1>3, <1>6 DEF ContractsInv, ContractsTyped
  <2> QED
    BY <1>3, <2>1, <2>2, <2>3 DEF ContractsInv, ContractsTyped
<1>9. NoSaveLost'
  <2> SUFFICES ASSUME NEW q \in ContractRiders
               PROVE  contract'[q].version = Len(audit'[q]) /\ Successive(audit'[q])
    BY DEF NoSaveLost, Successive
  <2>1. CASE q = r
    <3>1. contract'[q] = Saved(p, v) /\ audit'[q] = Append(audit[r], Len(audit[r]))
      BY <1>1, <1>3, <2>1 DEF ContractsInv, ContractsTyped
    <3> QED
      BY <1>5, <1>7, <3>1
  <2>2. CASE q # r
    <3>1. contract'[q] = contract[q] /\ audit'[q] = audit[q]
      BY <1>3, <2>2 DEF ContractsInv, ContractsTyped
    <3> QED
      BY <3>1 DEF ContractsInv, NoSaveLost, Successive
  <2> QED
    BY <2>1, <2>2
<1>10. SalariesDisjoint' /\ AccrualsLocked'
  BY <1>3 DEF ContractsInv, SalariesDisjoint, AccrualsLocked
<1> QED
  BY <1>8, <1>9, <1>10 DEF ContractsInv

\* A salary transaction takes the lock that nobody holds.
LEMMA AccrueKeeps ==
  ASSUME ContractsInv, NEW a \in Admins, NEW r \in ContractRiders, NEW start \in Starts,
         AccrueSalary(a, r, start)
  PROVE  ContractsInv'
<1> DEFINE end == PeriodEnd(contract[r].policy, start)
           e == [rider |-> r, period |-> <<start, end>>]
<1>1. end \in Int /\ start \in Int
  BY ContractsAssumption DEF PeriodEnd
<1>2. e \in OpenAccruals /\ e.rider = r /\ e.period = <<start, end>>
  BY <1>1 DEF OpenAccruals, Spans
<1>3. /\ accrual' = [accrual EXCEPT ![a] = e]
      /\ contractLock' = [contractLock EXCEPT ![r] = a]
      /\ contractLock[r] = NoPage
      /\ Clear(<<start, end>>, accruals[r])
      /\ UNCHANGED <<contract, audit, page, accruals>>
  BY DEF AccrueSalary, BeginsAccrual, Clear
<1> HIDE DEF end, e
<1>4. ContractsTyped'
  BY <1>2, <1>3 DEF ContractsInv, ContractsTyped
<1>5. NoSaveLost' /\ SalariesDisjoint'
  BY <1>3 DEF ContractsInv, NoSaveLost, SalariesDisjoint
<1>6. AccrualsLocked'
  <2> SUFFICES ASSUME NEW b \in Admins, accrual'[b] # NoPage
               PROVE  /\ contractLock'[accrual'[b].rider] = b
                      /\ Clear(accrual'[b].period, accruals'[accrual'[b].rider])
    BY DEF AccrualsLocked
  <2>1. CASE b = a
    <3>1. accrual'[b] = e /\ contractLock'[r] = a
      BY <1>3, <2>1 DEF ContractsInv, ContractsTyped
    <3> QED
      BY <1>2, <1>3, <2>1, <3>1
  <2>2. CASE b # a
    <3>1. accrual'[b] = accrual[b] /\ accrual[b] # NoPage
      BY <1>3, <2>2 DEF ContractsInv, ContractsTyped
    <3>2. /\ contractLock[accrual[b].rider] = b
          /\ Clear(accrual[b].period, accruals[accrual[b].rider])
      BY <3>1 DEF ContractsInv, AccrualsLocked
    <3>3. accrual[b].rider \in ContractRiders /\ accrual[b].rider # r
      BY <1>3, <3>1, <3>2, ContractsAssumption
        DEF ContractsInv, ContractsTyped, OpenAccruals
    <3>4. contractLock'[accrual[b].rider] = contractLock[accrual[b].rider]
      BY <1>3, <3>3 DEF ContractsInv, ContractsTyped
    <3> QED
      BY <1>3, <3>1, <3>2, <3>4
  <2> QED
    BY <2>1, <2>2
<1> QED
  BY <1>4, <1>5, <1>6 DEF ContractsInv

\* The end of one leaves the others their locks and their clear periods.
LEMMA EndKeeps ==
  ASSUME ContractsInv, NEW a \in Admins, accrual[a] # NoPage, EndsAccrual(a)
  PROVE  /\ contractLock' \in [ContractRiders -> Admins \cup {NoPage}]
         /\ accrual' \in [Admins -> OpenAccruals \cup {NoPage}]
         /\ \A b \in Admins : accrual'[b] # NoPage =>
              /\ b # a /\ accrual'[b] = accrual[b]
              /\ contractLock'[accrual[b].rider] = b
              /\ accrual[b].rider # accrual[a].rider
<1>1. /\ accrual' = [accrual EXCEPT ![a] = NoPage]
      /\ contractLock' = [r \in ContractRiders |->
                            IF contractLock[r] = a THEN NoPage ELSE contractLock[r]]
  BY DEF EndsAccrual
<1>2. contractLock' \in [ContractRiders -> Admins \cup {NoPage}]
  BY <1>1 DEF ContractsInv, ContractsTyped
<1>3. accrual' \in [Admins -> OpenAccruals \cup {NoPage}]
  BY <1>1 DEF ContractsInv, ContractsTyped
<1>4. ASSUME NEW b \in Admins, accrual'[b] # NoPage
      PROVE  /\ b # a /\ accrual'[b] = accrual[b]
             /\ contractLock'[accrual[b].rider] = b
             /\ accrual[b].rider # accrual[a].rider
  <2>1. b # a /\ accrual'[b] = accrual[b] /\ accrual[b] # NoPage
    BY <1>1, <1>4 DEF ContractsInv, ContractsTyped
  <2>2. contractLock[accrual[b].rider] = b /\ contractLock[accrual[a].rider] = a
    BY <2>1 DEF ContractsInv, AccrualsLocked
  <2>3. accrual[b].rider \in ContractRiders
    BY <2>1 DEF ContractsInv, ContractsTyped, OpenAccruals
  <2>4. contractLock'[accrual[b].rider] = b
    BY <1>1, <2>1, <2>2, <2>3
  <2> QED
    BY <2>1, <2>2, <2>4
<1> QED
  BY <1>2, <1>3, <1>4

\* The period that joins was clear, and nobody else was at it.
LEMMA ContractCommitKeeps ==
  ASSUME ContractsInv, NEW a \in Admins, CommitsAccrual(a)
  PROVE  ContractsInv'
<1> DEFINE r == accrual[a].rider
           e == accrual[a].period
<1>1. accrual[a] # NoPage /\ r \in ContractRiders /\ e \in Spans
  BY DEF CommitsAccrual, ContractsInv, ContractsTyped, OpenAccruals
<1>2. /\ accruals' = [accruals EXCEPT ![r] = Append(accruals[r], e)]
      /\ EndsAccrual(a)
      /\ UNCHANGED <<contract, audit, page>>
  BY DEF CommitsAccrual, EndsAccrual
<1>3. accruals[r] \in Seq(Spans) /\ Disjoint(accruals[r]) /\ Clear(e, accruals[r])
  BY <1>1 DEF ContractsInv, ContractsTyped, SalariesDisjoint, Disjoint, AccrualsLocked
<1>4. Disjoint(Append(accruals[r], e)) /\ Append(accruals[r], e) \in Seq(Spans)
  BY <1>1, <1>3, DisjointAppend
<1>5. /\ contractLock' \in [ContractRiders -> Admins \cup {NoPage}]
      /\ accrual' \in [Admins -> OpenAccruals \cup {NoPage}]
      /\ \A b \in Admins : accrual'[b] # NoPage =>
           /\ b # a /\ accrual'[b] = accrual[b]
           /\ contractLock'[accrual[b].rider] = b
           /\ accrual[b].rider # r
  BY <1>1, <1>2, EndKeeps
<1> HIDE DEF r, e
<1>6. ContractsTyped'
  <2>1. accruals' \in [ContractRiders -> Seq(Spans)]
    BY <1>1, <1>2, <1>4 DEF ContractsInv, ContractsTyped
  <2> QED
    BY <1>2, <1>5, <2>1 DEF ContractsInv, ContractsTyped
<1>7. NoSaveLost'
  BY <1>2 DEF ContractsInv, NoSaveLost
<1>8. SalariesDisjoint'
  <2> SUFFICES ASSUME NEW q \in ContractRiders PROVE Disjoint(accruals'[q])
    BY DEF SalariesDisjoint, Disjoint
  <2>1. CASE q = r
    BY <1>1, <1>2, <1>4, <2>1 DEF ContractsInv, ContractsTyped
  <2>2. CASE q # r
    <3>1. accruals'[q] = accruals[q]
      BY <1>2, <2>2 DEF ContractsInv, ContractsTyped
    <3> QED
      BY <3>1 DEF ContractsInv, SalariesDisjoint, Disjoint
  <2> QED
    BY <2>1, <2>2
<1>9. AccrualsLocked'
  <2> SUFFICES ASSUME NEW b \in Admins, accrual'[b] # NoPage
               PROVE  /\ contractLock'[accrual'[b].rider] = b
                      /\ Clear(accrual'[b].period, accruals'[accrual'[b].rider])
    BY DEF AccrualsLocked
  <2>1. /\ accrual'[b] = accrual[b] /\ accrual[b].rider # r
        /\ contractLock'[accrual[b].rider] = b /\ accrual[b] # NoPage
    BY <1>5
  <2>2. accruals'[accrual[b].rider] = accruals[accrual[b].rider]
    BY <1>2, <2>1 DEF ContractsInv, ContractsTyped, OpenAccruals
  <2>3. Clear(accrual[b].period, accruals[accrual[b].rider])
    BY <2>1 DEF ContractsInv, AccrualsLocked
  <2> QED
    BY <2>1, <2>2, <2>3
<1> QED
  BY <1>6, <1>7, <1>8, <1>9 DEF ContractsInv

\* A rolled back transaction leaves only its lock.
LEMMA AbandonKeeps ==
  ASSUME ContractsInv, NEW a \in Admins, AbandonsAccrual(a)
  PROVE  ContractsInv'
<1>1. /\ accrual[a] # NoPage /\ EndsAccrual(a)
      /\ UNCHANGED <<contract, audit, page, accruals>>
  BY DEF AbandonsAccrual, EndsAccrual
<1>2. /\ contractLock' \in [ContractRiders -> Admins \cup {NoPage}]
      /\ accrual' \in [Admins -> OpenAccruals \cup {NoPage}]
      /\ \A b \in Admins : accrual'[b] # NoPage =>
           /\ b # a /\ accrual'[b] = accrual[b]
           /\ contractLock'[accrual[b].rider] = b
  BY <1>1, EndKeeps
<1>3. ContractsTyped'
  BY <1>1, <1>2 DEF ContractsInv, ContractsTyped
<1>4. NoSaveLost' /\ SalariesDisjoint'
  BY <1>1 DEF ContractsInv, NoSaveLost, SalariesDisjoint
<1>5. AccrualsLocked'
  BY <1>1, <1>2 DEF ContractsInv, AccrualsLocked
<1> QED
  BY <1>3, <1>4, <1>5 DEF ContractsInv

\* Every step keeps the invariant.
LEMMA ContractsInvNext == ContractsInv /\ [ContractsNext]_contractVars => ContractsInv'
<1> SUFFICES ASSUME ContractsInv, [ContractsNext]_contractVars PROVE ContractsInv'
  OBVIOUS
<1>1. CASE ContractsNext
  <2>1. PICK a \in Admins :
          \/ \E r \in ContractRiders : GetEarningContract(a, r)
          \/ \E p \in Typed : SaveEarningContract(a, p)
          \/ \E r \in ContractRiders, start \in Starts : AccrueSalary(a, r, start)
          \/ CommitsAccrual(a)
          \/ AbandonsAccrual(a)
    BY <1>1 DEF ContractsNext
  <2> QED
    BY <2>1, GetKeeps, SaveKeeps, AccrueKeeps, ContractCommitKeeps, AbandonKeeps
<1>2. CASE UNCHANGED contractVars
  BY <1>2 DEF contractVars, ContractsInv, ContractsTyped, NoSaveLost, SalariesDisjoint,
              AccrualsLocked
<1> QED
  BY <1>1, <1>2

\* The inductive invariant holds in every state.
THEOREM ContractsInvariant == ContractsSpec => []ContractsInv
<1>1. ContractsInit => ContractsInv
  BY ContractsInvInit
<1>2. ContractsInv /\ [ContractsNext]_contractVars => ContractsInv'
  BY ContractsInvNext
<1> QED
  BY <1>1, <1>2, PTL DEF ContractsSpec

(* Every version of a contract was saved by somebody whose page showed the *)
(* version before it, however many administrators save at once.            *)
THEOREM SavesKept == ContractsSpec => []NoSaveLost
<1>1. ContractsInv => NoSaveLost
  BY DEF ContractsInv
<1> QED
  BY <1>1, ContractsInvariant, PTL

(* No day of a rider is paid by two salary accruals, also not when two     *)
(* administrators accrue at once or the period of the contract changes.    *)
THEOREM SalariesSound == ContractsSpec => []SalariesDisjoint
<1>1. ContractsInv => SalariesDisjoint
  BY DEF ContractsInv
<1> QED
  BY <1>1, ContractsInvariant, PTL

-----------------------------------------------------------------------------
(* The bounds: contracts are valid ones, and periods those a contract has. *)

ContractsInForce == [version : 1 .. MaxVersions, policy : {p \in Typed : Valid(p)}]

ContractsFit ==
  /\ contract \in [ContractRiders -> {NoContract} \cup ContractsInForce]
  /\ audit \in [ContractRiders -> Seq(0 .. MaxVersions)]
  /\ page \in [Admins -> [rider : ContractRiders, version : 0 .. MaxVersions] \cup {NoPage}]
  /\ accrual \in [Admins -> [rider : ContractRiders, period : Periods] \cup {NoPage}]
  /\ accruals \in [ContractRiders -> Seq(Periods)]

\* A sequence over a set has its elements in it.
LEMMA ElementsIn == ASSUME NEW S, NEW s \in Seq(S) PROVE \A i \in DOMAIN s : s[i] \in S
OBVIOUS

\* What the invariant and the bounds say together is the type invariant.
LEMMA ContractsInTypes == ContractsInv /\ ContractsFit => ContractsTypeOK
<1> SUFFICES ASSUME ContractsInv, ContractsFit PROVE ContractsTypeOK
  OBVIOUS
<1>1. ASSUME NEW r \in ContractRiders, contract[r] # NoContract
      PROVE  /\ contract[r].policy \in Typed /\ Valid(contract[r].policy)
             /\ contract[r].version \in 1 .. MaxVersions
  BY <1>1 DEF ContractsFit, ContractsInForce
<1>2. ASSUME NEW r \in ContractRiders
      PROVE  /\ \A i \in DOMAIN audit[r] : audit[r][i] \in 0 .. MaxVersions
             /\ \A i \in DOMAIN accruals[r] : accruals[r][i] \in Periods
  <2>1. audit[r] \in Seq(0 .. MaxVersions) /\ accruals[r] \in Seq(Periods)
    BY DEF ContractsFit
  <2> QED BY <2>1, ElementsIn
<1>3. /\ page \in [Admins -> [rider : ContractRiders, version : 0 .. MaxVersions] \cup {NoPage}]
      /\ accrual \in [Admins -> [rider : ContractRiders, period : Periods] \cup {NoPage}]
      /\ contractLock \in [ContractRiders -> Admins \cup {NoPage}]
  BY DEF ContractsFit, ContractsInv, ContractsTyped
<1> QED BY <1>1, <1>2, <1>3, Zenon DEF ContractsTypeOK

\* A contract has the version it was saved under, none has version zero.
LEMMA VersionsFit ==
  ASSUME ContractsFit, NEW r \in ContractRiders
  PROVE  contract[r].version \in 0 .. MaxVersions
<1>1. contract[r] \in {NoContract} \cup ContractsInForce
  BY DEF ContractsFit
<1>2. MaxVersions \in Nat
  BY ContractsAssumption
<1>3. CASE contract[r] = NoContract
  <2>1. contract[r].version = 0
    BY <1>3 DEF NoContract
  <2> QED BY <1>2, <2>1
<1>4. CASE contract[r] \in ContractsInForce
  <2>1. contract[r].version \in 1 .. MaxVersions
    BY <1>4 DEF ContractsInForce
  <2> QED BY <1>2, <2>1
<1> QED BY <1>1, <1>3, <1>4

\* A save puts a valid contract in force, under a number within the bound.
LEMMA SaveFits ==
  ASSUME ContractsInv, ContractsFit, NEW a \in Admins, NEW p \in Typed,
         SaveEarningContract(a, p)
  PROVE  ContractsFit'
<1> DEFINE r == page[a].rider
           v == contract[r].version + 1
<1>1. /\ page[a] \in [rider : ContractRiders, version : 0 .. MaxVersions] /\ Valid(p)
      /\ v <= MaxVersions
      /\ contract' = [contract EXCEPT ![r] = Saved(p, v)]
      /\ audit' = [audit EXCEPT ![r] = Append(audit[r], page[a].version)]
      /\ page' = [page EXCEPT ![a].version = v]
      /\ UNCHANGED <<accrual, accruals>>
  BY DEF SaveEarningContract, Saves, ContractsFit
<1>2. r \in ContractRiders
  BY <1>1
<1>3. v \in 1 .. MaxVersions /\ v \in 0 .. MaxVersions
  <2>1. contract[r].version \in 0 .. MaxVersions /\ MaxVersions \in Nat
    BY <1>2, VersionsFit, ContractsAssumption
  <2> QED BY <1>1, <2>1
<1> HIDE DEF v
<1>4. contract' \in [ContractRiders -> {NoContract} \cup ContractsInForce]
  <2>1. Saved(p, v) \in ContractsInForce
    BY <1>1, <1>3 DEF Saved, ContractsInForce
  <2> QED BY <1>1, <1>2, <2>1 DEF ContractsFit
<1>5. audit' \in [ContractRiders -> Seq(0 .. MaxVersions)]
  <2>1. Append(audit[r], page[a].version) \in Seq(0 .. MaxVersions)
    BY <1>1, <1>2 DEF ContractsFit
  <2> QED BY <1>1, <1>2, <2>1 DEF ContractsFit
<1>6. page' \in [Admins -> [rider : ContractRiders, version : 0 .. MaxVersions] \cup {NoPage}]
  <2>1. page' = [page EXCEPT ![a] = [page[a] EXCEPT !.version = v]]
    BY <1>1
  <2>2. [page[a] EXCEPT !.version = v] \in [rider : ContractRiders, version : 0 .. MaxVersions]
    BY <1>1, <1>3
  <2> QED BY <2>1, <2>2 DEF ContractsFit
<1> QED BY <1>1, <1>4, <1>5, <1>6 DEF ContractsFit

\* A salary is accrued for a week or a month.
LEMMA AccrueFits ==
  ASSUME ContractsFit, NEW a \in Admins, NEW r \in ContractRiders, NEW start \in Starts,
         AccrueSalary(a, r, start)
  PROVE  ContractsFit'
<1> DEFINE e == <<start, PeriodEnd(contract[r].policy, start)>>
           open == [rider |-> r, period |-> e]
<1>1. accrual' = [accrual EXCEPT ![a] = open] /\ UNCHANGED <<contract, audit, page, accruals>>
  BY DEF AccrueSalary, BeginsAccrual
<1>2. e \in Periods
  BY DEF Periods, PeriodEnd
<1> HIDE DEF e
<1>3. open \in [rider : ContractRiders, period : Periods]
  BY <1>2
<1> QED BY <1>1, <1>3 DEF ContractsFit

\* A salary is committed for the period of its transaction, or not at all.
LEMMA EndFits ==
  ASSUME ContractsFit, NEW a \in Admins, CommitsAccrual(a) \/ AbandonsAccrual(a)
  PROVE  ContractsFit'
<1>1. /\ accrual[a] # NoPage /\ accrual' = [accrual EXCEPT ![a] = NoPage]
      /\ UNCHANGED <<contract, audit, page>>
  BY DEF CommitsAccrual, AbandonsAccrual, EndsAccrual
<1>2. accrual[a] \in [rider : ContractRiders, period : Periods]
  BY <1>1 DEF ContractsFit
<1>3. accruals' \in [ContractRiders -> Seq(Periods)]
  <2>1. CASE CommitsAccrual(a)
    <3> DEFINE r == accrual[a].rider
               e == accrual[a].period
    <3>1. r \in ContractRiders /\ e \in Periods
      BY <1>2
    <3>2. accruals' = [accruals EXCEPT ![r] = Append(accruals[r], e)]
      BY <2>1 DEF CommitsAccrual
    <3> HIDE DEF r, e
    <3>3. Append(accruals[r], e) \in Seq(Periods)
      BY <3>1 DEF ContractsFit
    <3> QED BY <3>1, <3>2, <3>3 DEF ContractsFit
  <2>2. CASE AbandonsAccrual(a)
    BY <2>2 DEF AbandonsAccrual, ContractsFit
  <2> QED BY <2>1, <2>2
<1> QED BY <1>1, <1>3 DEF ContractsFit

\* A page shows a version there is.
LEMMA GetFits ==
  ASSUME ContractsFit, NEW a \in Admins, NEW r \in ContractRiders, GetEarningContract(a, r)
  PROVE  ContractsFit'
<1> DEFINE seen == [rider |-> r, version |-> contract[r].version]
<1>1. /\ page' = [page EXCEPT ![a] = seen]
      /\ UNCHANGED <<contract, audit, accrual, accruals>>
  BY DEF GetEarningContract
<1>2. seen \in [rider : ContractRiders, version : 0 .. MaxVersions]
  BY VersionsFit
<1> HIDE DEF seen
<1> QED BY <1>1, <1>2 DEF ContractsFit

\* The bounds hold at first.
LEMMA ContractsStartFit == ContractsInit => ContractsFit
BY DEF ContractsInit, ContractsFit

\* The bounds hold after every step.
LEMMA ContractsStayFit ==
  ContractsInv /\ ContractsFit /\ [ContractsNext]_contractVars => ContractsFit'
<1> SUFFICES ASSUME ContractsInv, ContractsFit, [ContractsNext]_contractVars
             PROVE  ContractsFit'
  OBVIOUS
<1>1. CASE UNCHANGED contractVars
  BY <1>1 DEF contractVars, ContractsFit
<1>2. CASE ContractsNext
  BY <1>2, GetFits, SaveFits, AccrueFits, EndFits DEF ContractsNext
<1> QED BY <1>1, <1>2

\* Only valid contracts are ever in force, and salaries are for the periods
\* that contracts have.
THEOREM ContractsTyping == ContractsSpec => []ContractsTypeOK
<1>1. ContractsInit => ContractsInv /\ ContractsFit
  BY ContractsInvInit, ContractsStartFit
<1>2. ContractsInv /\ ContractsFit /\ [ContractsNext]_contractVars
        => (ContractsInv /\ ContractsFit)'
  BY ContractsInvNext, ContractsStayFit
<1>3. ContractsInv /\ ContractsFit => ContractsTypeOK
  BY ContractsInTypes
<1> QED BY <1>1, <1>2, <1>3, PTL DEF ContractsSpec

-----------------------------------------------------------------------------
(* OfferPay: from the offer to the credit.                                 *)

CreditRows == [kind : {"delivery", "incentive"}, pair : Pairs, cents : Nat]
ReviewRows == [cents : Nat, status : {"pending", "approved", "rejected"}]
OfferStates == {"none", "pending", "accepted", "rejected", "closed"}
Stages == Carrying \cup {"rider_searching", "delivered", "cancelled"}

PayTyped ==
  /\ rollout \in BOOLEAN
  /\ offerState \in [Pairs -> OfferStates]
  /\ offerPay \in [Pairs -> Frozen \cup {NoPay}]
  /\ shown \in [Pairs -> Nat]
  /\ jobPay \in [Pairs -> Frozen \cup {NoPay}]
  /\ review \in [Pairs -> ReviewRows \cup {NoPay}]
  /\ carrier \in [PayDeliveries -> PayRiders \cup {NoPay}]
  /\ stage \in [PayDeliveries -> Stages]
  /\ \A d \in PayDeliveries : carrier[d] = NoPay => stage[d] \in {"rider_searching", "cancelled"}
  /\ credits \in Seq(CreditRows)

PayShown(pay) == IF pay = NoPay THEN SnapshotPay ELSE pay.amount

\* The rider was shown what is frozen, and only that becomes the pay of the job.
AsFrozen(state, offered, told, job) ==
  \A x \in Pairs : /\ state[x] # "none" => told[x] = PayShown(offered[x])
                   /\ job[x] # NoPay => job[x] = offered[x]

\* Who carries a delivery was offered it.
CarrierAsked(state, who) ==
  \A d \in PayDeliveries : who[d] # NoPay => state[<<d, who[d]>>] # "none"

\* Only the carrier of a cancelled delivery has a review.
CarrierReviewed(reviews, at, who) ==
  \A x \in Pairs : reviews[x] # NoPay => at[x[1]] = "cancelled" /\ who[x[1]] = x[2]

\* A credit is for how its delivery ended.
CreditedAtEnd(rows, reviews, at, who) ==
  \A i \in DOMAIN rows : LET x == rows[i].pair IN
    \/ rows[i].kind = "delivery" /\ at[x[1]] = "delivered"
    \/ /\ rows[i].kind = "incentive" /\ at[x[1]] = "cancelled"
       /\ reviews[x].status = "approved" /\ who[x[1]] = x[2]

PayInv ==
  /\ PayTyped
  /\ AsFrozen(offerState, offerPay, shown, jobPay)
  /\ CarrierAsked(offerState, carrier)
  /\ CarrierReviewed(review, stage, carrier)
  /\ CreditedAtEnd(credits, review, stage, carrier)
  /\ PaidAsShown
  /\ CreditedOnce

-----------------------------------------------------------------------------
\* What a valid contract grants for a cancellation, or pays, is no negative
\* amount or rate.
LEMMA ValidTyped ==
  ASSUME NEW p, Valid(p)
  PROVE  /\ \A s \in DOMAIN p.cancellation :
              p.cancellation[s].fixed \in Nat /\ p.cancellation[s].permille \in Nat
         /\ p.base \in Nat /\ p.perKm \in Nat /\ p.incentive \in Nat /\ p.permille \in Nat
<1> DEFINE cents == 0 .. MaxCents
           rates == 0 .. 1000
<1>1. cents \subseteq Nat /\ rates \subseteq Nat
  <2>1. \A n \in Nat : 0 .. n \subseteq Nat
    OBVIOUS
  <2>2. MaxCents \in Nat /\ 1000 \in Nat
    BY SMT DEF MaxCents
  <2> QED BY <2>1, <2>2
<1>2. /\ {p.base, p.perKm, p.salary, p.incentive} \subseteq cents
      /\ p.permille \in rates
  BY Zenon DEF Valid
<1>3. \A s \in DOMAIN p.cancellation :
        /\ p.cancellation[s].fixed \in cents
        /\ p.cancellation[s].permille \in rates
        /\ p.mode = "salary" => p.cancellation[s].fixed = 0
        /\ p.mode = "per_delivery" => p.cancellation[s].permille = 0
  BY Zenon DEF Valid
<1> HIDE DEF cents, rates
<1> QED BY <1>1, <1>2, <1>3

\* What a valid contract grants at a stage is no negative amount or rate.
LEMMA RuleTyped ==
  ASSUME NEW p, Valid(p), NEW s
  PROVE  RuleAt(p, s).fixed \in Nat /\ RuleAt(p, s).permille \in Nat
<1>1. CASE s \in DOMAIN p.cancellation
  <2>1. RuleAt(p, s) = p.cancellation[s]
    BY <1>1 DEF RuleAt
  <2> QED BY <1>1, <2>1, ValidTyped
<1>2. CASE s \notin DOMAIN p.cancellation
  BY <1>2 DEF RuleAt, NoRule
<1> QED BY <1>1, <1>2

\* A rounded share of an amount is an amount.
LEMMA PermilleTyped ==
  ASSUME NEW x \in Nat, NEW rate \in Nat
  PROVE  Permille(x, rate) \in Nat
<1>1. x * rate \in Nat
  OBVIOUS
<1> QED BY <1>1 DEF Permille

\* A valid contract quotes no negative amount.
LEMMA QuotesTyped ==
  ASSUME NEW p \in Offered
  PROVE  Quote(p) \in Frozen
<1>1. /\ Items \in Nat /\ Metres \in Nat /\ Tip \in Nat
      /\ p.incentive \in Nat /\ p.permille \in Nat /\ p.base \in Nat /\ p.perKm \in Nat
  <2>1. Valid(p) /\ Items \in Nat /\ Metres \in Nat /\ Tip \in Nat
    BY OfferPayAssumption
  <2> QED BY <2>1, ValidTyped
<1>2. Permille(Items, p.permille) \in Nat /\ Permille(Metres, p.perKm) \in Nat
  BY <1>1, PermilleTyped
<1>3. QuotedIncentive(p, Items) \in Nat
  BY <1>1, <1>2 DEF QuotedIncentive
<1>4. QuotedPay(p, Items, Metres) \in Nat
  BY <1>1, <1>2, <1>3 DEF QuotedPay
<1>5. QuotedPay(p, Items, Metres) + Tip \in Nat
  BY <1>1, <1>4
<1> QED BY <1>3, <1>5 DEF Quote, Frozen

\* Nor does it grant one for a delivery that is cancelled.
LEMMA GrantsTyped ==
  ASSUME NEW f \in Frozen, NEW s \in Stages
  PROVE  CancellationPay(f.policy, s, f.incentive) \in Nat
<1> DEFINE p == f.policy
<1>1. Valid(p) /\ f.incentive \in Nat
  BY OfferPayAssumption DEF Frozen
<1>2. RuleAt(p, s).permille \in Nat /\ RuleAt(p, s).fixed \in Nat
  BY <1>1, RuleTyped
<1>3. Permille(f.incentive, RuleAt(p, s).permille) \in Nat
  BY <1>1, <1>2, PermilleTyped
<1> QED BY <1>2, <1>3 DEF CancellationPay

\* What is credited was of a delivery that has ended.
LEMMA CreditsPlaced ==
  ASSUME PayInv, NEW d \in PayDeliveries, stage[d] \notin {"delivered", "cancelled"}
  PROVE  \A i \in DOMAIN credits : credits[i].pair \in Pairs /\ credits[i].pair[1] # d
<1> SUFFICES ASSUME NEW i \in DOMAIN credits
             PROVE  credits[i].pair \in Pairs /\ credits[i].pair[1] # d
  OBVIOUS
<1>1. credits[i] \in CreditRows
  BY DEF PayInv, PayTyped
<1>2. credits[i].pair \in Pairs
  BY <1>1 DEF CreditRows
<1>3. stage[credits[i].pair[1]] \in {"delivered", "cancelled"}
  BY DEF PayInv, CreditedAtEnd
<1> QED BY <1>2, <1>3

\* A row that is appended is the last one.
LEMMA CreditsAppended ==
  ASSUME NEW rows \in Seq(CreditRows), NEW c \in CreditRows
  PROVE  \A i \in DOMAIN Append(rows, c) :
           \/ i \in DOMAIN rows /\ Append(rows, c)[i] = rows[i]
           \/ i = Len(rows) + 1 /\ Append(rows, c)[i] = c
OBVIOUS

\* Steps that neither pay nor review, and touch no delivery that ended.
LEMMA NobodyPaid ==
  ASSUME PayInv, PayTyped', UNCHANGED <<review, credits>>,
         AsFrozen(offerState, offerPay, shown, jobPay)',
         CarrierAsked(offerState, carrier)',
         \A d \in PayDeliveries : stage[d] \in {"delivered", "cancelled"} =>
           /\ stage'[d] = stage[d] /\ carrier'[d] = carrier[d]
           /\ \A r \in PayRiders :
                /\ shown'[<<d, r>>] = shown[<<d, r>>]
                /\ offerPay'[<<d, r>>] = offerPay[<<d, r>>]
                /\ jobPay'[<<d, r>>] = jobPay[<<d, r>>]
  PROVE  PayInv'
<1>1. CarrierReviewed(review, stage, carrier)'
  BY DEF PayInv, CarrierReviewed, Pairs
<1>2. ASSUME NEW i \in DOMAIN credits
      PROVE  credits[i].pair \in Pairs
  <2>1. credits[i] \in CreditRows
    BY DEF PayInv, PayTyped
  <2> QED BY <2>1 DEF CreditRows
<1>3. CreditedAtEnd(credits, review, stage, carrier)'
  BY <1>2 DEF PayInv, CreditedAtEnd, Pairs
<1>4. PaidAsShown'
  <2> SUFFICES ASSUME NEW i \in DOMAIN credits, credits[i].kind = "delivery"
               PROVE  LET x == credits[i].pair IN
                      \/ credits[i].cents = shown'[x]
                      \/ offerPay'[x] # NoPay /\ jobPay'[x] = NoPay
                         /\ credits[i].cents = SnapshotPay
    BY DEF PaidAsShown
  <2> DEFINE x == credits[i].pair
  <2>1. x \in Pairs /\ stage[x[1]] = "delivered"
    BY <1>2 DEF PayInv, CreditedAtEnd
  <2>2. PICK d \in PayDeliveries, r \in PayRiders : x = <<d, r>>
    BY <2>1 DEF Pairs
  <2>3. shown'[x] = shown[x] /\ offerPay'[x] = offerPay[x] /\ jobPay'[x] = jobPay[x]
    BY <2>1, <2>2
  <2> QED BY <2>3 DEF PayInv, PaidAsShown
<1>5. CreditedOnce'
  BY DEF PayInv, CreditedOnce
<1> QED BY <1>1, <1>3, <1>4, <1>5 DEF PayInv

\* Only a delivery that nobody has is offered, and the pay frozen first stays.
LEMMA OpensKeeps ==
  ASSUME PayInv, NEW d \in PayDeliveries, NEW r \in PayRiders,
         NEW p \in Offered \cup {NoPay}, OpensOffer(d, r, p)
  PROVE  PayInv'
<1> DEFINE x == <<d, r>>
           frozen == IF rollout THEN FrozenPay(offerPay[x], p) ELSE offerPay[x]
<1>1. x \in Pairs
  BY DEF Pairs
<1>2. /\ frozen \in Frozen \cup {NoPay}
      /\ offerPay[x] # NoPay => frozen = offerPay[x]
  BY <1>1, QuotesTyped DEF PayInv, PayTyped, FrozenPay
<1>3. /\ offerState' = [offerState EXCEPT ![x] = "pending"]
      /\ offerPay' = [offerPay EXCEPT ![x] = frozen]
      /\ shown' = [shown EXCEPT ![x] = PayShown(frozen)]
      /\ stage[d] = "rider_searching"
      /\ UNCHANGED <<rollout, jobPay, carrier, stage, review, credits>>
  BY DEF OpensOffer, PayShown
<1>4. PayShown(frozen) \in Nat
  BY <1>2, OfferPayAssumption DEF PayShown, Frozen
<1> HIDE DEF frozen
<1>5. PayTyped'
  BY <1>1, <1>2, <1>3, <1>4 DEF PayInv, PayTyped, OfferStates
<1>6. \A y \in Pairs : y # x => /\ offerState'[y] = offerState[y] /\ shown'[y] = shown[y]
                               /\ offerPay'[y] = offerPay[y]
  BY <1>3 DEF PayInv, PayTyped
<1>7. offerState'[x] = "pending" /\ offerPay'[x] = frozen /\ shown'[x] = PayShown(frozen)
  BY <1>1, <1>3 DEF PayInv, PayTyped
<1>8. AsFrozen(offerState, offerPay, shown, jobPay)'
  BY <1>1, <1>2, <1>3, <1>6, <1>7 DEF PayInv, AsFrozen
<1>9. CarrierAsked(offerState, carrier)'
  BY <1>3, <1>6, <1>7 DEF PayInv, PayTyped, CarrierAsked, Pairs
<1>10. \A e \in PayDeliveries, q \in PayRiders : e # d => <<e, q>> \in Pairs /\ <<e, q>> # x
  BY DEF Pairs
<1> QED BY <1>3, <1>5, <1>6, <1>8, <1>9, <1>10, NobodyPaid

\* An offer that closes leaves everything else.
LEMMA OfferClosesKeeps ==
  ASSUME PayInv, NEW d \in PayDeliveries, NEW r \in PayRiders, ClosesOffer(d, r)
  PROVE  PayInv'
<1>1. /\ offerState' = [offerState EXCEPT ![<<d, r>>] = "closed"]
      /\ offerState[<<d, r>>] = "pending"
      /\ UNCHANGED <<rollout, offerPay, shown, jobPay, carrier, stage, review, credits>>
  BY DEF ClosesOffer
<1>2. PayTyped'
  BY <1>1 DEF PayInv, PayTyped, OfferStates
<1>3. \A y \in Pairs : offerState'[y] # "none" => offerState[y] # "none"
  BY <1>1 DEF PayInv, PayTyped
<1>4. \A y \in Pairs : offerState[y] # "none" => offerState'[y] # "none"
  BY <1>1 DEF PayInv, PayTyped
<1>5. AsFrozen(offerState, offerPay, shown, jobPay)'
  BY <1>1, <1>3 DEF PayInv, AsFrozen
<1>6. CarrierAsked(offerState, carrier)'
  BY <1>1, <1>4 DEF PayInv, PayTyped, CarrierAsked, Pairs
<1> QED BY <1>1, <1>2, <1>5, <1>6, NobodyPaid

\* The job is paid what was frozen with its offer, if it was copied.
LEMMA AcceptsKeeps ==
  ASSUME PayInv, NEW d \in PayDeliveries, NEW r \in PayRiders, AcceptsOffer(d, r)
  PROVE  PayInv'
<1> DEFINE x == <<d, r>>
<1>1. x \in Pairs /\ r # NoPay
  BY OfferPayAssumption DEF Pairs
<1>2. /\ offerState[x] = "pending" /\ stage[d] = "rider_searching"
      /\ offerState' = [y \in Pairs |->
           IF y = x THEN "accepted"
           ELSE IF y[1] = d /\ offerState[y] = "pending" THEN "closed" ELSE offerState[y]]
      /\ jobPay' = [jobPay EXCEPT ![x] = CopiedPay(x)]
      /\ carrier' = [carrier EXCEPT ![d] = r]
      /\ stage' = [stage EXCEPT ![d] = "rider_assigned"]
      /\ UNCHANGED <<rollout, offerPay, shown, review, credits>>
  BY DEF AcceptsOffer
<1>3. /\ CopiedPay(x) \in Frozen \cup {NoPay}
      /\ CopiedPay(x) # NoPay => CopiedPay(x) = offerPay[x]
  BY <1>1 DEF CopiedPay, PayInv, PayTyped, AsFrozen
<1>4. PayTyped'
  <2>1. offerState' \in [Pairs -> OfferStates]
    BY <1>2 DEF PayInv, PayTyped, OfferStates
  <2>2. /\ stage' \in [PayDeliveries -> Stages]
        /\ carrier' \in [PayDeliveries -> PayRiders \cup {NoPay}]
    BY <1>2 DEF PayInv, PayTyped, Stages, Carrying
  <2>3. \A e \in PayDeliveries : carrier'[e] = NoPay =>
          stage'[e] \in {"rider_searching", "cancelled"}
    BY <1>1, <1>2 DEF PayInv, PayTyped
  <2>4. jobPay' \in [Pairs -> Frozen \cup {NoPay}]
    BY <1>1, <1>2, <1>3 DEF PayInv, PayTyped
  <2> QED BY <1>2, <2>1, <2>2, <2>3, <2>4 DEF PayInv, PayTyped
<1>5. \A y \in Pairs : offerState'[y] # "none" <=> offerState[y] # "none"
  BY <1>1, <1>2 DEF PayInv, PayTyped
<1>6. \A y \in Pairs : jobPay'[y] = IF y = x THEN CopiedPay(x) ELSE jobPay[y]
  BY <1>2 DEF PayInv, PayTyped
<1>7. AsFrozen(offerState, offerPay, shown, jobPay)'
  BY <1>2, <1>3, <1>5, <1>6 DEF PayInv, AsFrozen
<1>8. CarrierAsked(offerState, carrier)'
  <2> SUFFICES ASSUME NEW e \in PayDeliveries, carrier'[e] # NoPay
               PROVE  offerState'[<<e, carrier'[e]>>] # "none"
    BY DEF CarrierAsked
  <2>1. CASE e = d
    BY <1>1, <1>2, <2>1, <1>5 DEF PayInv, PayTyped
  <2>2. CASE e # d
    <3>1. carrier'[e] = carrier[e] /\ <<e, carrier[e]>> \in Pairs
      BY <1>2, <2>2 DEF PayInv, PayTyped, Pairs
    <3>2. offerState[<<e, carrier[e]>>] # "none"
      BY <3>1 DEF PayInv, CarrierAsked
    <3> QED BY <1>5, <3>1, <3>2
  <2> QED BY <2>1, <2>2
<1>9. \A e \in PayDeliveries, q \in PayRiders : e # d => <<e, q>> \in Pairs /\ <<e, q>> # x
  BY DEF Pairs
<1>10. \A e \in PayDeliveries : e # d => stage'[e] = stage[e] /\ carrier'[e] = carrier[e]
  BY <1>2 DEF PayInv, PayTyped
<1> QED BY <1>2, <1>4, <1>6, <1>7, <1>8, <1>9, <1>10, NobodyPaid

\* The rider who withdraws keeps what was frozen for the job.
LEMMA WithdrawsKeeps ==
  ASSUME PayInv, NEW d \in PayDeliveries, WithdrawsOffer(d)
  PROVE  PayInv'
<1>1. /\ stage[d] = "rider_assigned"
      /\ offerState' = [y \in Pairs |->
           IF y[1] # d \/ offerState[y] = "none" THEN offerState[y]
           ELSE IF y[2] = carrier[d] THEN "rejected" ELSE "closed"]
      /\ carrier' = [carrier EXCEPT ![d] = NoPay]
      /\ stage' = [stage EXCEPT ![d] = "rider_searching"]
      /\ UNCHANGED <<rollout, offerPay, shown, jobPay, review, credits>>
  BY DEF WithdrawsOffer
<1>2. PayTyped'
  <2>1. offerState' \in [Pairs -> OfferStates]
    BY <1>1 DEF PayInv, PayTyped, OfferStates
  <2>2. /\ stage' \in [PayDeliveries -> Stages]
        /\ carrier' \in [PayDeliveries -> PayRiders \cup {NoPay}]
    BY <1>1 DEF PayInv, PayTyped, Stages, Carrying
  <2>3. \A e \in PayDeliveries : carrier'[e] = NoPay =>
          stage'[e] \in {"rider_searching", "cancelled"}
    BY <1>1 DEF PayInv, PayTyped
  <2> QED BY <1>1, <2>1, <2>2, <2>3 DEF PayInv, PayTyped
<1>3. \A y \in Pairs : offerState'[y] # "none" <=> offerState[y] # "none"
  BY <1>1 DEF PayInv, PayTyped
<1>4. \A e \in PayDeliveries : e # d => stage'[e] = stage[e] /\ carrier'[e] = carrier[e]
  BY <1>1 DEF PayInv, PayTyped
<1>5. carrier'[d] = NoPay
  BY <1>1 DEF PayInv, PayTyped
<1>6. AsFrozen(offerState, offerPay, shown, jobPay)'
  BY <1>1, <1>3 DEF PayInv, AsFrozen
<1>7. CarrierAsked(offerState, carrier)'
  BY <1>3, <1>4, <1>5 DEF PayInv, PayTyped, CarrierAsked, Pairs
<1> QED BY <1>1, <1>2, <1>4, <1>6, <1>7, NobodyPaid

\* Picking up changes no pay.
LEMMA PicksUpKeeps ==
  ASSUME PayInv, NEW d \in PayDeliveries, PicksUp(d)
  PROVE  PayInv'
<1>1. /\ stage[d] = "rider_assigned"
      /\ stage' = [stage EXCEPT ![d] = "picked_up"]
      /\ UNCHANGED <<rollout, offerState, offerPay, shown, jobPay, carrier, review, credits>>
  BY DEF PicksUp
<1>2. PayTyped'
  <2>1. stage' \in [PayDeliveries -> Stages]
    BY <1>1 DEF PayInv, PayTyped, Stages, Carrying
  <2>2. \A e \in PayDeliveries : carrier'[e] = NoPay =>
          stage'[e] \in {"rider_searching", "cancelled"}
    BY <1>1 DEF PayInv, PayTyped
  <2> QED BY <1>1, <2>1, <2>2 DEF PayInv, PayTyped
<1>3. \A e \in PayDeliveries : e # d => stage'[e] = stage[e]
  BY <1>1 DEF PayInv, PayTyped
<1>4. AsFrozen(offerState, offerPay, shown, jobPay)' /\ CarrierAsked(offerState, carrier)'
  BY <1>1 DEF PayInv, AsFrozen, CarrierAsked
<1> QED BY <1>1, <1>2, <1>3, <1>4, NobodyPaid

\* A delivery that is paid was not paid before, and pays what was shown.
LEMMA PaysKeeps ==
  ASSUME PayInv, NEW d \in PayDeliveries, PaysDelivery(d)
  PROVE  PayInv'
<1> DEFINE x == <<d, carrier[d]>>
           c == Credit("delivery", x, Payout(x))
<1>1. /\ stage[d] = "picked_up"
      /\ stage' = [stage EXCEPT ![d] = "delivered"]
      /\ credits' = Append(credits, c)
      /\ UNCHANGED <<rollout, offerState, offerPay, shown, jobPay, carrier, review>>
  BY DEF PaysDelivery
<1>2. carrier[d] # NoPay /\ x \in Pairs
  BY <1>1 DEF PayInv, PayTyped, Pairs
<1>3. Payout(x) \in Nat
  BY <1>2, OfferPayAssumption DEF PayInv, PayTyped, Payout, Frozen
<1>4. c \in CreditRows /\ c.kind = "delivery" /\ c.pair = x /\ c.cents = Payout(x)
  BY <1>2, <1>3 DEF Credit, CreditRows
<1>5. \/ Payout(x) = shown[x]
      \/ offerPay[x] # NoPay /\ jobPay[x] = NoPay /\ Payout(x) = SnapshotPay
  <2>1. shown[x] = PayShown(offerPay[x]) /\ (jobPay[x] # NoPay => jobPay[x] = offerPay[x])
    BY <1>2 DEF PayInv, CarrierAsked, AsFrozen
  <2> QED BY <2>1 DEF PayShown, Payout
<1> HIDE DEF c
<1>6. PayTyped'
  <2>1. stage' \in [PayDeliveries -> Stages]
    BY <1>1 DEF PayInv, PayTyped, Stages
  <2>2. \A e \in PayDeliveries : carrier'[e] = NoPay =>
          stage'[e] \in {"rider_searching", "cancelled"}
    BY <1>1, <1>2 DEF PayInv, PayTyped
  <2>3. credits' \in Seq(CreditRows)
    BY <1>1, <1>4 DEF PayInv, PayTyped
  <2> QED BY <1>1, <2>1, <2>2, <2>3 DEF PayInv, PayTyped
<1>7. stage'[d] = "delivered" /\ \A e \in PayDeliveries : e # d => stage'[e] = stage[e]
  BY <1>1 DEF PayInv, PayTyped
<1>8. CarrierReviewed(review, stage, carrier)'
  BY <1>1, <1>7 DEF PayInv, CarrierReviewed, Pairs
<1>9. \A i \in DOMAIN credits : credits[i].pair \in Pairs /\ credits[i].pair[1] # d
  BY <1>1, CreditsPlaced
<1>10. \A i \in DOMAIN credits' :
         \/ i \in DOMAIN credits /\ credits'[i] = credits[i]
         \/ i = Len(credits) + 1 /\ credits'[i] = c
  BY <1>1, <1>4, CreditsAppended DEF PayInv, PayTyped
<1>11. CreditedAtEnd(credits, review, stage, carrier)'
  <2> SUFFICES ASSUME NEW i \in DOMAIN credits'
               PROVE  LET y == credits'[i].pair IN
                 \/ credits'[i].kind = "delivery" /\ stage'[y[1]] = "delivered"
                 \/ /\ credits'[i].kind = "incentive" /\ stage'[y[1]] = "cancelled"
                    /\ review[y].status = "approved" /\ carrier[y[1]] = y[2]
    BY <1>1 DEF CreditedAtEnd
  <2>1. CASE credits'[i] = c
    BY <1>4, <1>7, <2>1
  <2>2. CASE i \in DOMAIN credits /\ credits'[i] = credits[i]
    BY <1>1, <1>7, <1>9, <2>2 DEF PayInv, CreditedAtEnd, Pairs
  <2> QED BY <1>10, <2>1, <2>2
<1>12. PaidAsShown'
  <2> SUFFICES ASSUME NEW i \in DOMAIN credits', credits'[i].kind = "delivery"
               PROVE  LET y == credits'[i].pair IN
                 \/ credits'[i].cents = shown[y]
                 \/ offerPay[y] # NoPay /\ jobPay[y] = NoPay /\ credits'[i].cents = SnapshotPay
    BY <1>1 DEF PaidAsShown
  <2>1. CASE credits'[i] = c
    BY <1>4, <1>5, <2>1
  <2>2. CASE i \in DOMAIN credits /\ credits'[i] = credits[i]
    BY <2>2 DEF PayInv, PaidAsShown
  <2> QED BY <1>10, <2>1, <2>2
<1>13. CreditedOnce'
  BY <1>4, <1>9, <1>10 DEF PayInv, CreditedOnce
<1> QED BY <1>1, <1>6, <1>7, <1>8, <1>11, <1>12, <1>13 DEF PayInv, AsFrozen, CarrierAsked

\* The trigger writes a review for the rider the delivery had, if it had none.
LEMMA CancelsKeeps ==
  ASSUME PayInv, NEW d \in PayDeliveries, CancelsDelivery(d)
  PROVE  PayInv'
<1> DEFINE x == <<d, carrier[d]>>
           row == [cents |-> CancellationPay(jobPay[x].policy, stage[d], jobPay[x].incentive),
                   status |-> "pending"]
<1>1. /\ stage[d] \notin {"delivered", "cancelled"}
      /\ stage' = [stage EXCEPT ![d] = "cancelled"]
      /\ UNCHANGED <<rollout, offerState, offerPay, shown, jobPay, carrier, credits>>
  BY DEF CancelsDelivery, Carrying
<1>2. \/ UNCHANGED review
      \/ /\ carrier[d] # NoPay /\ jobPay[x] # NoPay
         /\ review' = [review EXCEPT ![x] = row]
  BY DEF CancelsDelivery
<1>3. carrier[d] # NoPay => x \in Pairs
  BY DEF PayInv, PayTyped, Pairs
<1>4. carrier[d] # NoPay /\ jobPay[x] # NoPay => row \in ReviewRows
  <2> SUFFICES ASSUME carrier[d] # NoPay, jobPay[x] # NoPay PROVE row \in ReviewRows
    OBVIOUS
  <2>1. jobPay[x] \in Frozen /\ stage[d] \in Stages
    BY <1>3 DEF PayInv, PayTyped
  <2> QED BY <2>1, GrantsTyped DEF ReviewRows
<1> HIDE DEF row
<1>5. review' \in [Pairs -> ReviewRows \cup {NoPay}]
  BY <1>2, <1>3, <1>4 DEF PayInv, PayTyped
<1>6. stage'[d] = "cancelled" /\ \A e \in PayDeliveries : e # d => stage'[e] = stage[e]
  BY <1>1 DEF PayInv, PayTyped
<1>7. PayTyped'
  <2>1. stage' \in [PayDeliveries -> Stages]
    BY <1>1 DEF PayInv, PayTyped, Stages
  <2>2. \A e \in PayDeliveries : carrier'[e] = NoPay =>
          stage'[e] \in {"rider_searching", "cancelled"}
    BY <1>1, <1>6 DEF PayInv, PayTyped
  <2> QED BY <1>1, <1>5, <2>1, <2>2 DEF PayInv, PayTyped
<1>8. \A y \in Pairs : y # x => review'[y] = review[y]
  BY <1>2 DEF PayInv, PayTyped
<1>9. CarrierReviewed(review, stage, carrier)'
  <2> SUFFICES ASSUME NEW y \in Pairs, review'[y] # NoPay
               PROVE  stage'[y[1]] = "cancelled" /\ carrier[y[1]] = y[2]
    BY <1>1 DEF CarrierReviewed
  <2>1. CASE y = x
    BY <1>6, <2>1
  <2>2. CASE y # x
    BY <1>6, <1>8, <2>2 DEF PayInv, CarrierReviewed, Pairs
  <2> QED BY <2>1, <2>2
<1>10. \A i \in DOMAIN credits : credits[i].pair \in Pairs /\ credits[i].pair[1] # d
  BY <1>1, CreditsPlaced
<1>11. CreditedAtEnd(credits, review, stage, carrier)'
  <2> SUFFICES ASSUME NEW i \in DOMAIN credits
               PROVE  LET y == credits[i].pair IN
                 \/ credits[i].kind = "delivery" /\ stage'[y[1]] = "delivered"
                 \/ /\ credits[i].kind = "incentive" /\ stage'[y[1]] = "cancelled"
                    /\ review'[y].status = "approved" /\ carrier[y[1]] = y[2]
    BY <1>1 DEF CreditedAtEnd
  <2> DEFINE y == credits[i].pair
  <2>1. y \in Pairs /\ y # x /\ y[1] \in PayDeliveries /\ y[1] # d
    BY <1>10 DEF Pairs
  <2>2. stage'[y[1]] = stage[y[1]] /\ review'[y] = review[y]
    BY <1>6, <1>8, <2>1
  <2> QED BY <2>2 DEF PayInv, CreditedAtEnd
<1> QED BY <1>1, <1>7, <1>9, <1>11
        DEF PayInv, AsFrozen, CarrierAsked, PaidAsShown, CreditedOnce

\* Only a review that is pending is decided: its delivery has no credit yet.
LEMMA ReviewKeeps ==
  ASSUME PayInv, NEW d \in PayDeliveries, NEW r \in PayRiders, NEW approve \in BOOLEAN,
         ReviewCancellationPay(d, r, approve)
  PROVE  PayInv'
<1> DEFINE x == <<d, r>>
           verdict == IF approve THEN "approved" ELSE "rejected"
           row == [review[x] EXCEPT !.status = verdict]
           c == Credit("incentive", x, review[x].cents)
<1>1. x \in Pairs
  BY DEF Pairs
<1>2. /\ stage[d] = "cancelled" /\ review[x] # NoPay /\ review[x].status = "pending"
      /\ review' = [review EXCEPT ![x] = row]
      /\ \/ approve /\ credits' = Append(credits, c)
         \/ UNCHANGED credits
      /\ UNCHANGED <<rollout, offerState, offerPay, shown, jobPay, carrier, stage>>
  BY DEF ReviewCancellationPay, Reviews
<1>3. review[x] \in ReviewRows
  BY <1>1, <1>2 DEF PayInv, PayTyped
<1>4. row \in ReviewRows /\ row.status = verdict
  BY <1>3 DEF ReviewRows
<1>5. c \in CreditRows /\ c.kind = "incentive" /\ c.pair = x
  BY <1>1, <1>3 DEF Credit, CreditRows, ReviewRows
<1> HIDE DEF row, c
<1>6. PayTyped'
  <2>1. review' \in [Pairs -> ReviewRows \cup {NoPay}]
    BY <1>1, <1>2, <1>4 DEF PayInv, PayTyped
  <2>2. credits' \in Seq(CreditRows)
    <3>1. credits \in Seq(CreditRows)
      BY DEF PayInv, PayTyped
    <3>2. Append(credits, c) \in Seq(CreditRows)
      BY <1>5, <3>1
    <3> QED BY <1>2, <3>1, <3>2
  <2> QED BY <1>2, <2>1, <2>2 DEF PayInv, PayTyped
<1>7. review'[x] = row /\ \A y \in Pairs : y # x => review'[y] = review[y]
  BY <1>1, <1>2 DEF PayInv, PayTyped
<1>8. CarrierReviewed(review, stage, carrier)'
  BY <1>1, <1>2, <1>7 DEF PayInv, CarrierReviewed
<1>9. ASSUME NEW i \in DOMAIN credits
      PROVE  credits[i].pair \in Pairs /\ credits[i].pair[1] # d
  <2>1. credits[i] \in CreditRows
    BY DEF PayInv, PayTyped
  <2> DEFINE y == credits[i].pair
  <2>2. y \in Pairs
    BY <2>1 DEF CreditRows
  <2>3. CASE y[1] = d
    <3>1. review[y].status = "approved" /\ y[2] = carrier[d]
      BY <1>2, <2>3 DEF PayInv, CreditedAtEnd
    <3>2. r = carrier[d]
      BY <1>1, <1>2 DEF PayInv, CarrierReviewed
    <3>3. y = x
      <4>1. y = <<y[1], y[2]>>
        BY <2>2 DEF Pairs
      <4> QED BY <2>3, <3>1, <3>2, <4>1
    <3> QED BY <1>2, <3>1, <3>3
  <2> QED BY <2>2, <2>3
<1>10. \A i \in DOMAIN credits' :
         \/ i \in DOMAIN credits /\ credits'[i] = credits[i]
         \/ approve /\ i = Len(credits) + 1 /\ credits'[i] = c
  BY <1>2, <1>5, CreditsAppended DEF PayInv, PayTyped
<1>11. CreditedAtEnd(credits, review, stage, carrier)'
  <2> SUFFICES ASSUME NEW i \in DOMAIN credits'
               PROVE  LET y == credits'[i].pair IN
                 \/ credits'[i].kind = "delivery" /\ stage[y[1]] = "delivered"
                 \/ /\ credits'[i].kind = "incentive" /\ stage[y[1]] = "cancelled"
                    /\ review'[y].status = "approved" /\ carrier[y[1]] = y[2]
    BY <1>2 DEF CreditedAtEnd
  <2>1. CASE approve /\ credits'[i] = c
    <3>1. review'[x].status = "approved"
      BY <1>4, <1>7, <2>1
    <3>2. r = carrier[d]
      BY <1>1, <1>2 DEF PayInv, CarrierReviewed
    <3> QED BY <1>2, <1>5, <2>1, <3>1, <3>2
  <2>2. CASE i \in DOMAIN credits /\ credits'[i] = credits[i]
    <3> DEFINE y == credits[i].pair
    <3>1. y \in Pairs /\ y # x
      BY <1>9, <2>2
    <3>2. review'[y] = review[y]
      BY <1>7, <3>1
    <3> QED BY <2>2, <3>2 DEF PayInv, CreditedAtEnd
  <2> QED BY <1>10, <2>1, <2>2
<1>12. PaidAsShown'
  <2> SUFFICES ASSUME NEW i \in DOMAIN credits', credits'[i].kind = "delivery"
               PROVE  LET y == credits'[i].pair IN
                 \/ credits'[i].cents = shown[y]
                 \/ offerPay[y] # NoPay /\ jobPay[y] = NoPay /\ credits'[i].cents = SnapshotPay
    BY <1>2 DEF PaidAsShown
  <2> QED BY <1>5, <1>10 DEF PayInv, PaidAsShown
<1>13. CreditedOnce'
  BY <1>5, <1>9, <1>10 DEF PayInv, CreditedOnce
<1> QED BY <1>2, <1>6, <1>8, <1>11, <1>12, <1>13 DEF PayInv, AsFrozen, CarrierAsked

\* Nothing is offered, reviewed or credited at first.
LEMMA PayInvInit == OfferPayInit => PayInv
<1> SUFFICES ASSUME OfferPayInit PROVE PayInv
  OBVIOUS
<1>1. PayTyped
  BY DEF OfferPayInit, PayTyped, OfferStates, Stages
<1>2. DOMAIN credits = {}
  BY DEF OfferPayInit
<1>3. AsFrozen(offerState, offerPay, shown, jobPay)
  BY DEF OfferPayInit, AsFrozen
<1>4. CarrierAsked(offerState, carrier)
  BY DEF OfferPayInit, CarrierAsked
<1>5. CarrierReviewed(review, stage, carrier)
  BY DEF OfferPayInit, CarrierReviewed
<1> QED BY <1>1, <1>2, <1>3, <1>4, <1>5 DEF PayInv, CreditedAtEnd, PaidAsShown, CreditedOnce

\* Every step keeps the invariant.
LEMMA PayInvNext == PayInv /\ [OfferPayNext]_offerPayVars => PayInv'
<1> SUFFICES ASSUME PayInv, [OfferPayNext]_offerPayVars PROVE PayInv'
  OBVIOUS
<1>1. CASE ConfigureContractPay
  <2>1. /\ rollout' \in BOOLEAN
        /\ UNCHANGED <<offerState, offerPay, shown, jobPay, carrier, stage, review, credits>>
    BY <1>1 DEF ConfigureContractPay, PayInv, PayTyped
  <2> QED BY <2>1 DEF PayInv, PayTyped, AsFrozen, CarrierAsked, CarrierReviewed,
                      CreditedAtEnd, PaidAsShown, CreditedOnce
<1>2. CASE UNCHANGED offerPayVars
  BY <1>2 DEF offerPayVars, PayInv, PayTyped, AsFrozen, CarrierAsked, CarrierReviewed,
              CreditedAtEnd, PaidAsShown, CreditedOnce
<1>3. ASSUME NEW d \in PayDeliveries,
             WithdrawsOffer(d) \/ PicksUp(d) \/ PaysDelivery(d) \/ CancelsDelivery(d)
      PROVE  PayInv'
  BY <1>3, WithdrawsKeeps, PicksUpKeeps, PaysKeeps, CancelsKeeps
<1>4. ASSUME NEW d \in PayDeliveries, NEW r \in PayRiders,
             \/ \E p \in Offered \cup {NoPay} : OpensOffer(d, r, p)
             \/ ClosesOffer(d, r)
             \/ AcceptsOffer(d, r)
             \/ \E approve \in BOOLEAN : ReviewCancellationPay(d, r, approve)
      PROVE  PayInv'
  BY <1>4, OpensKeeps, OfferClosesKeeps, AcceptsKeeps, ReviewKeeps
<1> QED BY <1>1, <1>2, <1>3, <1>4 DEF OfferPayNext

\* What an offer froze, who may be reviewed and what was credited for which end
\* fit together in every state.
THEOREM PayInvariant == OfferPaySpec => []PayInv
BY PayInvInit, PayInvNext, PTL DEF OfferPaySpec

\* The states of the pay are what the code's tables allow.
LEMMA PayInTypes == PayInv => OfferPayTypeOK
BY DEF PayInv, PayTyped, OfferPayTypeOK, ReviewRows, OfferStates, Stages, AsFrozen

(* A rider is paid for a delivery what the offer said, whatever becomes of *)
(* the contract, of the switch and of earlier offers of the same delivery. *)
THEOREM PayKeepsItsWord == OfferPaySpec => []PaidAsShown
<1>1. PayInv => PaidAsShown
  BY DEF PayInv
<1> QED BY <1>1, PayInvariant, PTL

(* One credit for a delivery: for delivering it or for its cancellation,   *)
(* to one rider, however many carried it and however often it is reviewed. *)
THEOREM NoCreditTwice == OfferPaySpec => []CreditedOnce
<1>1. PayInv => CreditedOnce
  BY DEF PayInv
<1> QED BY <1>1, PayInvariant, PTL
=============================================================================
