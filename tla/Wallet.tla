------------------------------- MODULE Wallet -------------------------------
(***************************************************************************)
(* The riders' wallet ledger: rider_wallet_balances holds one balance per  *)
(* rider, rider_wallet_transactions the entries that made it, and          *)
(* rider_settlements what administrators paid out and collected.  Several  *)
(* transactions post at the same time; each locks the balance row with     *)
(* INSERT ... ON CONFLICT DO UPDATE, writes its entries and commits or is  *)
(* rolled back.                                                            *)
(*                                                                         *)
(* Amounts are float64 and may have a fraction of a coin; the columns are  *)
(* NUMERIC(12,2), whole numbers of coins.  A posted amount is a number of  *)
(* quarters of a coin: what is stored depends on no more of a fraction     *)
(* than whether it is below, at or above a half.                           *)
(***************************************************************************)
EXTENDS Integers, Sequences

CONSTANTS
  WalletRiders,  \* the riders who have a wallet
  Postings,      \* database transactions that may be open at the same time
  NoPosting,     \* no transaction: a null value
  Amounts,       \* the amounts administrators type and deliveries pay, in quarters
  MaxEntries     \* no transaction starts on a ledger of this length

ASSUME WalletAssumption ==
  /\ NoPosting \notin Postings
  /\ Amounts \subseteq Nat
  /\ MaxEntries \in Nat

VARIABLES
  balance,      \* committed rider_wallet_balances.balance (0: no row yet)
  ledger,       \* committed entries of each rider, in the order of their ids
  settlements,  \* committed rows of rider_settlements
  walletLock,   \* the transaction that holds the balance row's lock
  posting       \* what each open transaction is doing

walletVars == <<balance, ledger, settlements, walletLock, posting>>

(* One entry: the balance before it and after it are stored with it; what  *)
(* was posted, in quarters, is not stored but kept here.                   *)
Entries == [due : Int, amount : Int, before : Int, after : Int]
SettlementRows == [previous : Int, net : Int, closing : Int, entry : Nat]
PostingKinds == {"delivery", "settlement", "adjustment"}
OpenPostings == [rider : WalletRiders, kind : PostingKinds, dues : Seq(Int),
                 locked : BOOLEAN, previous : Int, made : Seq(Entries)]

WalletTypeOK ==
  /\ balance \in [WalletRiders -> Int]
  /\ ledger \in [WalletRiders -> Seq(Entries)]
  /\ settlements \in [WalletRiders -> Seq(SettlementRows)]
  /\ walletLock \in [WalletRiders -> Postings \cup {NoPosting}]
  /\ posting \in [Postings -> OpenPostings \cup {NoPosting}]

WalletInit ==
  /\ balance = [r \in WalletRiders |-> 0]
  /\ ledger = [r \in WalletRiders |-> <<>>]
  /\ settlements = [r \in WalletRiders |-> <<>>]
  /\ walletLock = [r \in WalletRiders |-> NoPosting]
  /\ posting = [t \in Postings |-> NoPosting]

-----------------------------------------------------------------------------
(* What the callers post. *)

(* A finished delivery: the payout, and the cash the rider collected. *)
DeliveryDues == {<<pay>> : pay \in Amounts}
                  \cup {<<pay, -cash>> : pay \in Amounts, cash \in Amounts \ {0}}

(* A settlement posts its net effect, with a correction of either sign; one *)
(* of nothing is refused.                                                   *)
SettlementDues ==
  {<<(s.got - s.paid) + s.fix>> :
     s \in [got : Amounts, paid : Amounts, fix : Amounts \cup {-a : a \in Amounts}]
             \ {[got |-> 0, paid |-> 0, fix |-> 0]}}

(* Administrators type a magnitude; the type of the entry gives its sign. *)
AdjustmentDues ==
  {<<a>> : a \in Amounts \ {0}} \cup {<<-a>> : a \in Amounts \ {0}}

Dues(kind) == CASE kind = "delivery" -> DeliveryDues
                [] kind = "settlement" -> SettlementDues
                [] kind = "adjustment" -> AdjustmentDues

-----------------------------------------------------------------------------
StartsPosting(t, r, kind, dues) ==
  /\ posting[t] = NoPosting
  /\ Len(ledger[r]) < MaxEntries
  /\ posting' = [posting EXCEPT ![t] =
       [rider |-> r, kind |-> kind, dues |-> dues,
        locked |-> FALSE, previous |-> 0, made |-> <<>>]]
  /\ UNCHANGED <<balance, ledger, settlements, walletLock>>

(* The upsert waits for the row's lock and returns the balance it finds. *)
Locked(t) == /\ posting' = [posting EXCEPT ![t].locked = TRUE,
                                           ![t].previous = balance[posting[t].rider]]
             /\ UNCHANGED <<balance, ledger, settlements>>

LocksUnlessSettling(t) ==
  /\ posting[t] # NoPosting
  /\ ~posting[t].locked
  /\ \/ posting[t].kind = "settlement" /\ UNCHANGED walletLock
     \/ /\ walletLock[posting[t].rider] = NoPosting
        /\ walletLock' = [walletLock EXCEPT ![posting[t].rider] = t]
  /\ Locked(t)

LocksBalance(t) ==
  /\ posting[t] # NoPosting
  /\ ~posting[t].locked
  /\ walletLock[posting[t].rider] = NoPosting
  /\ walletLock' = [walletLock EXCEPT ![posting[t].rider] = t]
  /\ Locked(t)

(* The balance the transaction sees: its own entries count. *)
SeenCommitted(p) == balance[p.rider]
Seen(p) == IF p.made = <<>> THEN balance[p.rider] ELSE p.made[Len(p.made)].after

(* The whole numbers of coins an amount is rounded to: at a half, where the *)
(* last bit of the float64 decides, either neighbour.                       *)
Nearest(x) == {(x + 2) \div 4, -((2 - x) \div 4)}

(* The amount is rounded when it is stored.  The balance after it, which is *)
(* before + amount in float64, is rounded by itself; the balance before it  *)
(* was read from the column, so that is before and a rounding of the        *)
(* amount.  Whoever posts next reads what is stored.                        *)
PostsEntry(t) ==
  LET p == posting[t] IN
  /\ p # NoPosting
  /\ p.locked
  /\ p.dues # <<>>
  /\ \E stored, moved \in Nearest(Head(p.dues)) :
       posting' = [posting EXCEPT
         ![t].dues = Tail(p.dues),
         ![t].made = Append(p.made, [due |-> Head(p.dues), amount |-> stored,
                                     before |-> Seen(p), after |-> Seen(p) + moved])]
  /\ UNCHANGED <<balance, ledger, settlements, walletLock>>

(* The settlement row repeats the figures of its entry. *)
SettlementRow(p, r) ==
  [previous |-> p.previous, net |-> p.made[1].amount,
   closing |-> p.made[1].after, entry |-> Len(ledger[r]) + 1]

CommitsPosting(t) ==
  LET p == posting[t]
      r == posting[t].rider IN
  /\ p # NoPosting
  /\ p.locked
  /\ p.dues = <<>>
  /\ balance' = [balance EXCEPT ![r] = Seen(p)]
  /\ ledger' = [ledger EXCEPT ![r] = @ \o p.made]
  /\ settlements' = IF p.kind = "settlement"
                    THEN [settlements EXCEPT ![r] = Append(@, SettlementRow(p, r))]
                    ELSE settlements
  /\ walletLock' = [walletLock EXCEPT ![r] = NoPosting]
  /\ posting' = [posting EXCEPT ![t] = NoPosting]

(* An error, a cancelled request or a crash: nothing of it remains. *)
RollsPostingBack(t) ==
  /\ posting[t] # NoPosting
  /\ walletLock' = [r \in WalletRiders |->
                      IF walletLock[r] = t THEN NoPosting ELSE walletLock[r]]
  /\ posting' = [posting EXCEPT ![t] = NoPosting]
  /\ UNCHANGED <<balance, ledger, settlements>>

WalletNext ==
  \E t \in Postings :
    \/ \E r \in WalletRiders, kind \in PostingKinds :
         \E dues \in Dues(kind) : StartsPosting(t, r, kind, dues)
    \/ LocksBalance(t)
    \/ PostsEntry(t)
    \/ CommitsPosting(t)
    \/ RollsPostingBack(t)

WalletSpec == WalletInit /\ [][WalletNext]_walletVars

-----------------------------------------------------------------------------
(* A number of coins is as near to a number of quarters as can be. *)
WithinHalf(coins, quarters) == 4 * coins - quarters \in -2 .. 2

(* The amount an entry states, and the change it makes. *)
Truthful(e) == WithinHalf(e.amount, e.due) /\ WithinHalf(e.after - e.before, e.due)

(* Every entry starts from the balance the entry before it left, and the   *)
(* balance of the rider is what the last one left: no posting is lost or   *)
(* counted twice, whatever transactions overlap or fail.  The amount it    *)
(* states and the change it makes are within half a coin of what was       *)
(* posted, so equal if that was whole; of a fraction they may differ by a  *)
(* coin, since each is rounded by itself.                                  *)
LedgerChains ==
  \A r \in WalletRiders :
    /\ \A i \in DOMAIN ledger[r] :
         /\ Truthful(ledger[r][i])
         /\ ledger[r][i].before = IF i = 1 THEN 0 ELSE ledger[r][i - 1].after
    /\ balance[r] = IF ledger[r] = <<>> THEN 0 ELSE ledger[r][Len(ledger[r])].after

SignedOff(s, e) == e.amount = s.net /\ e.before = s.previous /\ e.after = s.closing

(* The figures an administrator signed off stay those of the entry in the  *)
(* ledger: previous balance, net effect and closing balance.               *)
SettlementsClose ==
  \A r \in WalletRiders :
    \A i \in DOMAIN settlements[r] :
      LET s == settlements[r][i] IN
      /\ s.entry \in DOMAIN ledger[r]
      /\ SignedOff(s, ledger[r][s.entry])
=============================================================================
