----------------------------- MODULE Contracts ------------------------------
(***************************************************************************)
(* The earning contracts of riders and the salaries accrued under them.    *)
(* Administrators read a contract, edit it and save it against the version *)
(* they read; a salary transaction locks the contract row, looks for an    *)
(* accrual that overlaps its period, inserts its own and credits the       *)
(* wallet.  Dates are counted in weeks.                                    *)
(***************************************************************************)
EXTENDS Policy, Sequences

CONSTANTS
  ContractRiders,  \* riders with a work profile
  Admins,          \* administrators, each with one page and one request
  NoPage,          \* a page or a request that is not open
  Typed,           \* the contracts administrators type, valid or not
  Starts,          \* the period starts they choose
  Today,           \* the week it is
  MonthWeeks,      \* weeks in a month
  MaxVersions,     \* bound on the saves of one contract
  MaxAccruals      \* bound on the accruals of one rider

ASSUME ContractsAssumption ==
  NoPage \notin Admins /\ Starts \subseteq Int /\ {MonthWeeks, MaxVersions} \subseteq Nat

VARIABLES
  contract,      \* rider_earning_contracts: the policy in force, or none
  audit,         \* rider_earning_contract_audit: the version each save
                 \* was made against
  page,          \* the version each administrator's page was loaded with
  contractLock,  \* the salary transaction that holds the contract row
  accrual,       \* each administrator's open salary transaction
  accruals       \* committed rows of rider_salary_accruals

contractVars == <<contract, audit, page, contractLock, accrual, accruals>>

NoContract == [version |-> 0]

Saved(p, v) == [version |-> v, policy |-> p]
Periods == {<<s, s + w>> : s \in Starts, w \in {1, MonthWeeks}}

ContractsTypeOK ==
  /\ \A r \in ContractRiders :
       \/ contract[r] = NoContract
       \/ /\ contract[r].policy \in Typed /\ Valid(contract[r].policy)
          /\ contract[r].version \in 1 .. MaxVersions
  /\ \A r \in ContractRiders : \A i \in DOMAIN audit[r] :
       audit[r][i] \in 0 .. MaxVersions
  /\ page \in [Admins -> [rider : ContractRiders, version : 0 .. MaxVersions] \cup {NoPage}]
  /\ contractLock \in [ContractRiders -> Admins \cup {NoPage}]
  /\ accrual \in [Admins -> [rider : ContractRiders, period : Periods] \cup {NoPage}]
  /\ \A r \in ContractRiders : \A i \in DOMAIN accruals[r] : accruals[r][i] \in Periods

ContractsInit ==
  /\ contract = [r \in ContractRiders |-> NoContract]
  /\ audit = [r \in ContractRiders |-> <<>>]
  /\ page = [a \in Admins |-> NoPage]
  /\ contractLock = [r \in ContractRiders |-> NoPage]
  /\ accrual = [a \in Admins |-> NoPage]
  /\ accruals = [r \in ContractRiders |-> <<>>]

-----------------------------------------------------------------------------
GetEarningContract(a, r) ==
  /\ page' = [page EXCEPT ![a] = [rider |-> r, version |-> contract[r].version]]
  /\ UNCHANGED <<contract, audit, contractLock, accrual, accruals>>

(* The statement waits for the row; the trigger numbers and records it. *)
Saves(a, p) ==
  LET r == page[a].rider
      v == contract[r].version + 1 IN
  /\ contractLock[r] = NoPage
  /\ v <= MaxVersions
  /\ contract' = [contract EXCEPT ![r] = Saved(p, v)]
  /\ audit' = [audit EXCEPT ![r] = Append(@, page[a].version)]
  /\ page' = [page EXCEPT ![a].version = v]
  /\ UNCHANGED <<contractLock, accrual, accruals>>

SaveWhateverVersion(a, p) ==
  /\ page[a] # NoPage
  /\ Valid(p)
  /\ contract[page[a].rider].version = 0 <=> page[a].version = 0
  /\ Saves(a, p)

(* Version 0 inserts a first contract, another one must still be the row's; *)
(* otherwise the administrator is told to refresh, and nothing changes.     *)
SaveEarningContract(a, p) ==
  /\ page[a] # NoPage
  /\ Valid(p)
  /\ contract[page[a].rider].version = page[a].version
  /\ Saves(a, p)

-----------------------------------------------------------------------------
PeriodEnd(p, start) == start + (IF p.period = "weekly" THEN 1 ELSE MonthWeeks)

Overlap(x, y) == x[1] < y[2] /\ x[2] > y[1]

BeginsAccrual(a, r, start) ==
  /\ accrual[a] = NoPage
  /\ contract[r] # NoContract
  /\ contract[r].policy.enabled /\ contract[r].policy.mode = "salary"
  /\ PeriodEnd(contract[r].policy, start) <= Today
  /\ Len(accruals[r]) < MaxAccruals
  /\ \A i \in DOMAIN accruals[r] :
       ~Overlap(<<start, PeriodEnd(contract[r].policy, start)>>, accruals[r][i])
  /\ accrual' = [accrual EXCEPT ![a] =
       [rider |-> r, period |-> <<start, PeriodEnd(contract[r].policy, start)>>]]
  /\ UNCHANGED <<contract, audit, page, accruals>>

AccrueUnlocked(a, r, start) ==
  /\ BeginsAccrual(a, r, start)
  /\ UNCHANGED contractLock

(* SELECT ... FOR UPDATE of the contract, the checks and the look for an   *)
(* overlapping accrual.                                                    *)
AccrueSalary(a, r, start) ==
  /\ contractLock[r] = NoPage
  /\ contractLock' = [contractLock EXCEPT ![r] = a]
  /\ BeginsAccrual(a, r, start)

EndsAccrual(a) ==
  /\ accrual' = [accrual EXCEPT ![a] = NoPage]
  /\ contractLock' = [r \in ContractRiders |->
                        IF contractLock[r] = a THEN NoPage ELSE contractLock[r]]
  /\ UNCHANGED <<contract, audit, page>>

(* UNIQUE (rider_id, period_start) refuses a second accrual of one start. *)
CommitsAccrual(a) ==
  /\ accrual[a] # NoPage
  /\ LET r == accrual[a].rider IN
       /\ \A i \in DOMAIN accruals[r] : accruals[r][i][1] # accrual[a].period[1]
       /\ accruals' = [accruals EXCEPT ![r] = Append(@, accrual[a].period)]
  /\ EndsAccrual(a)

AbandonsAccrual(a) == accrual[a] # NoPage /\ EndsAccrual(a) /\ UNCHANGED accruals

ContractsNext ==
  \E a \in Admins :
    \/ \E r \in ContractRiders : GetEarningContract(a, r)
    \/ \E p \in Typed : SaveEarningContract(a, p)
    \/ \E r \in ContractRiders, start \in Starts : AccrueSalary(a, r, start)
    \/ CommitsAccrual(a)
    \/ AbandonsAccrual(a)

ContractsSpec == ContractsInit /\ [][ContractsNext]_contractVars

-----------------------------------------------------------------------------
(* No administrator overwrites a contract they have not seen: each version *)
(* was saved by somebody whose page showed the one before it.              *)
NoSaveLost ==
  \A r \in ContractRiders :
    /\ contract[r].version = Len(audit[r])
    /\ \A i \in DOMAIN audit[r] : audit[r][i] = i - 1

(* No day is paid twice: the periods accrued for a rider do not overlap,   *)
(* also when two administrators accrue at once or the contract went from   *)
(* weekly to monthly in between.                                           *)
SalariesDisjoint ==
  \A r \in ContractRiders : \A i, j \in DOMAIN accruals[r] :
    i # j => ~Overlap(accruals[r][i], accruals[r][j])
=============================================================================
