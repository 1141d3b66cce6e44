------------------------------- MODULE Policy -------------------------------
(***************************************************************************)
(* The arithmetic of rider pay: what a contract must satisfy to be saved,  *)
(* what it quotes for an order and what it grants for a cancelled one.     *)
(* Amounts are cents, distances metres; a rate in permille is rounded half *)
(* up, once.                                                               *)
(***************************************************************************)
EXTENDS Integers

MaxCents == 100000000

Modes == {"salary", "per_delivery"}
CancelStages == {"rider_assigned", "rider_arrived_restaurant", "picked_up", "on_the_way"}

(* A cancellation rule per stage; a stage without one is worth nothing. *)
Cancellations == [fixed : Int, permille : Int]
NoRule == [fixed |-> 0, permille |-> 0]

Permille(x, rate) == (x * rate + 500) \div 1000

(* Policy.Validate *)
Valid(p) ==
  /\ p.mode \in Modes
  /\ p.period \in {"weekly", "monthly"}
  /\ {p.base, p.perKm, p.salary, p.incentive} \subseteq 0 .. MaxCents
  /\ p.permille \in 0 .. 1000
  /\ p.incentive = 0 \/ p.permille = 0
  /\ p.mode = "salary" => p.base = 0 /\ p.perKm = 0
  /\ p.mode = "per_delivery" => p.salary = 0 /\ p.incentive = 0 /\ p.permille = 0
  /\ DOMAIN p.cancellation \subseteq CancelStages
  /\ \A s \in DOMAIN p.cancellation :
       /\ p.cancellation[s].fixed \in 0 .. MaxCents
       /\ p.cancellation[s].permille \in 0 .. 1000
       /\ p.mode = "salary" => p.cancellation[s].fixed = 0
       /\ p.mode = "per_delivery" => p.cancellation[s].permille = 0

(* Policy.Quote: what is earned on top of a salary, and the whole pay. *)
QuotedIncentive(p, items) ==
  IF p.mode = "salary" THEN p.incentive + Permille(items, p.permille) ELSE 0

QuotedPay(p, items, metres) ==
  IF p.mode = "salary" THEN QuotedIncentive(p, items)
                       ELSE p.base + Permille(metres, p.perKm)

(* The amount proposed when a delivery is cancelled at a stage, from the   *)
(* terms frozen when the rider was offered it.                             *)
RuleAt(p, stage) == IF stage \in DOMAIN p.cancellation
                    THEN p.cancellation[stage] ELSE NoRule

CancellationPay(p, stage, incentive) ==
  IF p.mode = "salary" THEN Permille(incentive, RuleAt(p, stage).permille)
                       ELSE RuleAt(p, stage).fixed
=============================================================================
