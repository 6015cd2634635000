------------------------------- MODULE Sizing -------------------------------
(***************************************************************************)
(* From a target position to an order quantity:                            *)
(* build_signal_order_intent_plan of src/domain/execution/oms.py.          *)
(*                                                                         *)
(* Quantities are whole shares.  A plan that is not actionable (the code   *)
(* keeps it with its skip_reason) is a plan of quantity 0.                 *)
(***************************************************************************)
EXTENDS Integers, FiniteSetsExt

CONSTANTS
    QtyStep,            \* qty_step of the symbol rule
    MinQty,             \* min_qty
    LotSize,            \* lot_size
    AllowOddLotSell     \* allow_odd_lot_sell

\* AshareSymbolRule.validate_contract
ASSUME RuleAssumption ==
    /\ QtyStep \in Nat \ {0} /\ MinQty \in Nat \ {0} /\ LotSize \in Nat \ {0}
    /\ MinQty >= LotSize
    /\ MinQty % QtyStep = 0 /\ LotSize % QtyStep = 0
    /\ AllowOddLotSell \in BOOLEAN

\* Mutant: the quantity is rounded up to the step.
CeilToStep(n) == ((n + QtyStep - 1) \div QtyStep) * QtyStep
\* _floor_to_step
FloorToStep(n) == (n \div QtyStep) * QtyStep

\* The whole steps of n shares, if they make an order.
WholeSteps(n) == IF FloorToStep(n) < MinQty THEN 0 ELSE FloorToStep(n)

\* Mutant: a reduction sells all that may be sold.
SellsAll(qty, sellable, target) == sellable
\* min(abs(raw_delta_qty), current_sellable_qty)
DesiredSell(qty, sellable, target) ==
    IF qty - target < sellable THEN qty - target ELSE sellable

\* A remainder below one lot, sold at once and as a whole.
OddLotSell(qty, sellable, target) ==
    /\ 0 < sellable /\ sellable < LotSize
    /\ AllowOddLotSell
    /\ DesiredSell(qty, sellable, target) >= sellable

Plan(qty, sellable, target) ==
    IF target > qty
    THEN [side |-> "buy", qty |-> WholeSteps(target - qty), odd |-> FALSE]
    ELSE [side |-> "sell",
          qty |-> IF OddLotSell(qty, sellable, target) THEN sellable
                  ELSE WholeSteps(DesiredSell(qty, sellable, target)),
          odd |-> OddLotSell(qty, sellable, target)]

-----------------------------------------------------------------------------
(* The reference: what may be traded towards the target at all              *)

Tradable(qty, sellable, target) ==
    IF target > qty
    THEN {n \in 1 .. target - qty : n % QtyStep = 0 /\ n >= MinQty}
    ELSE {n \in 1 .. qty - target :
            /\ n <= sellable
            /\ \/ n % QtyStep = 0 /\ n >= MinQty
               \/ AllowOddLotSell /\ n = sellable /\ sellable < LotSize}

\* A long position in whole steps.
OnGrid(qty, sellable) ==
    /\ qty \in Nat /\ sellable \in Nat /\ sellable <= qty
    /\ qty % QtyStep = 0 /\ sellable % QtyStep = 0

\* The plan trades as much of it as it can.
LargestTradable(qty, sellable, target) ==
    LET all == Tradable(qty, sellable, target)
    IN  Plan(qty, sellable, target).qty = IF all = {} THEN 0 ELSE Max(all)
=============================================================================
