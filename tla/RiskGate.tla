------------------------------ MODULE RiskGate ------------------------------
(***************************************************************************)
(* The pre-trade risk gate of src/domain/risk/pretrade.py.                 *)
(*                                                                         *)
(* The gate applies its rules one after the other and reports the first    *)
(* that rejects; here it allows an order when no rule rejects it.  A bar   *)
(* is the market an order meets: its closing price, its age in days and    *)
(* whether the venue takes orders at that price (tradable: not suspended,  *)
(* continuous auction, price within the daily limits).                     *)
(***************************************************************************)
EXTENDS Sizing

CONSTANTS
    MinNotional,        \* min_order_notional_cny
    MaxSingle,          \* max_single_symbol_notional_cny
    MaxTotal            \* max_total_open_notional_cny

ASSUME LimitAssumption ==
    MinNotional \in Nat \ {0} /\ MaxSingle \in Nat \ {0} /\ MaxTotal \in Nat \ {0}

\* MARKET_DATA_STALE, SECURITY_SUSPENDED, TRADING_SESSION_UNSUPPORTED and
\* PRICE_LIMIT_EXCEEDED.  A bar of an earlier day is stale.
MarketAllows(bar) == bar.age = 0 /\ bar.tradable

\* _is_true_reduction
TrueReduction(p, plan) == plan.side = "sell" /\ p.qty > 0 /\ plan.qty <= p.sellable

\* _check_control_state
ControlAllows(p, plan, reduceOnly) == reduceOnly => TrueReduction(p, plan)

\* _odd_lot_context
OddLotContext(p, target) == target < p.qty /\ 0 < p.sellable /\ p.sellable < LotSize

\* _check_quantity_rules
QuantityAllows(p, plan, target) ==
    /\ plan.qty > 0
    /\ plan.qty % QtyStep = 0
    /\ plan.side = "buy" => plan.qty >= MinQty
    /\ plan.side = "sell" =>
        /\ plan.qty <= p.sellable
        /\ IF OddLotContext(p, target) THEN plan.odd ELSE plan.qty >= MinQty

\* Mutant: the limits are checked against the position before the order.
QtyBefore(p, plan) == p.qty
\* The position the order would leave.
ResultingQty(p, plan) ==
    IF plan.side = "buy" THEN p.qty + plan.qty
    ELSE IF plan.qty < p.qty THEN p.qty - plan.qty ELSE 0

\* _check_notional_limits; others is what the other open positions are worth
\* at the price they were last filled at.
NotionalAllows(p, plan, price, others) ==
    /\ ResultingQty(p, plan) * price <= MaxSingle
    /\ ResultingQty(p, plan) * price + others <= MaxTotal

\* PreTradeRiskGate.evaluate, for an actionable plan
GateAllows(p, plan, target, bar, reduceOnly, others) ==
    /\ MarketAllows(bar)
    /\ ControlAllows(p, plan, reduceOnly)
    /\ QuantityAllows(p, plan, target)
    /\ plan.qty * bar.price >= MinNotional
    /\ NotionalAllows(p, plan, bar.price, others)
=============================================================================
