---------------------------- MODULE MarketState ----------------------------
(***************************************************************************)
(* What a bar says of its market: src/domain/market/state.py.              *)
(*                                                                         *)
(* Prices are whole ticks, percentages are basis points, times of day are  *)
(* minutes since midnight in Shanghai.                                     *)
(***************************************************************************)
EXTENDS Integers

CONSTANT LimitBps       \* price_limit_pct of the symbol rule

ASSUME PriceLimitAssumption == LimitBps \in 1 .. 9999

\* quantize(price_tick, ROUND_HALF_UP)
HalfUp(n, d) == (2 * n + d) \div (2 * d)

\* compute_price_limits
UpperLimit(prev) == HalfUp(prev * (10000 + LimitBps), 10000)
LowerLimit(prev) == HalfUp(prev * (10000 - LimitBps), 10000)

\* MarketStateSnapshot: the type of its prices, validate_price_limits
ValidPrev(prev) ==
    /\ LowerLimit(prev) > 0
    /\ UpperLimit(prev) > LowerLimit(prev)
    /\ LowerLimit(prev) <= prev /\ prev <= UpperLimit(prev)

\* derive_a_share_trading_phase is CONTINUOUS_AUCTION.
Continuous(minute) ==
    \/ 9 * 60 + 30 <= minute /\ minute < 11 * 60 + 30
    \/ 13 * 60 <= minute /\ minute < 15 * 60
=============================================================================
