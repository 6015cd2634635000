----------------------------- MODULE Performance -----------------------------
(***************************************************************************)
(* What a replay reports: the equity curve and the summary of              *)
(* src/services/backtest/service.py, and the profits that the ledger       *)
(* (src/domain/portfolio/ledger.py) books with every fill.                 *)
(*                                                                         *)
(* A replay is given by its bars; each carries the fill of its order, if   *)
(* there is one, and the time at which that was made.  Its figures are     *)
(* ratios, which are not rounded: rounding keeps their order.  The Sharpe  *)
(* ratio is left out.                                                      *)
(***************************************************************************)
EXTENDS Backtest, Ratios

CONSTANT Replay         \* bound: the replays whose figures are computed

\* An order that the venue filled, and what is read here of a bar: it has at
\* most the fill of its own order.
FilledOrder == [symbol : Symbol, side : {"buy", "sell"}, qty : Nat \ {0}, price : Nat,
                day : Nat, time : Nat]
ReplayBar ==
    {bar \in [symbol : Symbol, day : Nat, minute : Nat, close : Nat, state : BOOLEAN,
              fill : Seq(FilledOrder)] :
        bar.fill # <<>> => Len(bar.fill) = 1 /\ bar.fill[1].symbol = bar.symbol}

\* run refuses a replay without bars.
ASSUME ReplayAssumption ==
    /\ IsFiniteSet(Symbol)
    /\ Replay \subseteq Seq(ReplayBar) \ {<<>>}

-----------------------------------------------------------------------------
(* The profits of the ledger                                                *)

\* total_fee of a fill: what its cash flow adds to, or takes from, the trade.
TotalFee(fill) ==
    IF fill.side = "buy" THEN -CashFlow(fill) - fill.qty * fill.price
    ELSE fill.qty * fill.price - CashFlow(fill)

SaleOutcome(p, fill) ==
    <<(fill.price * p.avg[2] - p.avg[1]) * fill.qty - TotalFee(fill) * p.avg[2], p.avg[2]>>

\* Mutant: the fees of a purchase are no loss.
FreePurchase(p, fill) == IF fill.side = "buy" THEN Zero ELSE SaleOutcome(p, fill)
\* realized_pnl_delta of a fill, given the released position
RealizedDelta(p, fill) ==
    IF fill.side = "buy" THEN <<-TotalFee(fill), 1>> ELSE SaleOutcome(p, fill)

\* unrealized_pnl, of a position marked after its last fill
Unrealized(p) == <<p.qty * (p.mark * p.avg[2] - p.avg[1]), p.avg[2]>>

-----------------------------------------------------------------------------
(* The equity curve                                                         *)

\* The account that the run opens with.
Opening ==
    [position |-> position,
     realized |-> [s \in Symbol |-> Zero],
     cash |-> cash,
     peak |-> InitialCash,
     fills |-> <<>>,
     outcomes |-> <<>>,          \* realized_trade_outcomes
     curve |-> <<>>,             \* equity_curve
     raised |-> FALSE]

\* Mutant: the peak is that of the bars alone.
PointPeak(account, equity) ==
    IF account.curve = <<>> THEN equity ELSE Higher(account.peak, equity)
Peak(account, equity) == Higher(account.peak, equity)

\* _build_equity_point
WithPoint(account, bar) ==
    LET market == SumFunction([s \in Symbol |-> account.position[s].qty * account.position[s].mark])
        equity == account.cash + market
        peak == Peak(account, equity)
        point == [time |-> Time(bar), cash |-> account.cash, equity |-> equity,
                  realized |-> SumOf(account.realized),
                  unrealized |-> SumOf([s \in Symbol |-> Unrealized(account.position[s])]),
                  drawdown |-> <<peak - equity, peak>>]
    IN  [account EXCEPT !.peak = peak, !.curve = Append(@, point)]

\* A fill is applied, and a sale is a trade with an outcome.
WithFill(account, fill) ==
    LET s == fill.symbol
        delta == RealizedDelta(Release(account.position[s], fill.day, fill.day), fill)
    IN  [account EXCEPT !.position[s] = Applied(@, fill),
                        !.realized[s] = Plus(@, delta),
                        !.cash = CashAfter(@, fill),
                        !.fills = Append(@, fill),
                        !.outcomes = IF fill.side = "sell" THEN Append(@, delta) ELSE @]

\* One bar of the loop of run: released and marked, its fill if the ledger
\* takes it, marked again, and an equity point.
WithBar(account, bar) ==
    LET s == bar.symbol
        shown == [account EXCEPT !.position[s] = Marked(Opened(@, bar), bar)]
        fill == bar.fill[1]
        filled == WithFill(shown, fill)
    IN  CASE bar.fill = <<>> -> WithPoint(shown, bar)
          [] bar.fill # <<>> /\ ~Accepts(shown.position[s], shown.cash, fill) ->
                [account EXCEPT !.raised = TRUE]
          [] OTHER -> WithPoint([filled EXCEPT !.position[s] = Marked(@, bar)], bar)

AfterBar(account, bar) == IF account.raised THEN account ELSE WithBar(account, bar)
Account(bars) == FoldLeft(AfterBar, Opening, bars)

-----------------------------------------------------------------------------
(* How long shares were held                                                *)

\* The equity point that a fill is counted at: the first of its very time, or
\* else the last one before it; 0, if there is none.
BarIndex(curve, time) ==
    LET exact == {i \in DOMAIN curve : curve[i].time = time}
        before == {i \in DOMAIN curve : curve[i].time < time}
    IN  IF exact # {} THEN CHOOSE i \in exact : \A j \in exact : i <= j ELSE Cardinality(before)

Lesser(a, b) == IF a < b THEN a ELSE b

\* One lot is used up, or keeps in its place what is not sold of it.
MatchLot(state, lot, at) ==
    LET taken == Lesser(lot.qty, state.left)
    IN  [left |-> state.left - taken,
         held |-> state.held + taken * Higher(at - lot.at, 0),
         lots |-> IF taken = lot.qty THEN state.lots
                  ELSE Append(state.lots, [lot EXCEPT !.qty = @ - taken])]

\* Mutant: the newest lot is sold first.
SoldNewestFirst(lots, qty, at) ==
    FoldLeft(LAMBDA state, lot : MatchLot(state, lot, at), [left |-> qty, held |-> 0, lots |-> <<>>],
             Reverse(lots))
\* A sale takes the oldest lots.
SoldFromLots(lots, qty, at) ==
    FoldLeft(LAMBDA state, lot : MatchLot(state, lot, at), [left |-> qty, held |-> 0, lots |-> <<>>],
             lots)

\* A purchase is a lot of its own; of a sale counts what finds shares; a fill
\* before all points is skipped.
CountFill(curve, state, fill) ==
    LET s == fill.symbol
        at == BarIndex(curve, fill.time)
        sold == SoldFromLots(state.lots[s], fill.qty, at)
    IN  CASE at = 0 -> state
          [] at # 0 /\ fill.side = "buy" ->
                [state EXCEPT !.lots[s] = Append(@, [qty |-> fill.qty, at |-> at])]
          [] OTHER -> [lots |-> [state.lots EXCEPT ![s] = sold.lots],
                       held |-> state.held + sold.held,
                       closed |-> state.closed + fill.qty - sold.left]

\* _compute_average_holding_bars, as a ratio <<bars, shares>>; no shares: None
NothingHeld == [lots |-> [s \in Symbol |-> <<>>], held |-> 0, closed |-> 0]
Holdings(fills, curve) ==
    LET counted == FoldLeft(LAMBDA state, fill : CountFill(curve, state, fill), NothingHeld, fills)
    IN  <<counted.held, counted.closed>>

-----------------------------------------------------------------------------
(* The summary                                                              *)

\* The trades with a profit, and those with a loss, as places among the outcomes.
Gains(outcomes) == {i \in DOMAIN outcomes : outcomes[i][1] > 0}
Losses(outcomes) == {i \in DOMAIN outcomes : outcomes[i][1] < 0}
SumOfThe(outcomes, places) == SumOf([i \in places |-> outcomes[i]])

Worse(a, b) == IF a[1] * b[2] > b[1] * a[2] THEN a ELSE b
Worst(curve) == FoldLeft(LAMBDA worst, point : Worse(point.drawdown, worst), Zero, curve)

\* _build_performance_summary: net_pnl, the figures of the trades, of which the
\* averages and the profit factor are quotients, and the largest drawdown.
Summary(account) ==
    [net |-> account.curve[Len(account.curve)].equity - InitialCash,
     gained |-> SumOfThe(account.outcomes, Gains(account.outcomes)),
     lost |-> SumOfThe(account.outcomes, Losses(account.outcomes)),
     wins |-> Cardinality(Gains(account.outcomes)),
     losses |-> Cardinality(Losses(account.outcomes)),
     drawdown |-> Worst(account.curve),
     turnover |-> FoldLeft(LAMBDA sum, fill : sum + fill.qty * fill.price, 0, account.fills),
     holding |-> Holdings(account.fills, account.curve)]

-----------------------------------------------------------------------------
(* Properties *)

\* The replays that a run completes, as of its opening account.
Reported == IF now = 0 THEN {bars \in Replay : ~Account(bars).raised} ELSE {}

\* Every unit of equity is explained: at every bar the change of equity since
\* the start is the realized and the unrealized profit of the ledger; and the
\* net result is that of the trades, less the fees of the purchases, which are
\* no part of a trade's outcome, plus what is unrealized at the end.
FiguresAddUp ==
    \A bars \in Reported :
        LET account == Account(bars)
            summary == Summary(account)
            purchases == {i \in DOMAIN account.fills : account.fills[i].side = "buy"}
            fees == SumFunction([i \in purchases |-> TotalFee(account.fills[i])])
        IN  /\ \A i \in DOMAIN account.curve :
                   LET point == account.curve[i]
                   IN  Same(<<point.equity - InitialCash, 1>>, Plus(point.realized, point.unrealized))
            /\ Same(<<summary.net + fees, 1>>,
                    Plus(Plus(summary.gained, summary.lost), Last(account.curve).unrealized))

\* The largest drawdown is the worst fall, in proportion, from the initial cash
\* or the equity at any bar to that at any later one.
DrawdownIsWorst ==
    \A bars \in Reported :
        LET account == Account(bars)
            drawdown == Summary(account).drawdown
            equity == <<InitialCash>> \o [i \in DOMAIN account.curve |-> account.curve[i].equity]
            spans == {p \in (DOMAIN equity) \X (DOMAIN equity) : p[1] <= p[2]}
            falls == {<<equity[p[1]] - equity[p[2]], equity[p[1]]>> : p \in spans}
        IN  /\ \A fall \in falls : fall[1] * drawdown[2] <= drawdown[1] * fall[2]
            /\ \E fall \in falls : Same(fall, drawdown)

\* The shares of s that a bar buys or sells, and those of the first i bars.
Traded(bar, side, s) ==
    IF bar.fill # <<>> /\ bar.fill[1].side = side /\ bar.fill[1].symbol = s THEN bar.fill[1].qty ELSE 0
Shares(bars, side, s, i) == SumFunction([j \in 1 .. i |-> Traded(bars[j], side, s)])

\* The bar that buys or sells the n-th share of s.
BarOfShare(bars, side, s, n) ==
    CHOOSE i \in DOMAIN bars : Shares(bars, side, s, i - 1) < n /\ n <= Shares(bars, side, s, i)

\* The average holding is that of the single shares: the first share sold is
\* the first that was bought, the second the second, and each is held for the
\* bars from that of its purchase to that of its sale.  It needs prompt fills.
HoldingIsFifo ==
    \A bars \in Reported :
        LET sold(s) == Shares(bars, "sell", s, Len(bars))
            held(s) == SumFunction([n \in 1 .. sold(s) |->
                           BarOfShare(bars, "sell", s, n) - BarOfShare(bars, "buy", s, n)])
        IN  Summary(Account(bars)).holding
                = <<SumFunction([s \in Symbol |-> held(s)]), SumFunction([s \in Symbol |-> sold(s)])>>

\* Bars of different times, and fills that are made before the next bar closes.
Prompt(bars) ==
    \A i, j \in DOMAIN bars :
        /\ i < j => Time(bars[i]) < Time(bars[j])
        /\ bars[i].fill # <<>> =>
              /\ Time(bars[i]) <= bars[i].fill[1].time
              /\ i < j => bars[i].fill[1].time < Time(bars[j])
PromptReplay == \A bars \in Replay : Prompt(bars)
=============================================================================
