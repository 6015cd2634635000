------------------------------- MODULE Ledger -------------------------------
(***************************************************************************)
(* The ledger of the paper account and its replay.                         *)
(*                                                                         *)
(*   ledger      src/domain/portfolio/ledger.py        fills to positions  *)
(*   replay      src/domain/reconciliation/service.py  the same, again     *)
(*   rows        src/infra/db/models.py                DECIMAL_28_10       *)
(*                                                                         *)
(* An average price is a pair <<n, d>> that stands for n / d: the ledger   *)
(* computes it exactly, a row keeps it to the nearest 1 / Grid.  Profits   *)
(* are left out: they follow from the prices.  Dates are day numbers.      *)
(***************************************************************************)
EXTENDS Integers, SequencesExt

CONSTANTS
    CommissionRate,     \* cost model, in thousandths of the notional
    TransferRate,
    StampRate,
    Grid                \* the database keeps prices to 1 / Grid

\* Fees are a small part of what is traded.
ASSUME FeeAssumption ==
    /\ CommissionRate \in Nat /\ TransferRate \in Nat /\ StampRate \in Nat
    /\ CommissionRate + TransferRate + StampRate <= 100
    /\ Grid \in Nat \ {0}

NoPrice == <<0, Grid>>
SamePrice(a, b) == a[1] * b[2] = b[1] * a[2]

\* A symbol without a row, and a closed position.
Flat == [qty |-> 0, sellable |-> 0, avg |-> NoPrice, mark |-> 0, updated |-> 0]

\* An account without a balance snapshot.
NoCash == -1

\* _quantize_fee: to the unit, half up
Fee(notional, rate) == (notional * rate + 500) \div 1000

\* build_paper_cost_breakdown: net_cash_flow of a fill
CashFlow(fill) ==
    LET notional == fill.qty * fill.price
        fees == Fee(notional, CommissionRate) + Fee(notional, TransferRate)
    IN  IF fill.side = "buy" THEN -(notional + fees)
        ELSE notional - fees - Fee(notional, StampRate)

\* Mutant: whatever is locked becomes sellable at once.
ReleaseAtOnce(p, date, now) ==
    IF p.qty = 0 THEN p ELSE [p EXCEPT !.sellable = p.qty, !.updated = now]
\* release_position_sellable_qty: shares bought on an earlier date.
Release(p, date, now) ==
    IF p.qty = 0 \/ p.sellable = p.qty \/ p.updated >= date THEN p
    ELSE [p EXCEPT !.sellable = p.qty, !.updated = now]

\* _apply_buy_fill
Bought(p, fill) ==
    [qty |-> p.qty + fill.qty,
     sellable |-> p.sellable,
     avg |-> <<p.qty * p.avg[1] + fill.qty * fill.price * p.avg[2],
               (p.qty + fill.qty) * p.avg[2]>>,
     mark |-> fill.price,
     updated |-> fill.day]

\* _apply_sell_fill
Sold(p, fill) ==
    IF fill.qty = p.qty THEN [Flat EXCEPT !.updated = fill.day]
    ELSE [p EXCEPT !.qty = @ - fill.qty, !.sellable = @ - fill.qty,
                   !.mark = fill.price, !.updated = fill.day]

\* apply_fill_event_to_portfolio raises no PortfolioStateError.
Accepts(p, cash, fill) ==
    /\ fill.side = "sell" => fill.qty <= Release(p, fill.day, fill.day).sellable
    /\ cash = NoCash => CashFlow(fill) >= 0
    /\ (IF cash = NoCash THEN 0 ELSE cash) + CashFlow(fill) >= 0

\* The position and the cash of apply_fill_event_to_portfolio.
Applied(p, fill) ==
    IF fill.side = "buy" THEN Bought(Release(p, fill.day, fill.day), fill)
    ELSE Sold(Release(p, fill.day, fill.day), fill)
CashAfter(cash, fill) == (IF cash = NoCash THEN 0 ELSE cash) + CashFlow(fill)

\* A position as its row keeps it.
Row(p) == [p EXCEPT !.avg = <<(2 * p.avg[1] * Grid + p.avg[2]) \div (2 * p.avg[2]), Grid>>]

-----------------------------------------------------------------------------
(* reconcile_paper_state                                                    *)

\* One fill is replayed onto the account so far, or reported and skipped.
ReplayFill(account, fill) ==
    LET p == account.position[fill.symbol]
    IN  IF Accepts(p, account.cash, fill)
        THEN [account EXCEPT !.position[fill.symbol] = Applied(p, fill),
                             !.cash = CashAfter(account.cash, fill)]
        ELSE [account EXCEPT !.refused = TRUE]

\* The account that these fills make of one that opened with this cash;
\* refused tells that the ledger did not take one of them.
Unplayed(symbols, opening) ==
    [position |-> [s \in symbols |-> Flat], cash |-> opening, refused |-> FALSE]
Played(fills, symbols, opening) == FoldLeft(ReplayFill, Unplayed(symbols, opening), fills)

\* The same, as of a date.
Replayed(fills, symbols, opening, date) ==
    LET account == Played(fills, symbols, opening)
    IN  [account EXCEPT !.position =
            [s \in symbols |-> Release(account.position[s], date, date)]]

\* _check_positions, _check_balances: a row that disagrees with the replay.
PositionDrifts(row, p) ==
    \/ row.qty # p.qty \/ row.sellable # p.sellable \/ row.mark # p.mark
    \/ ~SamePrice(row.avg, p.avg)

Drifts(position, cash, replayed) ==
    \/ replayed.refused
    \/ \E s \in DOMAIN position : PositionDrifts(position[s], replayed.position[s])
    \/ cash # replayed.cash
=============================================================================
