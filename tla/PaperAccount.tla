---------------------------- MODULE PaperAccount ----------------------------
(***************************************************************************)
(* One paper account over several trading days: targets become orders,     *)
(* orders fills, fills positions and cash, and the reconciliation replays  *)
(* the fills.                                                              *)
(*                                                                         *)
(*   sizing          Sizing     src/domain/execution/oms.py                *)
(*   risk gate       RiskGate   src/domain/risk/pretrade.py                *)
(*   ledger, replay  Ledger     src/domain/portfolio, .../reconciliation   *)
(*   OMS             here       apps/trader/oms.py, amounts only           *)
(*   reconciliation  here       apps/trader/reconciliation.py              *)
(*                                                                         *)
(* OmsOrders has the steps, the failures and the interleavings of one      *)
(* submission; here a submission is one step and its amounts matter.  The  *)
(* venue is the paper adapter's default scenario: it fills an order in     *)
(* full at the price of the bar.                                           *)
(***************************************************************************)
EXTENDS RiskGate, Ledger

CONSTANTS
    Symbol,
    Price,              \* closing prices a bar may have
    Target,             \* target positions a signal may ask for
    InitialCash,        \* paper_initial_cash
    MaxDay,             \* bound: days
    MaxFills            \* bound: fills

ASSUME AccountAssumption ==
    /\ IsFiniteSet(Symbol)
    /\ Price \subseteq Nat \ {0} /\ Target \subseteq Nat
    /\ InitialCash \in Nat \ {0} /\ MinNotional >= 2
    /\ MaxDay \in Nat \ {0} /\ MaxFills \in Nat

VARIABLES
    day,                \* today
    up,                 \* the trader process runs
    position,           \* position row of a symbol
    cash,               \* latest balance snapshot
    opening,            \* earliest balance snapshot
    fills,              \* fill rows in their order
    killSwitch,         \* the operator's switch
    protection,         \* protection_mode
    held,               \* history: shares held when the day began
    sold                \* history: shares sold on this day

control == <<killSwitch, protection>>
history == <<held, sold>>
vars == <<day, up, position, cash, opening, fills, control, history>>

Fill == [symbol : Symbol, side : {"buy", "sell"}, qty : Nat, price : Price, day : 1 .. MaxDay]
PositionRow == [qty : Nat, sellable : Nat, avg : Nat \X (Nat \ {0}), mark : Nat, updated : 0 .. MaxDay]

TypeOK ==
    /\ day \in 1 .. MaxDay
    /\ up \in BOOLEAN
    /\ position \in [Symbol -> PositionRow]
    /\ cash \in Nat \union {NoCash} /\ opening \in Nat \union {NoCash}
    /\ fills \in Seq(Fill) /\ Len(fills) <= MaxFills
    /\ killSwitch \in BOOLEAN /\ protection \in BOOLEAN
    /\ held \in [Symbol -> Nat] /\ sold \in [Symbol -> Nat]

Init ==
    /\ day = 1
    /\ up = FALSE
    /\ position = [s \in Symbol |-> Flat]
    /\ cash = NoCash /\ opening = NoCash
    /\ fills = <<>>
    /\ killSwitch = FALSE /\ protection = FALSE
    /\ held = [s \in Symbol |-> 0]
    /\ sold = [s \in Symbol |-> 0]

Bar == [price : Price, age : {0, 1}, tradable : BOOLEAN]

ReduceOnly == killSwitch \/ protection

\* What the other open positions are worth at their marks.
Others(s) == MapThenSumSet(LAMBDA o : position[o].qty * position[o].mark, Symbol \ {s})

-----------------------------------------------------------------------------
(* submit_signal                                                            *)

\* What the OMS decides on: the position after the release that the bar's
\* trade date allows, and the plan made for it.
Current(s, bar) == Release(position[s], day - bar.age, day)
Order(s, target, bar) == Plan(Current(s, bar).qty, Current(s, bar).sellable, target)
Admitted(s, target, bar) ==
    GateAllows(Current(s, bar), Order(s, target, bar), target, bar, ReduceOnly, Others(s))

Execution(s, target, bar) ==
    [symbol |-> s, side |-> Order(s, target, bar).side, qty |-> Order(s, target, bar).qty,
     price |-> bar.price, day |-> day]

\* No order: the target is reached, nothing can be traded, or a rule rejects.
SignalNotTraded(s, target, bar) ==
    /\ up
    /\ ~Admitted(s, target, bar)
    /\ position' = [position EXCEPT ![s] = Current(s, bar)]
    /\ UNCHANGED <<day, up, cash, opening, fills, control, history>>

\* The venue fills the order and the ledger takes the fill.
SignalTraded(s, target, bar) ==
    LET fill == Execution(s, target, bar)
    IN  /\ up
        /\ Admitted(s, target, bar)
        /\ Len(fills) < MaxFills
        /\ Accepts(Current(s, bar), cash, fill)
        /\ fills' = Append(fills, fill)
        /\ position' = [position EXCEPT ![s] = Row(Applied(Current(s, bar), fill))]
        /\ cash' = CashAfter(cash, fill)
        /\ sold' = [sold EXCEPT ![s] = IF fill.side = "sell" THEN @ + fill.qty ELSE @]
        /\ UNCHANGED <<day, up, opening, control, held>>

\* The ledger refuses the fill when it is saved already; the exception ends
\* the process.
LedgerRefuses(s, target, bar) ==
    LET fill == Execution(s, target, bar)
    IN  /\ up
        /\ Admitted(s, target, bar)
        /\ Len(fills) < MaxFills
        /\ ~Accepts(Current(s, bar), cash, fill)
        /\ fills' = Append(fills, fill)
        /\ position' = [position EXCEPT ![s] = Current(s, bar)]
        /\ sold' = [sold EXCEPT ![s] = IF fill.side = "sell" THEN @ + fill.qty ELSE @]
        /\ up' = FALSE
        /\ UNCHANGED <<day, cash, opening, control, held>>

-----------------------------------------------------------------------------
(* recover_account_state and run_once                                       *)

DriftFound(rows, balance, first) ==
    Drifts(rows, balance, Replayed(fills, Symbol, first, day))

\* Mutant: the initial cash is booked whenever nothing is held.
SeedsFlat == \A s \in Symbol : position[s].qty = 0
\* _seed_initial_balance_for_pristine_account
Seeds == cash = NoCash /\ fills = <<>> /\ \A s \in Symbol : position[s].qty = 0

\* start: seed the cash, release the positions, and reconcile.
Start ==
    /\ ~up
    /\ up' = TRUE
    /\ cash' = IF Seeds THEN InitialCash ELSE cash
    /\ opening' = IF Seeds /\ opening = NoCash THEN InitialCash ELSE opening
    /\ position' = [s \in Symbol |-> Release(position[s], day, day)]
    /\ protection' = (protection \/ DriftFound(position', cash', opening'))
    /\ UNCHANGED <<day, fills, killSwitch, history>>

Reconcile ==
    /\ up
    /\ protection' = (protection \/ DriftFound(position, cash, opening))
    /\ UNCHANGED <<day, up, position, cash, opening, fills, killSwitch, history>>

-----------------------------------------------------------------------------
(* The world                                                                *)

Exit ==
    /\ up
    /\ up' = FALSE
    /\ UNCHANGED <<day, position, cash, opening, fills, control, history>>

SwitchKill ==
    /\ killSwitch' = ~killSwitch
    /\ UNCHANGED <<day, up, position, cash, opening, fills, protection, history>>

NextDay ==
    /\ day < MaxDay
    /\ day' = day + 1
    /\ held' = [s \in Symbol |-> position[s].qty]
    /\ sold' = [s \in Symbol |-> 0]
    /\ UNCHANGED <<up, position, cash, opening, fills, control>>

Next ==
    \/ \E s \in Symbol, target \in Target, bar \in Bar : SignalNotTraded(s, target, bar)
    \/ \E s \in Symbol, target \in Target, bar \in Bar : SignalTraded(s, target, bar)
    \/ \E s \in Symbol, target \in Target, bar \in Bar : LedgerRefuses(s, target, bar)
    \/ Start \/ Reconcile \/ Exit \/ SwitchKill \/ NextDay

Spec == Init /\ [][Next]_vars

-----------------------------------------------------------------------------
(* Properties *)

\* What keeps T+1 and the limit of a symbol over the days: a position that was
\* touched today has no more left to sell than was held and is not sold yet,
\* and one that was not is what it was when the day began.
Kept(p, h, x, d) ==
    /\ OnGrid(p.qty, p.sellable)
    /\ p.updated <= d
    /\ IF p.updated = d THEN x + p.sellable <= h ELSE x = 0 /\ p.qty = h
    /\ p.qty * p.mark <= MaxSingle
AccountInv == \A s \in Symbol : Kept(position[s], held[s], sold[s], day)

\* T+1: what is sold of a symbol on a day was held when the day began.
TPlusOne == \A s \in Symbol : sold[s] <= held[s]

\* What the account holds, at the prices of the last fills, is within the
\* limits of the gate, for a symbol and in all.
SymbolLimit == \A s \in Symbol : position[s].qty * position[s].mark <= MaxSingle
LimitsHold ==
    /\ SymbolLimit
    /\ MapThenSumSet(LAMBDA s : position[s].qty * position[s].mark, Symbol) <= MaxTotal

\* The rows are what the fills make of the initial cash, unless the ledger
\* has refused one; locked shares are compared after the release both get.
ReplayAgrees ==
    LET replayed == Replayed(fills, Symbol, opening, day)
    IN  ~replayed.refused =>
            /\ cash = replayed.cash
            /\ \A s \in Symbol :
                  LET row == Release(position[s], day, day)
                      p == replayed.position[s]
                  IN  row.qty = p.qty /\ row.sellable = p.sellable /\ row.mark = p.mark

\* Why they do: a row has the shares and the mark of the replay of its fills,
\* and its day unless it was released since, which the next fill makes good.
Agrees(row, p) ==
    /\ row.qty = p.qty /\ row.mark = p.mark
    /\ \/ row.sellable = p.sellable /\ row.updated = p.updated
       \/ row.qty > 0 /\ row.sellable = row.qty /\ p.updated < row.updated
ReplayInv ==
    /\ cash = NoCash => /\ ~up /\ opening = NoCash /\ fills = <<>>
                        /\ \A s \in Symbol : position[s].qty = 0
    /\ opening = NoCash => cash = NoCash
    /\ LET played == Played(fills, Symbol, opening)
       IN  ~played.refused =>
               /\ cash = played.cash
               /\ \A s \in Symbol : Agrees(position[s], played.position[s])

\* An order trades as much towards its target as the rules of the symbol let
\* it, and never more than that.
PlanIsLargest ==
    \A s \in Symbol, target \in Target :
        LargestTradable(position[s].qty, position[s].sellable, target)

\* A signal that comes again after its order was filled orders nothing.
PlanSettles ==
    \A s \in Symbol, target \in Target :
        LET p == position[s]
            plan == Plan(p.qty, p.sellable, target)
        IN  IF plan.side = "buy" THEN Plan(p.qty + plan.qty, p.sellable, target).qty = 0
            ELSE Plan(p.qty - plan.qty, p.sellable - plan.qty, target).qty = 0

\* Protection mode is entered on a real loss only: a fill that the ledger
\* did not take.
NoFalseAlarm == protection => Replayed(fills, Symbol, opening, day).refused

\* A signal that the gate lets through never fails in the ledger.
LedgerTakesEveryFill == ~Replayed(fills, Symbol, opening, day).refused

\* A position that may be sold can be closed at any price of a good bar.
ExitAdmitted ==
    \A s \in Symbol, price \in Price :
        position[s].sellable > 0 =>
            Admitted(s, 0, [price |-> price, age |-> 0, tradable |-> TRUE])
=============================================================================
