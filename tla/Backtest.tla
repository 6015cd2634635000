------------------------------ MODULE Backtest ------------------------------
(***************************************************************************)
(* The replay of recorded bars through a strategy, the sizing plan, the    *)
(* paper venue and the ledger: src/services/backtest/service.py.           *)
(*                                                                         *)
(* One step is one bar of the loop of BacktestService.run.  The trader's   *)
(* risk gate has no part in it, and the dates come from the bars: a bar is *)
(* of the day it closed on, and its order is filled when the bar had been  *)
(* ingested, which for fetched history is the day of the request.          *)
(***************************************************************************)
EXTENDS MarketState, Strategies, Sizing, Ledger

CONSTANTS
    Symbol,
    Close,              \* closing prices of bars
    PrevClose,          \* previous closes of bars
    Minutes,            \* times of day at which bars close
    Answer,             \* answers of the model that "ai" asks
    MaxDay,             \* bound: days
    FetchDay,           \* day the bars were fetched; 0: each when it closed
    SlippageBps,        \* slippage_bps, at most 2000
    Tiered,             \* slippage_model is directional_close_tiered_bps
    InitialCash         \* initial_cash

ASSUME BacktestAssumption ==
    /\ Close \subseteq Nat \ {0}
    /\ PrevClose \subseteq Nat \ {0} /\ \A p \in PrevClose : ValidPrev(p)
    /\ Minutes \subseteq 0 .. 1439
    /\ Answer # {} /\ Answer \subseteq Answers(Nat)
    /\ MaxDay \in Nat \ {0} /\ FetchDay \in Nat
    /\ SlippageBps \in 0 .. 2000 /\ Tiered \in BOOLEAN
    /\ InitialCash \in Nat \ {0}

VARIABLES
    strategy,           \* the strategy that is replayed
    memory,             \* what it remembers of a symbol
    position, cash,     \* the ledger
    now,                \* previous_event_time
    seen,               \* seen_bar_keys
    failed,             \* run has raised
    today,              \* history: per symbol, since the day began
    excused,            \* history: the last exit met a lock or no market
    high                \* history: highest close while a position is believed in

history == <<today, excused, high>>
vars == <<strategy, memory, position, cash, now, seen, failed, history>>

Bar == [symbol : Symbol, day : 1 .. MaxDay, minute : Minutes, close : Close, prev : PrevClose,
        final : BOOLEAN,        \* actionable
        state : BOOLEAN,        \* market_state is there
        active : BOOLEAN,       \* and says that the symbol is not suspended
        answer : Answer]        \* what the model will say of it

\* event_time; with the symbol it is the bar_key.
Time(bar) == bar.day * 1440 + bar.minute
Key(bar) == <<bar.symbol, Time(bar)>>
\* max(event_time, ingest_time)
ReceivedDay(bar) == IF bar.day < FetchDay THEN FetchDay ELSE bar.day

\* Of bars that differ only in what is not read, one: nobody reads the answer
\* of a bar that is not asked about, nor what the market state would say.
Silent == {bar \in Bar : /\ bar.answer = CHOOSE answer \in Answer : TRUE
                         /\ ~(bar.final /\ bar.state) =>
                               bar.active /\ bar.prev = CHOOSE prev \in PrevClose : TRUE}
Asked == {bar \in Bar \ Silent : bar.final /\ bar.state}
\* Of a bar that is out of order only the time is read.
Late == {bar \in Silent : /\ ~bar.final /\ ~bar.state
                          /\ bar.close = CHOOSE close \in Close : TRUE}

Strategy == {"baseline", "band", "ai"}
LastDay == IF FetchDay > MaxDay THEN FetchDay ELSE MaxDay
Memory ==
    [closes : Seq(Close), desired : Nat, peak : Close \union {0},
     entryDay : 0 .. MaxDay]
Holding == [qty : Nat, sellable : Nat, avg : Nat \X (Nat \ {0}), mark : Nat, updated : 0 .. LastDay]

TypeOK ==
    /\ strategy \in Strategy
    /\ memory \in [Symbol -> Memory]
    /\ position \in [Symbol -> Holding]
    /\ cash \in Nat
    /\ now \in Nat
    /\ seen \subseteq Symbol \X Nat
    /\ failed \in BOOLEAN
    /\ today \in [Symbol -> [held : Nat, sold : Nat, blind : BOOLEAN]]
    /\ excused \in [Symbol -> BOOLEAN]
    /\ high \in [Symbol -> Close \union {0}]

Init ==
    /\ strategy \in Strategy
    /\ memory = [s \in Symbol |-> NewMemory]
    /\ position = [s \in Symbol |-> Flat]
    /\ cash = InitialCash
    /\ now = 0
    /\ seen = {}
    /\ failed = FALSE
    /\ today = [s \in Symbol |-> [held |-> 0, sold |-> 0, blind |-> FALSE]]
    /\ excused = [s \in Symbol |-> FALSE]
    /\ high = [s \in Symbol |-> 0]

-----------------------------------------------------------------------------
(* Slippage and the venue                                                   *)

\* _resolve_effective_slippage_bps, in half basis points
HalfBps(side, bar) ==
    LET move == (IF side = "buy" THEN bar.close - bar.prev ELSE bar.prev - bar.close) * 10000
    IN  CASE ~Tiered -> 2 * SlippageBps
          [] Tiered /\ move >= 150 * bar.prev -> 6 * SlippageBps
          [] Tiered /\ move >= 80 * bar.prev /\ move < 150 * bar.prev -> 4 * SlippageBps
          [] Tiered /\ move >= 30 * bar.prev /\ move < 80 * bar.prev -> 3 * SlippageBps
          [] OTHER -> 2 * SlippageBps

\* _round_price_to_tick: against the trader
RoundedToTick(n, d, side) == IF side = "buy" THEN (n + d - 1) \div d ELSE n \div d

Within(price, low, up) == IF price < low THEN low ELSE IF price > up THEN up ELSE price

\* _apply_simple_slippage; the limits are whole ticks, so that it makes no
\* difference that the code bounds the price before it rounds it.
Slipped(side, bar) ==
    LET factor == IF side = "buy" THEN 20000 + HalfBps(side, bar) ELSE 20000 - HalfBps(side, bar)
    IN  Within(RoundedToTick(bar.close * factor, 20000, side),
               LowerLimit(bar.prev), UpperLimit(bar.prev))

\* _validate_a_share_contract of the paper adapter, for a market order
VenueTakes(bar) ==
    /\ bar.active /\ Continuous(bar.minute)
    /\ LowerLimit(bar.prev) <= bar.close /\ bar.close <= UpperLimit(bar.prev)

-----------------------------------------------------------------------------
(* run                                                                      *)

\* _mark_position_to_market
Marked(p, bar) == IF p.qty = 0 THEN p ELSE [p EXCEPT !.mark = bar.close, !.updated = bar.day]

Opened(p, bar) == IF bar.state THEN Release(p, bar.day, bar.day) ELSE p

\* Mutant: marked first, released afterwards.
MarkedFirst(bar) == Opened(Marked(position[bar.symbol], bar), bar)
\* The position the strategy's signal meets: released, then marked.
Shown(bar) == Marked(Opened(position[bar.symbol], bar), bar)

OnBar(bar) ==
    CASE strategy = "baseline" -> BaselineOnBar(memory[bar.symbol], bar)
      [] strategy = "band" -> BandOnBar(memory[bar.symbol], bar)
      [] strategy = "ai" -> AiOnBar(memory[bar.symbol], bar)

Order(bar) == Plan(Shown(bar).qty, Shown(bar).sellable, OnBar(bar).signal.target)
Orders(bar) == bar.state /\ OnBar(bar).signal.kind # "none" /\ Order(bar).qty > 0

Fill(bar) ==
    [symbol |-> bar.symbol, side |-> Order(bar).side, qty |-> Order(bar).qty,
     price |-> Slipped(Order(bar).side, bar), day |-> ReceivedDay(bar)]

\* The history of the day, before this bar.
DaySoFar(bar) ==
    IF now \div 1440 = bar.day THEN today
    ELSE [s \in Symbol |-> [held |-> position[s].qty, sold |-> 0, blind |-> FALSE]]

\* The next bar, in order of its time.
Arrives(bar) ==
    /\ ~failed
    /\ Time(bar) >= now
    /\ now' = Time(bar)
    /\ failed' = FALSE
    /\ UNCHANGED strategy

\* Unfinished, or replayed already: it is marked and passed over.
Skipped(bar) == ~bar.final \/ Key(bar) \in seen

\* What the strategy leaves behind, and the history of it.
Decided(bar) ==
    LET s == bar.symbol
        out == OnBar(bar)
        signal == out.signal
        believed == out.memory.desired > 0
    IN  /\ ~Skipped(bar)
        /\ seen' = seen \union {Key(bar)}
        /\ memory' = [memory EXCEPT ![s] = out.memory]
        /\ excused' = [excused EXCEPT ![s] =
               IF signal.kind = "exit"
               THEN \/ ~bar.state \/ ~VenueTakes(bar)
                    \/ DaySoFar(bar)[s].blind
                    \/ Shown(bar).qty + DaySoFar(bar)[s].sold > DaySoFar(bar)[s].held
               ELSE @]
        /\ high' = [high EXCEPT ![s] =
               IF strategy # "baseline" \/ ~believed THEN 0
               ELSE IF bar.state THEN Higher(@, bar.close) ELSE @]

TodayWith(bar, sale) ==
    [DaySoFar(bar) EXCEPT ![bar.symbol].sold = @ + sale,
                          ![bar.symbol].blind = @ \/ ~bar.state]

BarSkipped(bar) ==
    /\ Arrives(bar)
    /\ Skipped(bar)
    /\ position' = [position EXCEPT ![bar.symbol] = Shown(bar)]
    /\ today' = TodayWith(bar, 0)
    /\ UNCHANGED <<memory, cash, seen, excused, high>>

\* No signal, no market state, nothing to trade, or an order the venue rejects.
BarNotTraded(bar) ==
    /\ Arrives(bar)
    /\ ~(VenueTakes(bar) /\ Orders(bar))
    /\ Decided(bar)
    /\ position' = [position EXCEPT ![bar.symbol] = Shown(bar)]
    /\ today' = TodayWith(bar, 0)
    /\ UNCHANGED cash

\* The order is filled in full and the position marked again.
BarTraded(bar) ==
    /\ Arrives(bar)
    /\ ~Skipped(bar) /\ VenueTakes(bar) /\ Orders(bar)
    /\ Decided(bar)
    /\ Accepts(Shown(bar), cash, Fill(bar))
    /\ position' = [position EXCEPT ![bar.symbol] = Marked(Applied(Shown(bar), Fill(bar)), bar)]
    /\ cash' = CashAfter(cash, Fill(bar))
    /\ today' = TodayWith(bar, IF Order(bar).side = "sell" THEN Order(bar).qty ELSE 0)

\* The ledger cannot pay for the fill, and run raises: it returns nothing, so
\* that the state it leaves is that of the bar before.
LedgerRaises(bar) ==
    /\ ~failed
    /\ Time(bar) >= now /\ ~Skipped(bar)
    /\ VenueTakes(bar) /\ Orders(bar)
    /\ ~Accepts(Shown(bar), cash, Fill(bar))
    /\ failed' = TRUE
    /\ UNCHANGED <<strategy, memory, position, cash, now, seen, history>>

\* A bar older than the one before, and run raises.
OutOfOrder(bar) ==
    /\ ~failed
    /\ Time(bar) < now
    /\ failed' = TRUE
    /\ UNCHANGED <<strategy, memory, position, cash, now, seen, history>>

Step(bar) ==
    BarSkipped(bar) \/ BarNotTraded(bar) \/ BarTraded(bar) \/ LedgerRaises(bar)

\* The model is asked about a bar that is neither late nor passed over.
Consulted(bar) == strategy = "ai" /\ Time(bar) >= now /\ ~Skipped(bar)

Next ==
    \/ \E bar \in Silent : Step(bar)
    \/ \E bar \in Asked : Consulted(bar) /\ Step(bar)
    \/ \E bar \in Late : OutOfOrder(bar)

Spec == Init /\ [][Next]_vars

-----------------------------------------------------------------------------
(* Properties *)

\* T+1 in the replay: what is sold of a symbol on the day of a bar was held
\* when that day began.
SameDayKept == \A s \in Symbol : today[s].sold <= today[s].held

\* The trailing stop: while the strategy believes in a position, its last
\* close is above the stop under the highest close since it entered, however
\* often the target was confirmed or changed in between.
StopHonoured ==
    strategy = "baseline" =>
        \A s \in Symbol :
            memory[s].desired > 0 =>
                Last(memory[s].closes) * 10000 > high[s] * (10000 - StopBps)

\* A strategy that signalled an exit last holds nothing, unless that exit met
\* shares of the same day, a suspended symbol or a closed market, or bars
\* without market state: such an exit need not be repeated.
ExitsReach ==
    AllowOddLotSell =>
        \A s \in Symbol :
            memory[s].desired = 0 /\ position[s].qty > 0 => excused[s]

\* The configured target_position bounds what is held under a model's advice.
TargetKept == strategy = "ai" => \A s \in Symbol : position[s].qty <= FullTarget

\* The same without the exceptions.
FlatHoldsNothing ==
    \A s \in Symbol : memory[s].desired = 0 => position[s].qty = 0
=============================================================================
