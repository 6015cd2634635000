----------------------------- MODULE Strategies -----------------------------
(***************************************************************************)
(* The strategies and what they remember of one symbol.                    *)
(*                                                                         *)
(*   baseline   src/domain/strategy/baseline.py    momentum, trailing stop *)
(*   band       src/domain/strategy/rule_based.py  moving-average band     *)
(*   ai         src/domain/strategy/ai.py          the judgment of a model *)
(*                                                                         *)
(* A strategy never sees the account: desired is the position it believes  *)
(* in, and it moves when a signal is made, not when an order is filled.    *)
(* Prices are whole ticks, percentages basis points.  A bar has a day, a   *)
(* close, a previous close, may lack its market state, and for "ai" comes  *)
(* with the answer of the model that is asked about it.                    *)
(***************************************************************************)
EXTENDS Integers, FiniteSets, SequencesExt

CONSTANTS
    FullTarget,         \* target_position
    ReducedTarget,      \* target_position * reduced_target_ratio
    Lookback,           \* trend_lookback_bars
    MinTrendUp,         \* min_trend_up_bars
    EntryBps,           \* entry_threshold_pct
    StrongBps,          \* strong_entry_threshold_pct
    ExitBps,            \* exit_threshold_pct
    StopBps,            \* trailing_stop_pct
    MaWindow,           \* ma_window
    BuyBelowBps,        \* buy_below_ma_pct
    SellAboveBps,       \* sell_above_ma_pct
    AiLookback,         \* lookback_bars
    SureBps             \* the move at which the heuristic reaches min_confidence

\* The constructors' checks.
ASSUME StrategyAssumption ==
    /\ FullTarget \in Nat \ {0} /\ ReducedTarget \in 1 .. FullTarget
    /\ Lookback \in Nat \ {0, 1} /\ MinTrendUp \in 1 .. Lookback - 1
    /\ EntryBps \in 0 .. 9999 /\ StrongBps \in EntryBps .. 9999
    /\ ExitBps \in -9999 .. EntryBps
    /\ StopBps \in 1 .. 9999
    /\ MaWindow \in Nat \ {0, 1}
    /\ BuyBelowBps \in 0 .. 9999 /\ SellAboveBps \in 0 .. 9999
    /\ AiLookback \in Nat \ {0, 1} /\ SureBps \in Int

\* _build_symbol_state: no price and no day are 0.
NewMemory == [closes |-> <<>>, desired |-> 0, peak |-> 0, entryDay |-> 0]

NoSignal == [kind |-> "none", target |-> 0]
Exit == [kind |-> "exit", target |-> 0]
Towards(target) == [kind |-> "target", target |-> target]

\* deque(maxlen=n).append
Pushed(closes, close, n) ==
    IF Len(closes) < n THEN Append(closes, close) ELSE Append(Tail(closes), close)

-----------------------------------------------------------------------------
(* BaselineMomentumStrategy                                                 *)

MomentumAtLeast(bar, bps) == (bar.close - bar.prev) * 10000 >= bps * bar.prev
MomentumAtMost(bar, bps) == (bar.close - bar.prev) * 10000 <= bps * bar.prev

\* _compute_trend_return, _count_positive_close_changes
TrendConfirmed(closes) ==
    /\ closes[Len(closes)] > closes[1]
    /\ Cardinality({i \in 1 .. Len(closes) - 1 : closes[i + 1] > closes[i]}) >= MinTrendUp

Higher(a, b) == IF a > b THEN a ELSE b

\* The bar is remembered, and counts for the peak of a position.
Watched(m, bar) ==
    [m EXCEPT !.closes = Pushed(@, bar.close, Lookback),
              !.peak = IF m.desired > 0 THEN Higher(@, bar.close) ELSE @]

\* _resolve_trailing_stop_price
StopHit(m, bar) == bar.close * 10000 <= m.peak * (10000 - StopBps)
ExitDue(m, bar) == m.desired > 0 /\ (StopHit(m, bar) \/ MomentumAtMost(bar, ExitBps))
EntryReady(m, bar) == MomentumAtLeast(bar, EntryBps) /\ TrendConfirmed(m.closes)

BaselineSignal(m, bar) ==
    CASE Len(m.closes) < Lookback -> NoSignal
      [] Len(m.closes) >= Lookback /\ ExitDue(m, bar) -> Exit
      [] Len(m.closes) >= Lookback /\ ~ExitDue(m, bar) /\ EntryReady(m, bar) ->
            Towards(IF MomentumAtLeast(bar, StrongBps) THEN FullTarget ELSE ReducedTarget)
      [] OTHER -> IF m.desired > 0 THEN Towards(m.desired) ELSE NoSignal

\* Mutant: every confirmation starts a new peak.
StoredAnew(m, bar, target) == [m EXCEPT !.desired = target, !.peak = bar.close]
\* _store_position_state
Stored(m, bar, target) ==
    [m EXCEPT !.desired = target,
              !.peak = IF m.desired = 0 THEN bar.close ELSE Higher(@, bar.close)]

\* _clear_position_state
Cleared(m) == [closes |-> m.closes, desired |-> 0, peak |-> 0, entryDay |-> 0]

\* What on_bar remembers after a signal; without one it has nothing to add.
BaselineAfter(m, bar, signal) ==
    CASE signal.kind = "exit" -> Cleared(m)
      [] signal.kind = "target" -> Stored(m, bar, signal.target)
      [] OTHER -> m

\* on_bar, for a final bar
BaselineOnBar(m, bar) ==
    LET seen == Watched(m, bar)
        signal == BaselineSignal(seen, bar)
    IN  IF bar.state THEN [memory |-> BaselineAfter(seen, bar, signal), signal |-> signal]
        ELSE [memory |-> m, signal |-> NoSignal]

-----------------------------------------------------------------------------
(* MovingAverageBandStrategy                                                *)

Total(closes) == FoldLeft(LAMBDA a, b : a + b, 0, closes)

\* The close against the average of the window, less or more a percentage.
BelowBand(m, bar) == bar.close * MaWindow * 10000 <= Total(m.closes) * (10000 - BuyBelowBps)
AboveBand(m, bar) == bar.close * MaWindow * 10000 >= Total(m.closes) * (10000 + SellAboveBps)

BandSignal(m, bar) ==
    CASE Len(m.closes) < MaWindow -> NoSignal
      [] Len(m.closes) >= MaWindow /\ m.desired = 0 ->
            IF BelowBand(m, bar) THEN Towards(FullTarget) ELSE NoSignal
      [] OTHER ->
            IF ~(bar.state /\ m.entryDay = bar.day) /\ AboveBand(m, bar) THEN Exit ELSE NoSignal

BandAfter(m, bar, signal) ==
    CASE signal.kind = "exit" -> Cleared(m)
      [] signal.kind = "target" ->
            [m EXCEPT !.desired = signal.target, !.entryDay = IF bar.state THEN bar.day ELSE 0]
      [] OTHER -> m

BandOnBar(m, bar) ==
    LET seen == [m EXCEPT !.closes = Pushed(@, bar.close, MaWindow)]
        signal == BandSignal(seen, bar)
    IN  [memory |-> BandAfter(seen, bar, signal), signal |-> signal]
-----------------------------------------------------------------------------
(* AiBarJudgeStrategy                                                       *)

\* What a decision may say; a request that failed, or content that holds no
\* decision, is one more.
Action == {"failed", "rebalance", "exit", "hold"}

\* A decision without a target position
NoTarget == -1

\* AiStrategyDecision: what the model answers for a bar, whether its confidence
\* reaches min_confidence, and the target it names.  Where the heuristic has to
\* answer, sure and rose are those of the return since the first open of the
\* window, which a bar does not show.
Answers(targets) == [action : Action, sure : BOOLEAN, target : targets \union {NoTarget}, rose : BOOLEAN]

\* OpenAiCompatibleDecisionProvider.decide: the target of an answer without one.
Judged(answer) ==
    [answer EXCEPT !.target =
        CASE answer.action = "hold" -> NoTarget
          [] answer.action = "rebalance" /\ answer.target = NoTarget -> FullTarget
          [] answer.action = "exit" /\ answer.target = NoTarget -> 0
          [] OTHER -> answer.target]

\* |a - b| is at least bps of b.
Moved(a, b, bps) == (a - b) * 10000 >= bps * b \/ (b - a) * 10000 >= bps * b

\* HeuristicStubAiDecisionProvider.decide
Heuristic(m, bar) ==
    LET n == Len(m.closes)
        bullish == MomentumAtLeast(bar, EntryBps) /\ bar.answer.rose
    IN  Judged([bar.answer EXCEPT
            !.action = IF bullish THEN "rebalance"
                       ELSE IF MomentumAtMost(bar, ExitBps) THEN "exit" ELSE "hold",
            !.target = NoTarget,
            !.sure = \/ @ \/ Moved(bar.close, bar.prev, SureBps)
                     \/ Moved(bar.close, m.closes[n - 1], SureBps)])

\* FallbackAiDecisionProvider.decide; without a model every answer failed.
Decision(m, bar) == IF bar.answer.action = "failed" THEN Heuristic(m, bar) ELSE Judged(bar.answer)

\* Whatever is held, and also for a rebalance to 0, the target is the
\* configured one unless the answer names another.
AiSignal(m, bar) ==
    LET decision == Decision(m, bar)
        acts == Len(m.closes) >= AiLookback /\ decision.action # "hold" /\ decision.sure
    IN  IF ~acts THEN NoSignal
        ELSE IF decision.action = "exit" THEN Exit
        ELSE Towards(IF decision.target > 0 THEN decision.target ELSE FullTarget)

\* The strategy keeps nothing but its bars; desired is a history of its signals.
AiAfter(m, signal) == IF signal.kind = "none" THEN m ELSE [m EXCEPT !.desired = signal.target]

AiOnBar(m, bar) ==
    LET seen == [m EXCEPT !.closes = Pushed(@, bar.close, AiLookback)]
        signal == AiSignal(seen, bar)
    IN  IF bar.state THEN [memory |-> AiAfter(seen, signal), signal |-> signal]
        ELSE [memory |-> m, signal |-> NoSignal]
=============================================================================
