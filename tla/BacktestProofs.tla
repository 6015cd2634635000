--------------------------- MODULE BacktestProofs ---------------------------
(***************************************************************************)
(* Theorems about Backtest, for every strategy setting, symbol rule, price *)
(* limit, slippage and set of bars: what the strategies remember is the    *)
(* position they believe in and the peak behind its stop, what the ledger  *)
(* holds follows T+1 (for bars that are ingested on the day they close),   *)
(* and an exit leaves nothing but what it could not sell.                  *)
(***************************************************************************)
EXTENDS Performance, RulesProofs

\* Bars are ingested on the day they close.
IngestedAtOnce == FetchDay <= 1

-----------------------------------------------------------------------------
(* The strategies                                                           *)

LEMMA PushedFacts ==
    ASSUME NEW closes \in Seq(Close), NEW close \in Close, NEW n \in Nat \ {0, 1},
           NEW pushed, pushed = Pushed(closes, close, n)
    PROVE  /\ pushed \in Seq(Close)
           /\ pushed[Len(pushed)] = close
           /\ Len(closes) >= n => Len(pushed) >= n
<1>1. CASE Len(closes) < n
  <2>1. pushed = Append(closes, close)
    BY <1>1 DEF Pushed
  <2> QED
    BY <1>1, <2>1
<1>2. CASE ~(Len(closes) < n)
  <2>1. pushed = Append(Tail(closes), close)
    BY <1>2 DEF Pushed
  <2>2. closes # <<>> /\ Len(closes) \in Nat \ {0}
    BY <1>2
  <2>3. Tail(closes) \in Seq(Close) /\ Len(Tail(closes)) = Len(closes) - 1
    BY <2>2
  <2> QED
    BY <2>1, <2>2, <2>3
<1> QED
  BY <1>1, <1>2

LEMMA NewMemoryType == NewMemory \in Memory
<1>1. <<>> \in Seq(Close) /\ 0 \in 0 .. MaxDay
  BY BacktestAssumption
<1> QED
  BY <1>1 DEF NewMemory, Memory

\* The belief of a strategy follows its signals.
Follows(m, result) ==
    /\ result.memory \in Memory
    /\ result.signal.kind \in {"none", "exit", "target"}
    /\ result.signal.target \in Nat
    /\ result.signal.kind = "none" => result.memory.desired = m.desired
    /\ result.signal.kind = "exit" => result.memory.desired = 0 /\ result.signal.target = 0
    /\ result.signal.kind = "target" => result.memory.desired > 0

LEMMA WatchedType ==
    ASSUME NEW m \in Memory, NEW bar \in Bar, NEW watched, watched = Watched(m, bar)
    PROVE  /\ watched \in Memory
           /\ watched.closes = Pushed(m.closes, bar.close, Lookback)
           /\ watched.peak = IF m.desired > 0 THEN Higher(m.peak, bar.close) ELSE m.peak
           /\ watched.desired = m.desired
<1>1. m.closes \in Seq(Close) /\ bar.close \in Close /\ Lookback \in Nat \ {0, 1}
  BY StrategyAssumption DEF Memory, Bar
<1>2. Pushed(m.closes, bar.close, Lookback) \in Seq(Close)
  BY <1>1, PushedFacts
<1> DEFINE closes == Pushed(m.closes, bar.close, Lookback)
           peak == IF m.desired > 0 THEN Higher(m.peak, bar.close) ELSE m.peak
<1>3. peak \in Close \union {0}
  <2>1. m.peak \in Close \union {0}
    BY DEF Memory
  <2>2. Higher(m.peak, bar.close) \in {m.peak, bar.close}
    BY DEF Higher
  <2> QED
    BY <1>1, <2>1, <2>2
<1>4. watched = [m EXCEPT !.closes = closes, !.peak = peak]
  BY DEF Watched, Memory
<1> HIDE DEF closes, peak
<1>5. watched \in Memory /\ watched.closes = closes /\ watched.peak = peak /\ watched.desired = m.desired
  BY <1>2, <1>3, <1>4 DEF Memory, closes
<1> QED
  BY <1>5 DEF closes, peak

\* What the signal of the baseline strategy can be.
LEMMA BaselineSignals ==
    ASSUME NEW m \in Memory, NEW bar \in Bar, NEW signal, signal = BaselineSignal(m, bar)
    PROVE  \/ signal = NoSignal /\ (Len(m.closes) >= Lookback => m.desired = 0)
           \/ signal = Exit
           \/ \E target \in Nat \ {0} :
                /\ signal = Towards(target)
                /\ Len(m.closes) >= Lookback
                /\ ~ExitDue(m, bar)
<1>1. /\ Lookback \in Nat /\ Len(m.closes) \in Nat /\ m.desired \in Nat
      /\ FullTarget \in Nat \ {0} /\ ReducedTarget \in 1 .. FullTarget
  BY StrategyAssumption DEF Memory
<1>2. CASE Len(m.closes) < Lookback
  BY <1>1, <1>2 DEF BaselineSignal
<1>3. CASE Len(m.closes) >= Lookback /\ ExitDue(m, bar)
  <2>1. signal = Exit
    BY <1>1, <1>3 DEF BaselineSignal
  <2> QED
    BY <2>1
<1>4. CASE Len(m.closes) >= Lookback /\ ~ExitDue(m, bar) /\ EntryReady(m, bar)
  <2>1. signal = Towards(IF MomentumAtLeast(bar, StrongBps) THEN FullTarget ELSE ReducedTarget)
    BY <1>1, <1>4 DEF BaselineSignal
  <2> QED
    BY <1>1, <1>4, <2>1
<1>5. CASE Len(m.closes) >= Lookback /\ ~ExitDue(m, bar) /\ ~EntryReady(m, bar)
  <2>1. signal = IF m.desired > 0 THEN Towards(m.desired) ELSE NoSignal
    BY <1>1, <1>5 DEF BaselineSignal
  <2> QED
    BY <1>1, <1>5, <2>1
<1> QED
  BY <1>1, <1>2, <1>3, <1>4, <1>5

LEMMA ClearedType ==
    ASSUME NEW m \in Memory
    PROVE  Cleared(m) \in Memory /\ Cleared(m).desired = 0
<1>1. 0 \in 0 .. MaxDay /\ 0 \in Nat /\ 0 \in Close \union {0}
  BY BacktestAssumption
<1>2. m.closes \in Seq(Close)
  BY DEF Memory
<1> QED
  BY <1>1, <1>2 DEF Cleared, Memory

LEMMA BaselineFollows ==
    ASSUME NEW m \in Memory, NEW bar \in Bar
    PROVE  Follows(m, BaselineOnBar(m, bar))
<1> DEFINE watched == Watched(m, bar)
           signal == BaselineSignal(watched, bar)
<1>1. CASE ~bar.state
  <2>1. BaselineOnBar(m, bar) = [memory |-> m, signal |-> NoSignal]
    BY <1>1 DEF BaselineOnBar
  <2> QED
    BY <2>1 DEF Follows, NoSignal
<1>2. CASE bar.state
  <2>1. BaselineOnBar(m, bar) = [memory |-> BaselineAfter(watched, bar, signal), signal |-> signal]
    BY <1>2 DEF BaselineOnBar
  <2>2. watched \in Memory /\ watched.desired = m.desired
    BY WatchedType
  <2>3. \/ signal = NoSignal
        \/ signal = Exit
        \/ \E target \in Nat \ {0} : signal = Towards(target)
    BY <2>2, BaselineSignals
  <2>4. bar.close \in Close /\ FullTarget \in Nat
    BY StrategyAssumption DEF Bar
  <2> HIDE DEF watched, signal
  <2>5. CASE signal = NoSignal
    <3>1. BaselineAfter(watched, bar, signal) = watched
      BY <2>5 DEF BaselineAfter, NoSignal
    <3> QED
      BY <2>1, <2>2, <2>5, <3>1 DEF Follows, NoSignal
  <2>6. CASE signal = Exit
    <3>1. BaselineAfter(watched, bar, signal) = Cleared(watched)
      BY <2>6 DEF BaselineAfter, Exit
    <3>2. BaselineAfter(watched, bar, signal) \in Memory /\ BaselineAfter(watched, bar, signal).desired = 0
      BY <2>2, <3>1, ClearedType
    <3> QED
      BY <2>1, <2>6, <3>2 DEF Follows, Exit
  <2>7. ASSUME NEW target \in Nat \ {0}, signal = Towards(target)
        PROVE  Follows(m, BaselineOnBar(m, bar))
    <3>1. BaselineAfter(watched, bar, signal) = Stored(watched, bar, target)
      BY <2>7 DEF BaselineAfter, Towards
    <3>2. (IF watched.desired = 0 THEN bar.close ELSE Higher(watched.peak, bar.close)) \in Close \union {0}
      BY <2>2, <2>4 DEF Memory, Higher
    <3>3. target > 0 /\ target \in Nat
      BY <2>4
    <3>4. Stored(watched, bar, target) \in Memory /\ Stored(watched, bar, target).desired = target
      BY <2>2, <3>2, <3>3 DEF Stored, Memory
    <3> QED
      BY <2>1, <2>7, <3>1, <3>3, <3>4 DEF Follows, Towards
  <2> QED
    BY <2>3, <2>5, <2>6, <2>7
<1> QED
  BY <1>1, <1>2 DEF Bar

LEMMA BandFollows ==
    ASSUME NEW m \in Memory, NEW bar \in Bar
    PROVE  Follows(m, BandOnBar(m, bar))
<1> DEFINE watched == [m EXCEPT !.closes = Pushed(@, bar.close, MaWindow)]
           signal == BandSignal(watched, bar)
<1>1. BandOnBar(m, bar) = [memory |-> BandAfter(watched, bar, signal), signal |-> signal]
  BY DEF BandOnBar
<1>2. watched \in Memory /\ watched.desired = m.desired
  <2>1. m.closes \in Seq(Close) /\ bar.close \in Close /\ MaWindow \in Nat \ {0, 1}
    BY StrategyAssumption DEF Memory, Bar
  <2>2. Pushed(m.closes, bar.close, MaWindow) \in Seq(Close)
    BY <2>1, PushedFacts
  <2> QED
    BY <2>2 DEF Memory
<1> HIDE DEF watched
<1>3. /\ FullTarget \in Nat \ {0} /\ MaWindow \in Nat /\ MaxDay \in Nat /\ bar.day \in 0 .. MaxDay
      /\ Len(watched.closes) \in Nat /\ watched.desired \in Nat
  <2>1. FullTarget \in Nat \ {0} /\ MaWindow \in Nat
    BY StrategyAssumption
  <2>2. MaxDay \in Nat /\ bar.day \in 0 .. MaxDay
    BY BacktestAssumption DEF Bar
  <2>3. Len(watched.closes) \in Nat /\ watched.desired \in Nat
    BY <1>2 DEF Memory
  <2> QED
    BY <2>1, <2>2, <2>3
<1>4. signal \in {NoSignal, Exit, Towards(FullTarget)}
  <2>1. CASE Len(watched.closes) < MaWindow
    BY <2>1 DEF BandSignal
  <2>2. CASE Len(watched.closes) >= MaWindow /\ watched.desired = 0
    <3>1. signal = IF BelowBand(watched, bar) THEN Towards(FullTarget) ELSE NoSignal
      BY <1>3, <2>2 DEF BandSignal
    <3> QED
      BY <3>1
  <2>3. CASE Len(watched.closes) >= MaWindow /\ watched.desired # 0
    <3>1. signal = IF ~(bar.state /\ watched.entryDay = bar.day) /\ AboveBand(watched, bar)
                   THEN Exit ELSE NoSignal
      BY <1>3, <2>3 DEF BandSignal
    <3> QED
      BY <3>1
  <2> QED
    BY <1>3, <2>1, <2>2, <2>3
<1> HIDE DEF signal
<1>5. CASE signal = NoSignal
  <2>1. BandAfter(watched, bar, signal) = watched
    BY <1>5 DEF BandAfter, NoSignal
  <2> QED
    BY <1>1, <1>2, <1>5, <2>1 DEF Follows, NoSignal
<1>6. CASE signal = Exit
  <2>1. BandAfter(watched, bar, signal) = Cleared(watched)
    BY <1>6 DEF BandAfter, Exit
  <2>2. BandAfter(watched, bar, signal) \in Memory /\ BandAfter(watched, bar, signal).desired = 0
    BY <1>2, <2>1, ClearedType
  <2> QED
    BY <1>1, <1>6, <2>2 DEF Follows, Exit
<1>7. CASE signal = Towards(FullTarget)
  <2>1. BandAfter(watched, bar, signal)
            = [watched EXCEPT !.desired = FullTarget, !.entryDay = IF bar.state THEN bar.day ELSE 0]
    BY <1>7 DEF BandAfter, Towards
  <2>2. FullTarget \in Nat /\ (IF bar.state THEN bar.day ELSE 0) \in 0 .. MaxDay
    BY <1>3
  <2>3. BandAfter(watched, bar, signal) \in Memory /\ BandAfter(watched, bar, signal).desired = FullTarget
    BY <1>2, <2>1, <2>2 DEF Memory
  <2> QED
    BY <1>1, <1>3, <1>7, <2>3 DEF Follows, Towards
<1> QED
  BY <1>4, <1>5, <1>6, <1>7

\* Whoever decides, the target is a number, or NoTarget.
LEMMA DecisionTarget ==
    ASSUME NEW m, NEW bar \in Bar
    PROVE  Decision(m, bar).target \in Int
<1>1. bar.answer \in Answers(Nat) /\ FullTarget \in Nat
  BY BacktestAssumption, StrategyAssumption DEF Bar
<1>2. \A answer : answer \in [action : Action, sure : BOOLEAN, target : Int, rose : BOOLEAN]
                    => Judged(answer).target \in Int
  BY <1>1 DEF Judged, NoTarget
<1>3. NoTarget \in Int /\ bar.answer \in [action : Action, sure : BOOLEAN, target : Int, rose : BOOLEAN]
  BY <1>1 DEF Answers, NoTarget
<1>4. Heuristic(m, bar).target \in Int
  <2>1. PICK action, sure : Heuristic(m, bar)
            = Judged([bar.answer EXCEPT !.action = action, !.target = NoTarget, !.sure = sure])
    BY Zenon DEF Heuristic
  <2> QED
    BY <1>1, <1>3, <2>1 DEF Judged, NoTarget
<1> QED
  BY <1>2, <1>3, <1>4 DEF Decision

LEMMA AiSignals ==
    ASSUME NEW m, NEW bar \in Bar, NEW signal, signal = AiSignal(m, bar)
    PROVE  signal \in {NoSignal, Exit} \/ \E target \in Nat \ {0} : signal = Towards(target)
<1> DEFINE target == IF Decision(m, bar).target > 0 THEN Decision(m, bar).target ELSE FullTarget
<1>1. signal \in {NoSignal, Exit, Towards(target)}
  BY DEF AiSignal
<1>2. Decision(m, bar).target \in Int /\ FullTarget \in Nat \ {0}
  BY DecisionTarget, StrategyAssumption
<1>3. target \in Nat \ {0}
  BY <1>2
<1> QED
  BY <1>1, <1>3

LEMMA AiFollows ==
    ASSUME NEW m \in Memory, NEW bar \in Bar
    PROVE  Follows(m, AiOnBar(m, bar))
<1> DEFINE watched == [m EXCEPT !.closes = Pushed(@, bar.close, AiLookback)]
           signal == AiSignal(watched, bar)
<1>1. CASE ~bar.state
  <2>1. AiOnBar(m, bar) = [memory |-> m, signal |-> NoSignal]
    BY <1>1 DEF AiOnBar
  <2> QED
    BY <2>1 DEF Follows, NoSignal
<1>2. CASE bar.state
  <2>1. AiOnBar(m, bar) = [memory |-> AiAfter(watched, signal), signal |-> signal]
    BY <1>2 DEF AiOnBar
  <2>2. watched \in Memory /\ watched.desired = m.desired
    <3>1. m.closes \in Seq(Close) /\ bar.close \in Close /\ AiLookback \in Nat \ {0, 1}
      BY StrategyAssumption DEF Memory, Bar
    <3>2. Pushed(m.closes, bar.close, AiLookback) \in Seq(Close)
      BY <3>1, PushedFacts
    <3> QED
      BY <3>2 DEF Memory
  <2>3. signal \in {NoSignal, Exit} \/ \E target \in Nat \ {0} : signal = Towards(target)
    BY AiSignals
  <2> HIDE DEF watched, signal
  <2>4. CASE signal = NoSignal
    <3>1. AiAfter(watched, signal) = watched
      BY <2>4 DEF AiAfter, NoSignal
    <3> QED
      BY <2>1, <2>2, <2>4, <3>1 DEF Follows, NoSignal
  <2>5. ASSUME NEW target \in Nat, signal.kind # "none", signal.target = target
        PROVE  /\ AiAfter(watched, signal) \in Memory
               /\ AiAfter(watched, signal).desired = target
    BY <2>2, <2>5 DEF AiAfter, Memory
  <2>6. CASE signal = Exit
    BY <2>1, <2>5, <2>6 DEF Follows, Exit
  <2>7. ASSUME NEW target \in Nat \ {0}, signal = Towards(target)
        PROVE  Follows(m, AiOnBar(m, bar))
    <3>1. signal.kind = "target" /\ signal.target = target
      BY <2>7 DEF Towards
    <3> QED
      BY <2>1, <2>5, <3>1 DEF Follows
  <2> QED
    BY <2>3, <2>4, <2>6, <2>7
<1> QED
  BY <1>1, <1>2 DEF Bar

LEMMA OnBarFollows ==
    ASSUME TypeOK, NEW bar \in Bar
    PROVE  Follows(memory[bar.symbol], OnBar(bar))
<1>1. memory[bar.symbol] \in Memory /\ strategy \in {"baseline", "band", "ai"}
  BY DEF TypeOK, Bar, Strategy
<1>2. CASE strategy = "baseline"
  BY <1>1, <1>2, BaselineFollows DEF OnBar
<1>3. CASE strategy = "band"
  BY <1>1, <1>3, BandFollows DEF OnBar
<1>4. CASE strategy = "ai"
  BY <1>1, <1>4, AiFollows DEF OnBar
<1> QED
  BY <1>1, <1>2, <1>3, <1>4

-----------------------------------------------------------------------------
(* Prices                                                                   *)

LEMMA DayOfTime ==
    ASSUME NEW day \in Nat, NEW minute \in Minutes
    PROVE  day * 1440 + minute \in Nat /\ (day * 1440 + minute) \div 1440 = day
<1>1. minute \in 0 .. 1439
  BY BacktestAssumption
<1> QED
  BY <1>1

LEMMA BarFacts ==
    ASSUME NEW bar \in Bar
    PROVE  /\ bar.close \in Nat \ {0} /\ bar.prev \in Nat \ {0} /\ ValidPrev(bar.prev)
           /\ bar.day \in 1 .. MaxDay /\ bar.day \in 0 .. LastDay /\ ReceivedDay(bar) \in 0 .. LastDay
           /\ Time(bar) \in Nat /\ Time(bar) \div 1440 = bar.day
           /\ bar.symbol \in Symbol /\ bar.state \in BOOLEAN
           /\ Key(bar) \in Symbol \X Nat
<1>0. /\ bar.close \in Close /\ bar.prev \in PrevClose /\ bar.day \in 1 .. MaxDay
      /\ bar.minute \in Minutes /\ bar.symbol \in Symbol /\ bar.state \in BOOLEAN
  BY DEF Bar
<1>1. bar.close \in Nat \ {0} /\ bar.prev \in Nat \ {0} /\ ValidPrev(bar.prev)
  <2>1. Close \subseteq Nat \ {0} /\ PrevClose \subseteq Nat \ {0}
    BY BacktestAssumption
  <2>2. \A p \in PrevClose : ValidPrev(p)
    BY BacktestAssumption
  <2> QED
    BY <1>0, <2>1, <2>2
<1>2. bar.day \in Nat /\ bar.day <= MaxDay /\ MaxDay \in Nat /\ FetchDay \in Nat
  BY <1>0, BacktestAssumption
<1>3. bar.day \in 0 .. LastDay /\ ReceivedDay(bar) \in 0 .. LastDay
  BY <1>2 DEF LastDay, ReceivedDay
<1>4. Time(bar) \in Nat /\ Time(bar) \div 1440 = bar.day
  BY <1>0, <1>2, DayOfTime DEF Time
<1>5. Key(bar) \in Symbol \X Nat
  BY <1>0, <1>4 DEF Key
<1> QED
  BY <1>0, <1>1, <1>3, <1>4, <1>5

LEMMA HalfUpIsNat ==
    ASSUME NEW n \in Nat
    PROVE  HalfUp(n, 10000) \in Nat
<1> DEFINE m == 2 * n + 10000
           d == 2 * 10000
<1>1. m \in Nat /\ d \in Nat \ {0}
  OBVIOUS
<1>2. HalfUp(n, 10000) = m \div d
  BY DEF HalfUp
<1> HIDE DEF m, d
<1>3. m \div d \in Nat
  BY <1>1, DivMod
<1> QED
  BY <1>2, <1>3

LEMMA LimitFacts ==
    ASSUME NEW bar \in Bar
    PROVE  /\ LowerLimit(bar.prev) \in Nat /\ UpperLimit(bar.prev) \in Nat
           /\ LowerLimit(bar.prev) < UpperLimit(bar.prev)
<1> DEFINE up == 10000 + LimitBps
           low == 10000 - LimitBps
<1>1. bar.prev \in Nat /\ up \in Nat /\ low \in Nat /\ ValidPrev(bar.prev)
  BY BarFacts, PriceLimitAssumption
<1>2. LowerLimit(bar.prev) = HalfUp(bar.prev * low, 10000)
  BY DEF LowerLimit
<1>3. UpperLimit(bar.prev) = HalfUp(bar.prev * up, 10000)
  BY DEF UpperLimit
<1> HIDE DEF up, low
<1>4. bar.prev * low \in Nat /\ bar.prev * up \in Nat
  BY <1>1
<1>5. LowerLimit(bar.prev) \in Nat /\ UpperLimit(bar.prev) \in Nat
  BY <1>2, <1>3, <1>4, HalfUpIsNat
<1> QED
  BY <1>1, <1>5 DEF ValidPrev

\* The slippage of a side, in half basis points, leaves a price.
LEMMA HalfBpsFacts ==
    ASSUME NEW bar \in Bar, NEW side \in {"buy", "sell"}
    PROVE  HalfBps(side, bar) \in Nat /\ HalfBps(side, bar) <= 12000
<1> DEFINE move == (IF side = "buy" THEN bar.close - bar.prev ELSE bar.prev - bar.close) * 10000
<1>1. bar.close \in Nat /\ bar.prev \in Nat
  BY BarFacts
<1>2. move \in Int
  <2>1. (IF side = "buy" THEN bar.close - bar.prev ELSE bar.prev - bar.close) \in Int
    BY <1>1
  <2> QED
    BY <2>1
<1>3. SlippageBps \in Nat /\ SlippageBps <= 2000 /\ Tiered \in BOOLEAN
  BY BacktestAssumption
<1>4. HalfBps(side, bar) =
        CASE ~Tiered -> 2 * SlippageBps
          [] Tiered /\ move >= 150 * bar.prev -> 6 * SlippageBps
          [] Tiered /\ move >= 80 * bar.prev /\ move < 150 * bar.prev -> 4 * SlippageBps
          [] Tiered /\ move >= 30 * bar.prev /\ move < 80 * bar.prev -> 3 * SlippageBps
          [] OTHER -> 2 * SlippageBps
  BY DEF HalfBps
<1> HIDE DEF move
<1>5. HalfBps(side, bar) \in {2 * SlippageBps, 3 * SlippageBps, 4 * SlippageBps, 6 * SlippageBps}
  <2>1. CASE ~Tiered
    BY <1>3, <1>4, <2>1
  <2>2. CASE Tiered /\ move >= 150 * bar.prev
    BY <1>1, <1>2, <1>3, <1>4, <2>2
  <2>3. CASE Tiered /\ move < 150 * bar.prev /\ move >= 80 * bar.prev
    BY <1>1, <1>2, <1>3, <1>4, <2>3
  <2>4. CASE Tiered /\ move < 80 * bar.prev /\ move >= 30 * bar.prev
    BY <1>1, <1>2, <1>3, <1>4, <2>4
  <2>5. CASE Tiered /\ move < 30 * bar.prev
    BY <1>1, <1>2, <1>3, <1>4, <2>5
  <2> QED
    BY <1>1, <1>2, <1>3, <2>1, <2>2, <2>3, <2>4, <2>5
<1> QED
  BY <1>3, <1>5

\* What a fill costs: never better than the close, never beyond the limits.
FairFill(side, bar) ==
    /\ LowerLimit(bar.prev) <= Slipped(side, bar) /\ Slipped(side, bar) <= UpperLimit(bar.prev)
    /\ side = "buy" => Slipped(side, bar) >= bar.close
    /\ side = "sell" => Slipped(side, bar) <= bar.close

LEMMA SlippedFacts ==
    ASSUME NEW bar \in Bar, NEW side \in {"buy", "sell"}
    PROVE  /\ Slipped(side, bar) \in Nat
           /\ VenueTakes(bar) => FairFill(side, bar)
<1> DEFINE factor == IF side = "buy" THEN 20000 + HalfBps(side, bar) ELSE 20000 - HalfBps(side, bar)
           n == bar.close * factor
           price == RoundedToTick(n, 20000, side)
           low == LowerLimit(bar.prev)
           up == UpperLimit(bar.prev)
<1>1. bar.close \in Nat /\ HalfBps(side, bar) \in Nat /\ HalfBps(side, bar) <= 12000
  BY BarFacts, HalfBpsFacts
<1>2. factor \in Nat /\ (side = "buy" => factor >= 20000) /\ (side = "sell" => factor <= 20000)
  BY <1>1, side = "buy" \/ side = "sell"
<1>3. low \in Nat /\ up \in Nat /\ low < up
  BY LimitFacts
<1>4. Slipped(side, bar) = Within(price, low, up)
  BY DEF Slipped
<1> HIDE DEF factor
<1>5. /\ n \in Nat
      /\ side = "buy" => n >= bar.close * 20000
      /\ side = "sell" => n <= bar.close * 20000
  BY <1>1, <1>2
<1> HIDE DEF n
<1>6. /\ price \in Nat
      /\ side = "buy" => price >= bar.close
      /\ side = "sell" => price <= bar.close
  <2>1. CASE side = "buy"
    <3>1. price = (n + 20000 - 1) \div 20000
      BY <2>1 DEF RoundedToTick
    <3> QED
      BY <1>1, <1>5, <2>1, <3>1
  <2>2. CASE side = "sell"
    <3>1. price = n \div 20000
      BY <2>2 DEF RoundedToTick
    <3> QED
      BY <1>1, <1>5, <2>2, <3>1
  <2> QED
    BY <2>1, <2>2
<1> HIDE DEF price, low, up
<1>7. /\ Within(price, low, up) \in Nat
      /\ low <= Within(price, low, up) /\ Within(price, low, up) <= up
      /\ low <= bar.close /\ bar.close <= up =>
            /\ price >= bar.close => Within(price, low, up) >= bar.close
            /\ price <= bar.close => Within(price, low, up) <= bar.close
  BY <1>1, <1>3, <1>6 DEF Within
<1>8. VenueTakes(bar) => low <= bar.close /\ bar.close <= up
  BY DEF VenueTakes, low, up
<1> QED
  BY <1>4, <1>6, <1>7, <1>8 DEF FairFill, low, up

-----------------------------------------------------------------------------
(* Positions                                                                *)

LEMMA HoldingReleased ==
    ASSUME NEW p \in Holding, OnGrid(p.qty, p.sellable), NEW date \in 0 .. LastDay,
           NEW r, r = Release(p, date, date)
    PROVE  /\ r \in Holding /\ OnGrid(r.qty, r.sellable)
           /\ r.qty = p.qty /\ r.avg = p.avg /\ r.sellable >= p.sellable
<1>1. CASE p.qty = 0 \/ p.sellable = p.qty \/ p.updated >= date
  BY <1>1 DEF Release, OnGrid
<1>2. CASE ~(p.qty = 0 \/ p.sellable = p.qty \/ p.updated >= date)
  <2>1. r = [p EXCEPT !.sellable = p.qty, !.updated = date]
    BY <1>2 DEF Release
  <2>2. p.qty \in Nat
    BY DEF Holding
  <2>3. r \in Holding /\ r.qty = p.qty /\ r.avg = p.avg /\ r.sellable = p.qty
    BY <2>1, <2>2 DEF Holding
  <2> QED
    BY <2>3 DEF OnGrid
<1> QED
  BY <1>1, <1>2

LEMMA HoldingMarked ==
    ASSUME NEW p \in Holding, NEW bar \in Bar, NEW q, q = Marked(p, bar)
    PROVE  /\ q \in Holding
           /\ q.qty = p.qty /\ q.sellable = p.sellable
           /\ q.updated = IF p.qty = 0 THEN p.updated ELSE bar.day
<1>1. bar.close \in Nat /\ bar.day \in 0 .. LastDay
  BY BarFacts
<1>2. CASE p.qty = 0
  BY <1>2 DEF Marked
<1>3. CASE p.qty # 0
  <2>1. q = [p EXCEPT !.mark = bar.close, !.updated = bar.day]
    BY <1>3 DEF Marked
  <2> QED
    BY <1>1, <1>3, <2>1 DEF Holding
<1> QED
  BY <1>2, <1>3

\* A fill that the ledger accepts leaves a position on the grid.
LEMMA HoldingApplied ==
    ASSUME NEW p \in Holding, OnGrid(p.qty, p.sellable),
           NEW fill, fill.side \in {"buy", "sell"},
           fill.qty \in Nat \ {0}, fill.qty % QtyStep = 0, fill.price \in Nat,
           fill.day \in 0 .. LastDay,
           fill.side = "sell" => fill.qty <= Release(p, fill.day, fill.day).sellable,
           NEW a, a = Applied(p, fill)
    PROVE  a \in Holding /\ OnGrid(a.qty, a.sellable)
<1> DEFINE r == Release(p, fill.day, fill.day)
<1>1. r \in Holding /\ OnGrid(r.qty, r.sellable)
  BY HoldingReleased
<1>2. /\ r.qty \in Nat /\ r.sellable \in Nat /\ r.sellable <= r.qty
      /\ r.qty % QtyStep = 0 /\ r.sellable % QtyStep = 0
      /\ r.avg[1] \in Nat /\ r.avg[2] \in Nat \ {0}
  BY <1>1 DEF OnGrid, Holding
<1>3. QtyStep \in Nat \ {0}
  BY RuleAssumption
<1>4. CASE fill.side = "buy"
  <2> DEFINE n == r.qty * r.avg[1] + fill.qty * fill.price * r.avg[2]
             m == (r.qty + fill.qty) * r.avg[2]
  <2>1. a = [qty |-> r.qty + fill.qty, sellable |-> r.sellable, avg |-> <<n, m>>,
             mark |-> fill.price, updated |-> fill.day]
    BY <1>4 DEF Applied, Bought
  <2> HIDE DEF r
  <2>2. n \in Nat
    BY <1>2
  <2>3. m \in Nat \ {0}
    <3>1. r.qty + fill.qty \in Nat \ {0}
      BY <1>2
    <3> QED
      BY <1>2, <3>1
  <2>4. (r.qty + fill.qty) % QtyStep = 0
    BY <1>2, <1>3, SumOfMultiples
  <2> HIDE DEF n, m
  <2>5. a \in Holding
    BY <1>2, <2>1, <2>2, <2>3 DEF Holding
  <2> QED
    BY <1>2, <2>1, <2>4, <2>5 DEF OnGrid
<1>5. CASE fill.side = "sell"
  <2>1. fill.qty <= r.sellable
    BY <1>5
  <2>2. a = Sold(r, fill)
    BY <1>5 DEF Applied
  <2> HIDE DEF r
  <2>3. CASE fill.qty = r.qty
    <3>1. a = [Flat EXCEPT !.updated = fill.day]
      BY <2>2, <2>3 DEF Sold
    <3>2. /\ a.qty = 0 /\ a.sellable = 0
          /\ a = [qty |-> 0, sellable |-> 0, avg |-> <<0, Grid>>, mark |-> 0, updated |-> fill.day]
      BY <3>1 DEF Flat, NoPrice
    <3>3. a \in Holding
      BY <3>2, FeeAssumption DEF Holding
    <3>4. 0 % QtyStep = 0
      BY <1>3
    <3> QED
      BY <3>2, <3>3, <3>4 DEF OnGrid
  <2>4. CASE fill.qty # r.qty
    <3>1. a = [r EXCEPT !.qty = r.qty - fill.qty, !.sellable = r.sellable - fill.qty,
                        !.mark = fill.price, !.updated = fill.day]
      BY <1>1, <2>2, <2>4 DEF Sold, Holding
    <3>2. r.qty - fill.qty \in Nat /\ r.sellable - fill.qty \in Nat
      BY <1>2, <2>1
    <3>3. (r.qty - fill.qty) % QtyStep = 0 /\ (r.sellable - fill.qty) % QtyStep = 0
      <4>1. fill.qty \in Nat /\ fill.qty <= r.qty
        BY <1>2, <2>1
      <4>2. (r.qty - fill.qty) % QtyStep = 0
        BY <1>2, <1>3, <4>1, DifferenceOfMultiples
      <4>3. (r.sellable - fill.qty) % QtyStep = 0
        BY <1>2, <1>3, <2>1, <4>1, DifferenceOfMultiples
      <4> QED
        BY <4>2, <4>3
    <3>4. /\ a \in Holding
          /\ a.qty = r.qty - fill.qty /\ a.sellable = r.sellable - fill.qty
      <4> DEFINE q == r.qty - fill.qty
                 c == r.sellable - fill.qty
      <4>1. q \in Nat /\ c \in Nat
        BY <3>2
      <4>2. a = [r EXCEPT !.qty = q, !.sellable = c, !.mark = fill.price, !.updated = fill.day]
        BY <3>1
      <4> HIDE DEF q, c
      <4>3. a \in Holding /\ a.qty = q /\ a.sellable = c
        BY <1>1, <4>1, <4>2 DEF Holding
      <4> QED
        BY <4>3 DEF q, c
    <3> QED
      BY <1>2, <3>2, <3>3, <3>4 DEF OnGrid
  <2> QED
    BY <2>3, <2>4
<1> QED
  BY <1>4, <1>5

-----------------------------------------------------------------------------
(* The steps: types and whole lots                                          *)

\* Positions are in whole steps, and no more may be sold than is held.
GridInv == \A s \in Symbol : OnGrid(position[s].qty, position[s].sellable)

Day == [held : Nat, sold : Nat, blind : BOOLEAN]

LEMMA ShownFacts ==
    ASSUME TypeOK, GridInv, NEW bar \in Bar, NEW shown, shown = Shown(bar)
    PROVE  /\ shown \in Holding /\ OnGrid(shown.qty, shown.sellable)
           /\ shown.qty = position[bar.symbol].qty
<1> DEFINE p == position[bar.symbol]
           opened == Opened(p, bar)
<1>1. bar.symbol \in Symbol /\ bar.day \in 0 .. LastDay
  BY BarFacts
<1>2. p \in Holding /\ OnGrid(p.qty, p.sellable)
  BY <1>1 DEF TypeOK, GridInv
<1>3. shown = Marked(opened, bar)
  BY DEF Shown
<1>4. opened = p \/ opened = Release(p, bar.day, bar.day)
  BY DEF Opened
<1> HIDE DEF p, opened
<1>5. opened \in Holding /\ OnGrid(opened.qty, opened.sellable) /\ opened.qty = p.qty
  BY <1>1, <1>2, <1>4, HoldingReleased
<1>6. shown \in Holding /\ shown.qty = opened.qty /\ shown.sellable = opened.sellable
  BY <1>3, <1>5, HoldingMarked
<1> QED
  BY <1>5, <1>6 DEF p

\* What an order asks for, and what its fill is.
LEMMA OrderFacts ==
    ASSUME TypeOK, GridInv, NEW bar \in Bar, Orders(bar),
           NEW fill, fill = Fill(bar)
    PROVE  /\ fill.side = Order(bar).side /\ fill.qty = Order(bar).qty
           /\ fill.symbol = bar.symbol /\ fill.day = ReceivedDay(bar)
           /\ fill.price = Slipped(fill.side, bar)
           /\ fill.side \in {"buy", "sell"}
           /\ fill.qty \in Nat \ {0} /\ fill.qty % QtyStep = 0
           /\ fill.price \in Nat
           /\ fill.day \in 0 .. LastDay
           /\ fill.side = "sell" => fill.qty <= Shown(bar).sellable
<1> DEFINE shown == Shown(bar)
           plan == Order(bar)
<1>1. OnGrid(shown.qty, shown.sellable)
  BY ShownFacts
<1>2. OnBar(bar).signal.target \in Nat
  BY OnBarFollows DEF Follows
<1>3. plan = Plan(shown.qty, shown.sellable, OnBar(bar).signal.target) /\ plan.qty > 0
  BY DEF Order, Orders
<1>4. fill = [symbol |-> bar.symbol, side |-> plan.side, qty |-> plan.qty,
              price |-> Slipped(plan.side, bar), day |-> ReceivedDay(bar)]
  BY DEF Fill
<1> HIDE DEF plan, shown
<1>5. /\ plan.qty \in Nat /\ plan.qty % QtyStep = 0 /\ plan.side \in {"buy", "sell"}
      /\ plan.side = "sell" => plan.qty <= shown.sellable
  BY <1>1, <1>2, <1>3, PlanFacts
<1>6. Slipped(plan.side, bar) \in Nat
  BY <1>5, SlippedFacts
<1>7. ReceivedDay(bar) \in 0 .. LastDay
  BY BarFacts
<1> QED
  BY <1>3, <1>4, <1>5, <1>6, <1>7 DEF plan, shown

LEMMA DaySoFarType ==
    ASSUME TypeOK, NEW bar \in Bar
    PROVE  DaySoFar(bar) \in [Symbol -> Day]
<1>1. \A s \in Symbol : position[s].qty \in Nat
  BY DEF TypeOK, Holding
<1> QED
  BY <1>1 DEF DaySoFar, TypeOK, Day

LEMMA TodayFacts ==
    ASSUME TypeOK, NEW bar \in Bar, NEW sale \in Nat, NEW t, t = TodayWith(bar, sale)
    PROVE  /\ t \in [Symbol -> Day]
           /\ \A s \in Symbol \ {bar.symbol} : t[s] = DaySoFar(bar)[s]
           /\ t[bar.symbol].held = DaySoFar(bar)[bar.symbol].held
           /\ t[bar.symbol].sold = DaySoFar(bar)[bar.symbol].sold + sale
           /\ t[bar.symbol].blind = (DaySoFar(bar)[bar.symbol].blind \/ ~bar.state)
<1> DEFINE day == DaySoFar(bar)
           d == day[bar.symbol]
           blind == d.blind \/ ~bar.state
           total == d.sold + sale
<1>1. day \in [Symbol -> Day] /\ bar.symbol \in Symbol
  BY DaySoFarType, BarFacts
<1>2. d \in Day
  BY <1>1
<1>3. total \in Nat
  BY <1>2 DEF Day
<1>4. blind \in BOOLEAN
  BY Zenon
<1>5. t = [day EXCEPT ![bar.symbol] = [[d EXCEPT !.sold = total] EXCEPT !.blind = blind]]
  BY <1>1, <1>2 DEF TodayWith, Day
<1> HIDE DEF day, blind, total
<1>6. DEFINE e == [[d EXCEPT !.sold = total] EXCEPT !.blind = blind]
<1>7. e \in Day /\ e.held = d.held /\ e.sold = total /\ e.blind = blind
  BY <1>2, <1>3, <1>4 DEF Day
<1> HIDE DEF e, d
<1>8. t = [day EXCEPT ![bar.symbol] = e]
  BY <1>5 DEF e
<1>9. t \in [Symbol -> Day] /\ t[bar.symbol] = e /\ \A s \in Symbol \ {bar.symbol} : t[s] = day[s]
  BY <1>1, <1>7, <1>8
<1> QED
  BY <1>7, <1>9 DEF day, d, blind, total

LEMMA DecidedTypes ==
    ASSUME TypeOK, NEW bar \in Bar, Decided(bar)
    PROVE  /\ seen' \subseteq Symbol \X Nat
           /\ memory' \in [Symbol -> Memory]
           /\ excused' \in [Symbol -> BOOLEAN]
           /\ high' \in [Symbol -> Close \union {0}]
           /\ memory' = [memory EXCEPT ![bar.symbol] = OnBar(bar).memory]
           /\ \A s \in Symbol \ {bar.symbol} : excused'[s] = excused[s] /\ high'[s] = high[s]
<1> DEFINE s == bar.symbol
           exits == IF OnBar(bar).signal.kind = "exit"
                    THEN \/ ~bar.state \/ ~VenueTakes(bar)
                         \/ DaySoFar(bar)[s].blind
                         \/ Shown(bar).qty + DaySoFar(bar)[s].sold > DaySoFar(bar)[s].held
                    ELSE excused[s]
           peak == IF strategy # "baseline" \/ ~(OnBar(bar).memory.desired > 0) THEN 0
                   ELSE IF bar.state THEN Higher(high[s], bar.close) ELSE high[s]
<1>1. s \in Symbol /\ Key(bar) \in Symbol \X Nat /\ bar.close \in Close
  BY BarFacts DEF Bar
<1>2. OnBar(bar).memory \in Memory
  BY OnBarFollows DEF Follows
<1>3. /\ seen' = seen \union {Key(bar)}
      /\ memory' = [memory EXCEPT ![s] = OnBar(bar).memory]
      /\ excused' = [excused EXCEPT ![s] = exits]
      /\ high' = [high EXCEPT ![s] = peak]
  BY <1>1 DEF Decided, TypeOK
<1>4. excused[s] \in BOOLEAN /\ high[s] \in Close \union {0}
  BY <1>1 DEF TypeOK
<1>5. exits \in BOOLEAN
  BY <1>4, Zenon
<1>6. peak \in Close \union {0}
  <2>1. Higher(high[s], bar.close) \in {high[s], bar.close}
    BY DEF Higher
  <2>2. Higher(high[s], bar.close) \in Close \union {0}
    BY <1>1, <1>4, <2>1
  <2> QED
    BY <1>4, <2>2
<1> HIDE DEF exits, peak
<1> QED
  BY <1>1, <1>2, <1>3, <1>5, <1>6 DEF TypeOK

\* Cash never falls below zero.
LEMMA CashType ==
    ASSUME TypeOK, NEW fill, fill.qty * fill.price \in Nat, NEW p, Accepts(p, cash, fill)
    PROVE  CashAfter(cash, fill) \in Nat
<1>1. CashFlow(fill) \in Int
  BY FlowIsInt
<1>2. (IF cash = NoCash THEN 0 ELSE cash) \in Nat
  BY DEF TypeOK
<1>3. (IF cash = NoCash THEN 0 ELSE cash) + CashFlow(fill) >= 0
  BY DEF Accepts
<1> QED
  BY <1>1, <1>2, <1>3 DEF CashAfter

\* The position a filled order leaves.
LEMMA FilledFacts ==
    ASSUME TypeOK, GridInv, NEW bar \in Bar, Orders(bar), Accepts(Shown(bar), cash, Fill(bar)),
           NEW a, a = Applied(Shown(bar), Fill(bar)), NEW p, p = Marked(a, bar)
    PROVE  /\ a \in Holding /\ p \in Holding
           /\ OnGrid(p.qty, p.sellable)
           /\ p.qty = a.qty /\ p.sellable = a.sellable
           /\ p.updated = IF a.qty = 0 THEN a.updated ELSE bar.day
           /\ CashAfter(cash, Fill(bar)) \in Nat
<1> DEFINE shown == Shown(bar)
           fill == Fill(bar)
<1>1. shown \in Holding /\ OnGrid(shown.qty, shown.sellable)
  BY ShownFacts
<1>2. /\ fill.side \in {"buy", "sell"}
      /\ fill.qty \in Nat \ {0} /\ fill.qty % QtyStep = 0 /\ fill.price \in Nat
      /\ fill.day \in 0 .. LastDay
  BY OrderFacts
<1>3. fill.side = "sell" => fill.qty <= Release(shown, fill.day, fill.day).sellable
  BY DEF Accepts
<1>4. fill.qty * fill.price \in Nat
  BY <1>2
<1>5. CashAfter(cash, fill) \in Nat
  BY <1>4, CashType
<1> HIDE DEF shown, fill
<1>6. a = Applied(shown, fill)
  BY DEF shown, fill
<1>7. a \in Holding /\ OnGrid(a.qty, a.sellable)
  BY <1>1, <1>2, <1>3, <1>6, HoldingApplied
<1>8. /\ p \in Holding /\ p.qty = a.qty /\ p.sellable = a.sellable
      /\ p.updated = IF a.qty = 0 THEN a.updated ELSE bar.day
  BY <1>7, HoldingMarked
<1> QED
  BY <1>5, <1>7, <1>8 DEF fill

\* A step that replaces the position of one symbol.
LEMMA OnePosition ==
    ASSUME TypeOK, GridInv, NEW s \in Symbol, NEW p \in Holding, OnGrid(p.qty, p.sellable),
           position' = [position EXCEPT ![s] = p]
    PROVE  position' \in [Symbol -> Holding] /\ GridInv'
<1>1. position' \in [Symbol -> Holding]
  BY DEF TypeOK
<1>2. ASSUME NEW o \in Symbol
      PROVE  OnGrid(position'[o].qty, position'[o].sellable)
  <2>1. CASE o = s
    BY <2>1 DEF TypeOK
  <2>2. CASE o # s
    <3>1. position'[o] = position[o]
      BY <2>2 DEF TypeOK
    <3> QED
      BY <3>1 DEF GridInv
  <2> QED
    BY <2>1, <2>2
<1>3. GridInv'
  BY <1>2 DEF GridInv
<1> QED
  BY <1>1, <1>3

LEMMA GridInit == Init => TypeOK /\ GridInv
<1> SUFFICES ASSUME Init PROVE TypeOK /\ GridInv
  OBVIOUS
<1>1. NewMemory \in Memory
  BY NewMemoryType
<1>2. 0 \in 0 .. LastDay /\ InitialCash \in Nat
  BY BacktestAssumption DEF LastDay
<1>3. Flat \in Holding /\ Flat.qty = 0 /\ Flat.sellable = 0
  BY <1>2, FeeAssumption DEF Flat, NoPrice, Holding
<1>4. 0 % QtyStep = 0
  BY RuleAssumption
<1>5. TypeOK
  BY <1>1, <1>2, <1>3 DEF Init, TypeOK
<1>6. GridInv
  BY <1>3, <1>4 DEF Init, GridInv, OnGrid
<1> QED
  BY <1>5, <1>6

LEMMA GridStep == TypeOK /\ GridInv /\ [Next]_vars => TypeOK' /\ GridInv'
<1> SUFFICES ASSUME TypeOK, GridInv, [Next]_vars
             PROVE  TypeOK' /\ GridInv'
  OBVIOUS
<1>1. ASSUME NEW bar \in Bar, BarSkipped(bar)
      PROVE  TypeOK' /\ GridInv'
  <2>1. /\ Shown(bar) \in Holding /\ OnGrid(Shown(bar).qty, Shown(bar).sellable)
        /\ bar.symbol \in Symbol /\ Time(bar) \in Nat
    BY ShownFacts, BarFacts
  <2>2. /\ position' = [position EXCEPT ![bar.symbol] = Shown(bar)]
        /\ today' = TodayWith(bar, 0)
        /\ now' = Time(bar) /\ failed' = FALSE
        /\ UNCHANGED <<strategy, memory, cash, seen, excused, high>>
    BY <1>1 DEF BarSkipped, Arrives
  <2>3. position' \in [Symbol -> Holding] /\ GridInv'
    BY <2>1, <2>2, OnePosition
  <2>4. today' \in [Symbol -> Day]
    BY <2>2, TodayFacts
  <2> QED
    BY <2>1, <2>2, <2>3, <2>4 DEF TypeOK, Day
<1>2. ASSUME NEW bar \in Bar, BarNotTraded(bar)
      PROVE  TypeOK' /\ GridInv'
  <2>1. /\ Shown(bar) \in Holding /\ OnGrid(Shown(bar).qty, Shown(bar).sellable)
        /\ bar.symbol \in Symbol /\ Time(bar) \in Nat
    BY ShownFacts, BarFacts
  <2>2. /\ position' = [position EXCEPT ![bar.symbol] = Shown(bar)]
        /\ today' = TodayWith(bar, 0)
        /\ now' = Time(bar) /\ failed' = FALSE
        /\ Decided(bar)
        /\ UNCHANGED <<strategy, cash>>
    BY <1>2 DEF BarNotTraded, Arrives
  <2>3. position' \in [Symbol -> Holding] /\ GridInv'
    BY <2>1, <2>2, OnePosition
  <2>4. today' \in [Symbol -> Day]
    BY <2>2, TodayFacts
  <2>5. /\ seen' \subseteq Symbol \X Nat /\ memory' \in [Symbol -> Memory]
        /\ excused' \in [Symbol -> BOOLEAN] /\ high' \in [Symbol -> Close \union {0}]
    BY <2>2, DecidedTypes
  <2> QED
    BY <2>1, <2>2, <2>3, <2>4, <2>5 DEF TypeOK, Day
<1>3. ASSUME NEW bar \in Bar, BarTraded(bar)
      PROVE  TypeOK' /\ GridInv'
  <2> DEFINE p == Marked(Applied(Shown(bar), Fill(bar)), bar)
             sale == IF Order(bar).side = "sell" THEN Order(bar).qty ELSE 0
  <2>1. bar.symbol \in Symbol /\ Time(bar) \in Nat
    BY BarFacts
  <2>2. /\ Orders(bar) /\ Accepts(Shown(bar), cash, Fill(bar))
        /\ position' = [position EXCEPT ![bar.symbol] = p]
        /\ cash' = CashAfter(cash, Fill(bar))
        /\ today' = TodayWith(bar, sale)
        /\ now' = Time(bar) /\ failed' = FALSE
        /\ Decided(bar)
        /\ UNCHANGED strategy
    BY <1>3 DEF BarTraded, Arrives
  <2>3. p \in Holding /\ OnGrid(p.qty, p.sellable) /\ CashAfter(cash, Fill(bar)) \in Nat
    BY <2>2, FilledFacts
  <2>4. sale \in Nat
    BY <2>2, OrderFacts
  <2> HIDE DEF p, sale
  <2>5. position' \in [Symbol -> Holding] /\ GridInv'
    BY <2>1, <2>2, <2>3, OnePosition
  <2>6. today' \in [Symbol -> Day]
    BY <2>2, <2>4, TodayFacts
  <2>7. /\ seen' \subseteq Symbol \X Nat /\ memory' \in [Symbol -> Memory]
        /\ excused' \in [Symbol -> BOOLEAN] /\ high' \in [Symbol -> Close \union {0}]
    BY <2>2, DecidedTypes
  <2> QED
    BY <2>1, <2>2, <2>3, <2>5, <2>6, <2>7 DEF TypeOK, Day
<1>4. ASSUME NEW bar \in Bar, LedgerRaises(bar)
      PROVE  TypeOK' /\ GridInv'
  BY <1>4 DEF LedgerRaises, history, TypeOK, GridInv
<1>5. ASSUME NEW bar \in Bar, OutOfOrder(bar)
      PROVE  TypeOK' /\ GridInv'
  BY <1>5 DEF OutOfOrder, history, TypeOK, GridInv
<1>6. CASE UNCHANGED vars
  BY <1>6 DEF vars, history, TypeOK, GridInv
<1> QED
  BY <1>1, <1>2, <1>3, <1>4, <1>5, <1>6 DEF Next, Step, Silent, Asked, Late

-----------------------------------------------------------------------------
(* T+1                                                                      *)

\* A position and its day: nothing is sold before it is released, and what is
\* left to sell plus what was sold is what was held when the day began, once
\* it was released.
KeptOn(p, t, d) ==
    /\ p.updated <= d
    /\ p.sellable + t.sold <= t.held
    /\ p.updated # d => t.sold = 0 /\ p.qty = t.held
    /\ ~t.blind /\ p.updated = d => p.sellable + t.sold = t.held

DayInv == \A s \in Symbol : KeptOn(position[s], today[s], now \div 1440)

\* A day begins with what is held.
LEMMA DayBegins ==
    ASSUME TypeOK, GridInv, DayInv, NEW bar \in Bar, Time(bar) >= now, NEW s \in Symbol
    PROVE  KeptOn(position[s], DaySoFar(bar)[s], bar.day)
<1>1. now \in Nat /\ Time(bar) \in Nat /\ Time(bar) \div 1440 = bar.day /\ bar.day \in Nat
  BY BarFacts DEF TypeOK
<1>2. now \div 1440 \in Nat /\ now \div 1440 <= bar.day
  BY <1>1
<1>3. KeptOn(position[s], today[s], now \div 1440)
  BY DEF DayInv
<1>4. CASE now \div 1440 = bar.day
  <2>1. DaySoFar(bar) = today
    BY <1>4 DEF DaySoFar
  <2> QED
    BY <1>3, <1>4, <2>1
<1>5. CASE now \div 1440 # bar.day
  <2>1. DaySoFar(bar)[s] = [held |-> position[s].qty, sold |-> 0, blind |-> FALSE]
    BY <1>5 DEF DaySoFar
  <2>2. /\ position[s].qty \in Nat /\ position[s].sellable \in Nat
        /\ position[s].sellable <= position[s].qty /\ position[s].updated \in Nat
    BY DEF TypeOK, GridInv, OnGrid, Holding
  <2>3. position[s].updated < bar.day
    BY <1>1, <1>2, <1>3, <1>5, <2>2 DEF KeptOn
  <2> QED
    BY <1>1, <2>1, <2>2, <2>3 DEF KeptOn
<1> QED
  BY <1>4, <1>5

\* The release and the mark of a bar.
LEMMA ShownKept ==
    ASSUME NEW bar \in Bar, NEW p \in Holding, OnGrid(p.qty, p.sellable),
           NEW t \in Day, KeptOn(p, t, bar.day),
           NEW u \in Day, u.held = t.held, u.sold = t.sold, u.blind = (t.blind \/ ~bar.state),
           NEW q, q = Marked(Opened(p, bar), bar)
    PROVE  /\ KeptOn(q, u, bar.day)
           /\ q.qty = p.qty
           /\ q.qty = 0 \/ q.updated = bar.day
<1>1. bar.day \in 0 .. LastDay /\ bar.day \in Nat /\ bar.state \in BOOLEAN
  BY BarFacts
<1> DEFINE r == Opened(p, bar)
<1>2. r = IF bar.state THEN Release(p, bar.day, bar.day) ELSE p
  BY DEF Opened
<1>3. r \in Holding /\ OnGrid(r.qty, r.sellable) /\ r.qty = p.qty
  BY <1>1, <1>2, HoldingReleased
<1>4. /\ q.qty = r.qty /\ q.sellable = r.sellable
      /\ q.updated = IF r.qty = 0 THEN r.updated ELSE bar.day
  BY <1>3, HoldingMarked
<1> HIDE DEF r
<1>5. /\ p.qty \in Nat /\ p.sellable \in Nat /\ p.sellable <= p.qty /\ p.updated \in Nat
      /\ t.held \in Nat /\ t.sold \in Nat /\ t.blind \in BOOLEAN
  BY DEF OnGrid, Holding, Day
<1>6. CASE p.qty = 0
  <2>1. r = p
    BY <1>2, <1>6 DEF Release
  <2> QED
    BY <1>1, <1>4, <1>5, <1>6, <2>1 DEF KeptOn
<1>7. CASE p.qty # 0 /\ ~bar.state
  <2>1. r = p /\ u.blind
    BY <1>2, <1>7
  <2> QED
    BY <1>1, <1>4, <1>5, <1>7, <2>1 DEF KeptOn
<1>8. CASE p.qty # 0 /\ bar.state /\ p.updated = bar.day
  <2>1. r = p /\ u.blind = t.blind
    BY <1>1, <1>2, <1>5, <1>8 DEF Release
  <2> QED
    BY <1>1, <1>4, <1>5, <1>8, <2>1 DEF KeptOn
<1>9. CASE p.qty # 0 /\ bar.state /\ p.updated # bar.day
  <2>1. p.updated < bar.day /\ t.sold = 0 /\ p.qty = t.held
    BY <1>1, <1>5, <1>9 DEF KeptOn
  <2>2. r.sellable = p.qty
    BY <1>1, <1>2, <1>5, <1>9, <2>1 DEF Release, Holding
  <2> QED
    BY <1>1, <1>3, <1>4, <1>5, <1>9, <2>1, <2>2 DEF KeptOn
<1> QED
  BY <1>1, <1>6, <1>7, <1>8, <1>9

\* A fill on the day of its bar.
LEMMA FilledKept ==
    ASSUME NEW bar \in Bar, NEW q \in Holding, OnGrid(q.qty, q.sellable),
           q.qty = 0 \/ q.updated = bar.day,
           NEW t \in Day, KeptOn(q, t, bar.day),
           NEW fill, fill.day = bar.day, fill.side \in {"buy", "sell"},
           fill.qty \in Nat \ {0}, fill.side = "sell" => fill.qty <= q.sellable,
           NEW u \in Day, u.held = t.held, u.blind = t.blind,
           u.sold = t.sold + (IF fill.side = "sell" THEN fill.qty ELSE 0),
           NEW a, a = Applied(q, fill),
           NEW p, p.qty = a.qty, p.sellable = a.sellable,
           p.updated = IF a.qty = 0 THEN a.updated ELSE bar.day
    PROVE  KeptOn(p, u, bar.day)
<1>1. bar.day \in Nat
  BY BarFacts
<1>2. /\ q.qty \in Nat /\ q.sellable \in Nat /\ q.sellable <= q.qty /\ q.updated \in Nat
      /\ t.held \in Nat /\ t.sold \in Nat /\ t.blind \in BOOLEAN
  BY DEF OnGrid, Holding, Day
<1>3. Release(q, fill.day, fill.day) = q
  BY <1>1, <1>2 DEF Release
<1>4. CASE fill.side = "buy"
  <2>1. a.qty = q.qty + fill.qty /\ a.sellable = q.sellable /\ u.sold = t.sold
    BY <1>2, <1>3, <1>4 DEF Applied, Bought
  <2>2. p.updated = bar.day /\ p.sellable = q.sellable
    BY <1>2, <2>1
  <2> QED
    BY <1>1, <1>2, <2>1, <2>2 DEF KeptOn
<1>5. CASE fill.side = "sell"
  <2>1. fill.qty \in Nat \ {0} /\ fill.qty <= q.sellable /\ u.sold = t.sold + fill.qty
    BY <1>5
  <2>2. q.updated = bar.day
    BY <1>2, <2>1
  <2>3. a = Sold(q, fill)
    BY <1>3, <1>5 DEF Applied
  <2>4. a.sellable = q.sellable - fill.qty /\ a.updated = bar.day
    <3>1. CASE fill.qty = q.qty
      BY <1>2, <2>1, <2>3, <3>1 DEF Sold, Flat
    <3>2. CASE fill.qty # q.qty
      <4>1. a = [q EXCEPT !.qty = q.qty - fill.qty, !.sellable = q.sellable - fill.qty,
                          !.mark = fill.price, !.updated = fill.day]
        BY <2>3, <3>2 DEF Sold, Holding
      <4> QED
        BY <4>1 DEF Holding
    <3> QED
      BY <3>1, <3>2
  <2>5. p.updated = bar.day /\ p.sellable = q.sellable - fill.qty
    BY <2>4
  <2> QED
    BY <1>1, <1>2, <2>1, <2>2, <2>5 DEF KeptOn
<1> QED
  BY <1>4, <1>5

\* The days of the other symbols go on.
LEMMA OtherDays ==
    ASSUME TypeOK, GridInv, DayInv, NEW bar \in Bar, Time(bar) >= now,
           now' = Time(bar), NEW sale \in Nat, today' = TodayWith(bar, sale),
           NEW p \in Holding, position' = [position EXCEPT ![bar.symbol] = p],
           KeptOn(p, TodayWith(bar, sale)[bar.symbol], bar.day)
    PROVE  DayInv'
<1>1. bar.symbol \in Symbol /\ Time(bar) \div 1440 = bar.day
  BY BarFacts
<1>2. ASSUME NEW s \in Symbol
      PROVE  KeptOn(position'[s], today'[s], now' \div 1440)
  <2>1. CASE s = bar.symbol
    BY <1>1, <2>1 DEF TypeOK
  <2>2. CASE s # bar.symbol
    <3>1. position'[s] = position[s]
      BY <2>2 DEF TypeOK
    <3>2. today'[s] = DaySoFar(bar)[s]
      BY <2>2, TodayFacts
    <3>3. KeptOn(position[s], DaySoFar(bar)[s], bar.day)
      BY DayBegins
    <3> QED
      BY <1>1, <3>1, <3>2, <3>3
  <2> QED
    BY <2>1, <2>2
<1> QED
  BY <1>2 DEF DayInv

\* The position that the strategy's signal meets.
LEMMA ShownToday ==
    ASSUME TypeOK, GridInv, DayInv, NEW bar \in Bar, Time(bar) >= now
    PROVE  /\ KeptOn(Shown(bar), TodayWith(bar, 0)[bar.symbol], bar.day)
           /\ Shown(bar).qty = 0 \/ Shown(bar).updated = bar.day
<1> DEFINE s == bar.symbol
           p == position[s]
           t == DaySoFar(bar)[s]
           u == TodayWith(bar, 0)[s]
<1>1. s \in Symbol
  BY BarFacts
<1>2. p \in Holding /\ OnGrid(p.qty, p.sellable)
  BY <1>1 DEF TypeOK, GridInv
<1>3. t \in Day /\ KeptOn(p, t, bar.day)
  BY <1>1, DaySoFarType, DayBegins
<1>4. u \in Day /\ u.held = t.held /\ u.sold = t.sold + 0 /\ u.blind = (t.blind \/ ~bar.state)
  BY <1>1, TodayFacts
<1>5. Shown(bar) = Marked(Opened(p, bar), bar)
  BY DEF Shown
<1> HIDE DEF p, t, u, s
<1>6. u.sold = t.sold
  BY <1>3, <1>4 DEF Day
<1>7. /\ KeptOn(Shown(bar), u, bar.day)
      /\ Shown(bar).qty = 0 \/ Shown(bar).updated = bar.day
  BY <1>2, <1>3, <1>4, <1>5, <1>6, ShownKept
<1> QED
  BY <1>7 DEF u, s

LEMMA DayInit == Init => DayInv
<1> SUFFICES ASSUME Init PROVE DayInv
  OBVIOUS
<1>1. now \div 1440 = 0
  BY DEF Init
<1> QED
  BY <1>1 DEF Init, DayInv, KeptOn, Flat

LEMMA DayStep ==
    ASSUME IngestedAtOnce
    PROVE  TypeOK /\ GridInv /\ DayInv /\ [Next]_vars => DayInv'
<1> SUFFICES ASSUME TypeOK, GridInv, DayInv, [Next]_vars
             PROVE  DayInv'
  OBVIOUS
<1>1. ASSUME NEW bar \in Bar, Time(bar) >= now, now' = Time(bar), today' = TodayWith(bar, 0),
             position' = [position EXCEPT ![bar.symbol] = Shown(bar)]
      PROVE  DayInv'
  <2>1. Shown(bar) \in Holding /\ KeptOn(Shown(bar), TodayWith(bar, 0)[bar.symbol], bar.day)
    BY <1>1, ShownFacts, ShownToday
  <2>2. 0 \in Nat
    OBVIOUS
  <2> QED
    BY <1>1, <2>1, <2>2, OtherDays
<1>2. ASSUME NEW bar \in Bar, BarSkipped(bar)
      PROVE  DayInv'
  BY <1>1, <1>2 DEF BarSkipped, Arrives
<1>3. ASSUME NEW bar \in Bar, BarNotTraded(bar)
      PROVE  DayInv'
  BY <1>1, <1>3 DEF BarNotTraded, Arrives
<1>4. ASSUME NEW bar \in Bar, BarTraded(bar)
      PROVE  DayInv'
  <2> DEFINE fill == Fill(bar)
             a == Applied(Shown(bar), fill)
             p == Marked(a, bar)
             sale == IF Order(bar).side = "sell" THEN Order(bar).qty ELSE 0
             t == TodayWith(bar, 0)[bar.symbol]
             u == TodayWith(bar, sale)[bar.symbol]
             day == DaySoFar(bar)[bar.symbol]
  <2>1. /\ Time(bar) >= now /\ now' = Time(bar)
        /\ Orders(bar) /\ Accepts(Shown(bar), cash, fill)
        /\ position' = [position EXCEPT ![bar.symbol] = p]
        /\ today' = TodayWith(bar, sale)
    BY <1>4 DEF BarTraded, Arrives
  <2>2. /\ fill.side = Order(bar).side /\ fill.qty = Order(bar).qty
        /\ fill.side \in {"buy", "sell"} /\ fill.qty \in Nat \ {0}
        /\ fill.side = "sell" => fill.qty <= Shown(bar).sellable
        /\ fill.day = bar.day
    <3>1. ReceivedDay(bar) = bar.day
      BY BarFacts, BacktestAssumption DEF IngestedAtOnce, ReceivedDay
    <3> QED
      BY <2>1, <3>1, OrderFacts
  <2>3. sale \in Nat /\ 0 \in Nat
    BY <2>2
  <2>4. /\ p \in Holding
        /\ p.qty = a.qty /\ p.sellable = a.sellable
        /\ p.updated = IF a.qty = 0 THEN a.updated ELSE bar.day
    BY <2>1, FilledFacts
  <2>5. bar.symbol \in Symbol
    BY BarFacts
  <2>6. day \in Day
    BY <2>5, DaySoFarType
  <2>7. t \in Day /\ t.held = day.held /\ t.sold = day.sold + 0 /\ t.blind = (day.blind \/ ~bar.state)
    BY <2>3, <2>5, TodayFacts
  <2>8. u \in Day /\ u.held = day.held /\ u.sold = day.sold + sale /\ u.blind = (day.blind \/ ~bar.state)
    BY <2>3, <2>5, TodayFacts
  <2>9. u.held = t.held /\ u.blind = t.blind /\ u.sold = t.sold + (IF fill.side = "sell" THEN fill.qty ELSE 0)
    BY <2>2, <2>6, <2>7, <2>8 DEF Day
  <2>10. /\ Shown(bar) \in Holding /\ OnGrid(Shown(bar).qty, Shown(bar).sellable)
         /\ KeptOn(Shown(bar), t, bar.day)
         /\ Shown(bar).qty = 0 \/ Shown(bar).updated = bar.day
    BY <2>1, ShownFacts, ShownToday
  <2>11. a = Applied(Shown(bar), fill)
    OBVIOUS
  <2> HIDE DEF fill, a, p, sale, t, u, day
  <2>12. KeptOn(p, u, bar.day)
    BY <2>2, <2>4, <2>7, <2>8, <2>9, <2>10, <2>11, FilledKept
  <2> QED
    BY <2>1, <2>3, <2>4, <2>12, OtherDays DEF u
<1>5. ASSUME NEW bar \in Bar, LedgerRaises(bar) \/ OutOfOrder(bar)
      PROVE  DayInv'
  BY <1>5 DEF LedgerRaises, OutOfOrder, history, DayInv
<1>6. CASE UNCHANGED vars
  BY <1>6 DEF vars, history, DayInv
<1> QED
  BY <1>2, <1>3, <1>4, <1>5, <1>6 DEF Next, Step, Silent, Asked, Late

-----------------------------------------------------------------------------
(* The trailing stop                                                        *)

\* The peak that the strategy remembers is the highest close since it entered,
\* and its last close is above the stop under it.
StopInv ==
    strategy = "baseline" =>
        \A s \in Symbol :
            /\ memory[s].desired = 0 => high[s] = 0
            /\ memory[s].desired > 0 =>
                    /\ Len(memory[s].closes) >= Lookback
                    /\ memory[s].peak = high[s]
                    /\ Last(memory[s].closes) * 10000 > high[s] * (10000 - StopBps)

\* The stop of a memory, given the highest close.
Above(m, peak) ==
    /\ m.desired = 0 => peak = 0
    /\ m.desired > 0 =>
            /\ Len(m.closes) >= Lookback
            /\ m.peak = peak
            /\ Last(m.closes) * 10000 > peak * (10000 - StopBps)

LEMMA MemoryFacts ==
    ASSUME NEW m \in Memory
    PROVE  m.closes \in Seq(Close) /\ m.desired \in Nat /\ m.peak \in Nat
<1>1. m.closes \in Seq(Close) /\ m.desired \in Nat /\ m.peak \in Close \union {0}
  BY DEF Memory
<1>2. \A c \in Close : c \in Nat
  BY BacktestAssumption
<1>3. FullTarget \in Nat
  BY StrategyAssumption
<1>4. m.peak \in Close \/ m.peak = 0
  BY <1>1
<1>5. m.peak \in Nat
  BY <1>2, <1>4
<1>6. m.desired \in Nat
  BY <1>1, <1>3
<1> QED
  BY <1>1, <1>5, <1>6

\* One bar of the strategy.
LEMMA BaselineAbove ==
    ASSUME NEW m \in Memory, NEW bar \in Bar, bar.state, NEW peak, Above(m, peak),
           NEW n, n = BaselineOnBar(m, bar).memory
    PROVE  Above(n, IF n.desired > 0 THEN Higher(peak, bar.close) ELSE 0)
<1> DEFINE watched == Watched(m, bar)
           signal == BaselineSignal(watched, bar)
<1>1. n = BaselineAfter(watched, bar, signal)
  BY DEF BaselineOnBar
<1>2. /\ m.closes \in Seq(Close) /\ bar.close \in Close /\ bar.close \in Nat \ {0}
      /\ m.desired \in Nat /\ m.peak \in Nat
      /\ Lookback \in Nat \ {0, 1} /\ StopBps \in 1 .. 9999
  <2>1. m.closes \in Seq(Close) /\ m.desired \in Nat /\ m.peak \in Nat
    BY MemoryFacts
  <2>2. bar.close \in Close
    BY DEF Bar
  <2>3. bar.close \in Nat \ {0}
    BY BarFacts
  <2>4. Lookback \in Nat \ {0, 1} /\ StopBps \in 1 .. 9999
    BY StrategyAssumption
  <2> QED
    BY <2>1, <2>2, <2>3, <2>4
<1>3. /\ watched \in Memory /\ watched.desired = m.desired
      /\ watched.closes = Pushed(m.closes, bar.close, Lookback)
      /\ watched.peak = IF m.desired > 0 THEN Higher(m.peak, bar.close) ELSE m.peak
  BY WatchedType
<1>4. /\ watched.closes \in Seq(Close)
      /\ Last(watched.closes) = bar.close
      /\ Len(m.closes) >= Lookback => Len(watched.closes) >= Lookback
  BY <1>2, <1>3, PushedFacts DEF Last
<1>5. \/ signal = NoSignal /\ (Len(watched.closes) >= Lookback => watched.desired = 0)
      \/ signal = Exit
      \/ \E target \in Nat \ {0} :
            /\ signal = Towards(target)
            /\ Len(watched.closes) >= Lookback
            /\ ~ExitDue(watched, bar)
  BY <1>3, BaselineSignals
<1> HIDE DEF watched, signal
<1>6. CASE signal = NoSignal /\ (Len(watched.closes) >= Lookback => watched.desired = 0)
  <2>1. n = watched
    BY <1>1, <1>6 DEF BaselineAfter, NoSignal
  <2>2. watched.desired = 0
    BY <1>2, <1>3, <1>4, <1>6 DEF Above
  <2> QED
    BY <2>1, <2>2 DEF Above
<1>7. CASE signal = Exit
  <2>1. n = Cleared(watched)
    BY <1>1, <1>7 DEF BaselineAfter, Exit
  <2>2. n.desired = 0
    BY <1>3, <2>1, ClearedType
  <2> QED
    BY <2>2 DEF Above
<1>8. ASSUME NEW target \in Nat \ {0}, signal = Towards(target),
             Len(watched.closes) >= Lookback, ~ExitDue(watched, bar)
      PROVE  Above(n, IF n.desired > 0 THEN Higher(peak, bar.close) ELSE 0)
  <2> DEFINE top == IF watched.desired = 0 THEN bar.close ELSE Higher(watched.peak, bar.close)
  <2>1. n = Stored(watched, bar, target)
    BY <1>1, <1>8 DEF BaselineAfter, Towards
  <2>2. n = [watched EXCEPT !.desired = target, !.peak = top]
    BY <1>3, <2>1 DEF Stored, Memory
  <2> HIDE DEF top
  <2>3. n.desired = target /\ n.peak = top /\ n.closes = watched.closes
    BY <1>3, <2>2 DEF Memory
  <2>4. target > 0
    BY <1>8, StrategyAssumption
  <2>5. CASE m.desired = 0
    <3>1. peak = 0
      BY <2>5 DEF Above
    <3>2. top = bar.close /\ Higher(peak, bar.close) = bar.close
      <4>1. top = bar.close
        BY <1>3, <2>5 DEF top
      <4>2. bar.close \in Nat
        BY <1>2
      <4>3. Higher(0, bar.close) = bar.close
        BY <4>2 DEF Higher
      <4> QED
        BY <3>1, <4>1, <4>3
    <3>3. bar.close * 10000 > bar.close * (10000 - StopBps)
      BY <1>2
    <3>4. n.desired = target /\ n.peak = bar.close /\ Len(n.closes) >= Lookback
      BY <1>8, <2>3, <3>2
    <3>5. Last(n.closes) = bar.close
      BY <1>4, <2>3
    <3> QED
      BY <2>4, <3>2, <3>3, <3>4, <3>5 DEF Above
  <2>6. CASE m.desired > 0
    <3>1. peak = m.peak
      BY <2>6 DEF Above
    <3>2. watched.peak = Higher(peak, bar.close)
      BY <1>3, <2>6, <3>1
    <3>3. top = Higher(peak, bar.close)
      BY <1>2, <1>3, <2>6, <3>1, <3>2 DEF top, Higher
    <3>4. ~StopHit(watched, bar)
      BY <1>3, <1>8, <2>6 DEF ExitDue
    <3>5. bar.close * 10000 > top * (10000 - StopBps)
      <4>1. ~(bar.close * 10000 <= top * (10000 - StopBps))
        BY <3>2, <3>3, <3>4 DEF StopHit
      <4>2. top \in Nat
        BY <1>2, <3>1, <3>3 DEF Higher
      <4> QED
        BY <1>2, <4>1, <4>2
    <3> QED
      BY <1>4, <1>8, <2>3, <2>4, <3>3, <3>5 DEF Above
  <2> QED
    BY <1>2, <2>5, <2>6
<1> QED
  BY <1>5, <1>6, <1>7, <1>8

LEMMA StopInit == Init => StopInv
<1> SUFFICES ASSUME Init PROVE StopInv
  OBVIOUS
<1>1. \A s \in Symbol : memory[s].desired = 0 /\ high[s] = 0
  BY DEF Init, NewMemory
<1> QED
  BY <1>1 DEF StopInv

\* What a decided bar makes of the memory of its symbol and of its peak.
LEMMA StopDecided ==
    ASSUME TypeOK, StopInv, NEW bar \in Bar, Decided(bar), UNCHANGED strategy
    PROVE  StopInv'
<1> SUFFICES ASSUME strategy = "baseline", NEW s \in Symbol
             PROVE  Above(memory'[s], high'[s])
  BY DEF StopInv, Above
<1>1. Above(memory[s], high[s]) /\ memory[s] \in Memory /\ high[s] \in Close \union {0}
  BY DEF StopInv, Above, TypeOK
<1>2. CASE s # bar.symbol
  <2>1. memory'[s] = memory[s] /\ high'[s] = high[s]
    BY <1>2, DecidedTypes DEF TypeOK
  <2> QED
    BY <1>1, <2>1
<1>3. CASE s = bar.symbol
  <2> DEFINE n == OnBar(bar).memory
             peak == IF strategy # "baseline" \/ ~(n.desired > 0) THEN 0
                     ELSE IF bar.state THEN Higher(high[s], bar.close) ELSE high[s]
  <2>1. memory'[s] = n
    BY <1>3, DecidedTypes DEF TypeOK
  <2>2. high'[s] = peak
    BY <1>3 DEF Decided, TypeOK
  <2>3. OnBar(bar) = BaselineOnBar(memory[s], bar)
    BY <1>3 DEF OnBar
  <2>4. bar.state \in BOOLEAN
    BY BarFacts
  <2>5. CASE bar.state
    <3>1. Above(n, IF n.desired > 0 THEN Higher(high[s], bar.close) ELSE 0)
      BY <1>1, <2>3, <2>5, BaselineAbove
    <3>2. peak = IF n.desired > 0 THEN Higher(high[s], bar.close) ELSE 0
      BY <2>5
    <3> HIDE DEF n, peak
    <3> QED
      BY <2>1, <2>2, <3>1, <3>2
  <2>6. CASE ~bar.state
    <3>1. n = memory[s]
      BY <2>3, <2>6 DEF BaselineOnBar
    <3>2. memory[s].desired \in Nat
      BY <1>1, StrategyAssumption DEF Memory
    <3>3. peak = high[s]
      <4>1. CASE memory[s].desired > 0
        BY <2>6, <3>1, <4>1
      <4>2. CASE ~(memory[s].desired > 0)
        BY <1>1, <3>1, <3>2, <4>2 DEF Above
      <4> QED
        BY <4>1, <4>2
    <3> HIDE DEF n, peak
    <3> QED
      BY <1>1, <2>1, <2>2, <3>1, <3>3
  <2> QED
    BY <2>4, <2>5, <2>6
<1> QED
  BY <1>2, <1>3

LEMMA StopStep == TypeOK /\ StopInv /\ [Next]_vars => StopInv'
<1> SUFFICES ASSUME TypeOK, StopInv, [Next]_vars
             PROVE  StopInv'
  OBVIOUS
<1>1. ASSUME NEW bar \in Bar, BarSkipped(bar)
      PROVE  StopInv'
  BY <1>1 DEF BarSkipped, Arrives, StopInv
<1>2. ASSUME NEW bar \in Bar, BarNotTraded(bar) \/ BarTraded(bar)
      PROVE  StopInv'
  <2>1. Decided(bar) /\ UNCHANGED strategy
    BY <1>2 DEF BarNotTraded, BarTraded, Arrives
  <2> QED
    BY <2>1, StopDecided
<1>3. ASSUME NEW bar \in Bar, LedgerRaises(bar) \/ OutOfOrder(bar)
      PROVE  StopInv'
  BY <1>3 DEF LedgerRaises, OutOfOrder, history, StopInv
<1>4. CASE UNCHANGED vars
  BY <1>4 DEF vars, history, StopInv
<1> QED
  BY <1>1, <1>2, <1>3, <1>4 DEF Next, Step, Silent, Asked, Late

-----------------------------------------------------------------------------
(* Exits                                                                    *)

\* A position of which all may be sold is sold as a whole.
LEMMA PlanSellsAll ==
    ASSUME AllowOddLotSell, MinQty = LotSize, NEW qty \in Nat, qty % QtyStep = 0
    PROVE  Plan(qty, qty, 0).side = "sell" /\ Plan(qty, qty, 0).qty = qty
<1>1. QtyStep \in Nat \ {0} /\ MinQty \in Nat \ {0} /\ LotSize \in Nat \ {0}
  BY RuleAssumption
<1>2. DesiredSell(qty, qty, 0) = qty
  BY DEF DesiredSell
<1>3. /\ Plan(qty, qty, 0).side = "sell"
      /\ Plan(qty, qty, 0).qty = IF OddLotSell(qty, qty, 0) THEN qty ELSE WholeSteps(qty)
  BY <1>2 DEF Plan
<1>4. CASE qty = 0
  <2>1. WholeSteps(qty) = 0
    BY <1>1, <1>4, NoOrderBelowStep
  <2> QED
    BY <1>3, <1>4, <2>1
<1>5. CASE qty # 0 /\ qty < LotSize
  <2>1. OddLotSell(qty, qty, 0)
    BY <1>2, <1>5 DEF OddLotSell
  <2> QED
    BY <1>3, <2>1
<1>6. CASE qty >= LotSize
  <2>1. WholeSteps(qty) = qty
    <3>1. WholeSteps(qty) \in Nat /\ WholeSteps(qty) <= qty
      BY WholeStepsFacts
    <3>2. qty <= WholeSteps(qty)
      BY <1>6, WholeStepsFacts
    <3> QED
      BY <3>1, <3>2
  <2> QED
    BY <1>3, <2>1
<1> QED
  BY <1>1, <1>4, <1>5, <1>6

\* An exit that nothing excuses meets a position of which all may be sold.
LEMMA ExitMeetsAll ==
    ASSUME TypeOK, GridInv, DayInv, NEW bar \in Bar, Time(bar) >= now, bar.state,
           ~DaySoFar(bar)[bar.symbol].blind,
           Shown(bar).qty + DaySoFar(bar)[bar.symbol].sold <= DaySoFar(bar)[bar.symbol].held
    PROVE  Shown(bar).sellable = Shown(bar).qty
<1> DEFINE shown == Shown(bar)
           t == DaySoFar(bar)[bar.symbol]
           u == TodayWith(bar, 0)[bar.symbol]
<1>1. /\ shown.qty \in Nat /\ shown.sellable \in Nat /\ shown.sellable <= shown.qty
  BY ShownFacts DEF OnGrid
<1>2. bar.symbol \in Symbol /\ 0 \in Nat
  BY BarFacts
<1>3. t \in Day
  BY <1>2, DaySoFarType
<1>4. u.held = t.held /\ u.sold = t.sold + 0 /\ u.blind = (t.blind \/ ~bar.state)
  BY <1>2, TodayFacts
<1>5. KeptOn(shown, u, bar.day) /\ (shown.qty = 0 \/ shown.updated = bar.day)
  BY ShownToday
<1>6. ~t.blind /\ shown.qty + t.sold <= t.held
  OBVIOUS
<1> HIDE DEF shown, t, u
<1>7. t.held \in Nat /\ t.sold \in Nat
  BY <1>3 DEF Day
<1>8. CASE shown.qty = 0
  BY <1>1, <1>8 DEF shown
<1>9. CASE shown.updated = bar.day
  <2>1. ~u.blind
    BY <1>4, <1>6
  <2>2. shown.sellable + u.sold = u.held
    BY <1>5, <1>9, <2>1 DEF KeptOn
  <2>3. shown.sellable = shown.qty
    BY <1>1, <1>4, <1>6, <1>7, <2>2
  <2> QED
    BY <2>3 DEF shown
<1> QED
  BY <1>5, <1>8, <1>9

\* What an exit leaves when nothing excuses it.
LEMMA ExitOrders ==
    ASSUME TypeOK, GridInv, DayInv, AllowOddLotSell, MinQty = LotSize,
           NEW bar \in Bar, Time(bar) >= now, bar.state, OnBar(bar).signal.kind = "exit",
           ~DaySoFar(bar)[bar.symbol].blind,
           Shown(bar).qty + DaySoFar(bar)[bar.symbol].sold <= DaySoFar(bar)[bar.symbol].held
    PROVE  /\ ~Orders(bar) => Shown(bar).qty = 0
           /\ Orders(bar) => Fill(bar).side = "sell" /\ Fill(bar).qty = Shown(bar).qty
<1>1. Shown(bar).qty \in Nat /\ Shown(bar).qty % QtyStep = 0
  BY ShownFacts DEF OnGrid
<1>2. Shown(bar).sellable = Shown(bar).qty
  BY ExitMeetsAll
<1>3. OnBar(bar).signal.target = 0
  BY OnBarFollows DEF Follows
<1>4. Order(bar) = Plan(Shown(bar).qty, Shown(bar).qty, 0)
  BY <1>2, <1>3 DEF Order
<1>5. Order(bar).side = "sell" /\ Order(bar).qty = Shown(bar).qty
  BY <1>1, <1>4, PlanSellsAll
<1> QED
  BY <1>1, <1>5 DEF Orders, Fill

\* A sale of the whole position closes it.
LEMMA SoldOut ==
    ASSUME TypeOK, GridInv, NEW bar \in Bar, Orders(bar), Accepts(Shown(bar), cash, Fill(bar)),
           Fill(bar).side = "sell", Fill(bar).qty = Shown(bar).qty
    PROVE  Marked(Applied(Shown(bar), Fill(bar)), bar).qty = 0
<1> DEFINE r == Release(Shown(bar), Fill(bar).day, Fill(bar).day)
           a == Applied(Shown(bar), Fill(bar))
<1>1. r.qty = Shown(bar).qty
  <2>1. /\ Shown(bar) \in Holding /\ OnGrid(Shown(bar).qty, Shown(bar).sellable)
        /\ Fill(bar).day \in 0 .. LastDay
    BY ShownFacts, OrderFacts
  <2> QED
    BY <2>1, HoldingReleased
<1>2. a = Sold(r, Fill(bar))
  BY DEF Applied
<1> HIDE DEF r
<1>3. a.qty = 0
  BY <1>1, <1>2 DEF Sold, Flat
<1> HIDE DEF a
<1>4. Marked(a, bar).qty = 0
  BY <1>3 DEF Marked
<1> QED
  BY <1>4 DEF a

\* ExitsReach, for one symbol.
Reached(s) == memory[s].desired = 0 /\ position[s].qty > 0 => excused[s]

\* A bar that was decided keeps it, when it leaves the position as it was and
\* an exit that nothing excuses leaves none.
LEMMA ReachedDecided ==
    ASSUME TypeOK, NEW bar \in Bar, Decided(bar), NEW s \in Symbol, Reached(s),
           NEW p \in Holding, position' = [position EXCEPT ![bar.symbol] = p],
           OnBar(bar).signal.kind = "none" => p.qty = position[bar.symbol].qty,
           OnBar(bar).signal.kind = "exit" =>
               \/ ~bar.state \/ ~VenueTakes(bar)
               \/ DaySoFar(bar)[bar.symbol].blind
               \/ Shown(bar).qty + DaySoFar(bar)[bar.symbol].sold > DaySoFar(bar)[bar.symbol].held
               \/ p.qty = 0
    PROVE  Reached(s)'
<1>1. CASE s # bar.symbol
  <2>1. memory'[s] = memory[s] /\ excused'[s] = excused[s] /\ position'[s] = position[s]
    BY <1>1, DecidedTypes DEF TypeOK
  <2> QED
    BY <2>1 DEF Reached
<1>2. CASE s = bar.symbol
  <2> DEFINE n == OnBar(bar).memory
             kind == OnBar(bar).signal.kind
             excuse == \/ ~bar.state \/ ~VenueTakes(bar)
                       \/ DaySoFar(bar)[s].blind
                       \/ Shown(bar).qty + DaySoFar(bar)[s].sold > DaySoFar(bar)[s].held
  <2>1. memory'[s] = n /\ position'[s] = p
    BY <1>2, DecidedTypes DEF TypeOK
  <2>2. excused'[s] = IF kind = "exit" THEN excuse ELSE excused[s]
    BY <1>2 DEF Decided, TypeOK
  <2>3. /\ kind \in {"none", "exit", "target"}
        /\ kind = "none" => n.desired = memory[s].desired
        /\ kind = "target" => n.desired > 0
        /\ n \in Memory
    BY <1>2, OnBarFollows DEF Follows
  <2>4. kind = "exit" => excuse \/ p.qty = 0
    BY <1>2
  <2>5. kind = "none" => p.qty = position[s].qty
    BY <1>2
  <2>6. n.desired \in Nat /\ p.qty \in Nat
    BY <2>3, StrategyAssumption DEF Memory, Holding
  <2> HIDE DEF n, kind, excuse
  <2>7. CASE kind = "none"
    BY <2>1, <2>2, <2>3, <2>5, <2>7 DEF Reached
  <2>8. CASE kind = "exit"
    <3>1. CASE excuse
      BY <2>2, <2>8, <3>1 DEF Reached
    <3>2. CASE p.qty = 0
      BY <2>1, <3>2 DEF Reached
    <3> QED
      BY <2>4, <2>8, <3>1, <3>2
  <2>9. CASE kind = "target"
    BY <2>1, <2>3, <2>6, <2>9 DEF Reached
  <2> QED
    BY <2>3, <2>7, <2>8, <2>9
<1> QED
  BY <1>1, <1>2

LEMMA ExitsStep ==
    ASSUME IngestedAtOnce, MinQty = LotSize
    PROVE  TypeOK /\ GridInv /\ DayInv /\ ExitsReach /\ [Next]_vars => ExitsReach'
<1> SUFFICES ASSUME TypeOK, GridInv, DayInv, ExitsReach, [Next]_vars, AllowOddLotSell,
                    NEW s \in Symbol
             PROVE  Reached(s)'
  BY DEF ExitsReach, Reached
<1>1. Reached(s)
  BY DEF ExitsReach, Reached
<1>2. ASSUME NEW bar \in Bar, BarSkipped(bar)
      PROVE  Reached(s)'
  <2>1. /\ position' = [position EXCEPT ![bar.symbol] = Shown(bar)]
        /\ UNCHANGED <<memory, excused>>
    BY <1>2 DEF BarSkipped
  <2>2. Shown(bar).qty = position[bar.symbol].qty
    BY ShownFacts
  <2>3. position'[s].qty = position[s].qty
    BY <2>1, <2>2 DEF TypeOK
  <2> QED
    BY <1>1, <2>1, <2>3 DEF Reached
<1>3. ASSUME NEW bar \in Bar, BarNotTraded(bar)
      PROVE  Reached(s)'
  <2>1. /\ Decided(bar) /\ Time(bar) >= now
        /\ ~(Orders(bar) /\ VenueTakes(bar))
        /\ position' = [position EXCEPT ![bar.symbol] = Shown(bar)]
    BY <1>3 DEF BarNotTraded, Arrives
  <2>2. Shown(bar) \in Holding /\ Shown(bar).qty = position[bar.symbol].qty
    BY ShownFacts
  <2>3. OnBar(bar).signal.kind = "exit" =>
            \/ ~bar.state \/ ~VenueTakes(bar)
            \/ DaySoFar(bar)[bar.symbol].blind
            \/ Shown(bar).qty + DaySoFar(bar)[bar.symbol].sold > DaySoFar(bar)[bar.symbol].held
            \/ Shown(bar).qty = 0
    <3> SUFFICES ASSUME OnBar(bar).signal.kind = "exit", bar.state, VenueTakes(bar),
                        ~DaySoFar(bar)[bar.symbol].blind,
                        ~(Shown(bar).qty + DaySoFar(bar)[bar.symbol].sold
                              > DaySoFar(bar)[bar.symbol].held)
                 PROVE  Shown(bar).qty = 0
      BY Zenon
    <3>1. Shown(bar).qty + DaySoFar(bar)[bar.symbol].sold <= DaySoFar(bar)[bar.symbol].held
      BY <2>2, BarFacts, DaySoFarType DEF Holding, Day
    <3>2. ~Orders(bar)
      BY <2>1
    <3> QED
      BY <2>1, <3>1, <3>2, ExitOrders
  <2> QED
    BY <1>1, <2>1, <2>2, <2>3, ReachedDecided
<1>4. ASSUME NEW bar \in Bar, BarTraded(bar)
      PROVE  Reached(s)'
  <2> DEFINE p == Marked(Applied(Shown(bar), Fill(bar)), bar)
  <2>1. /\ Decided(bar) /\ Time(bar) >= now /\ Orders(bar)
        /\ Accepts(Shown(bar), cash, Fill(bar))
        /\ position' = [position EXCEPT ![bar.symbol] = p]
    BY <1>4 DEF BarTraded, Arrives
  <2>2. p \in Holding
    BY <2>1, FilledFacts
  <2>3. Shown(bar) \in Holding
    BY ShownFacts
  <2>4. OnBar(bar).signal.kind # "none"
    BY <2>1 DEF Orders
  <2>5. OnBar(bar).signal.kind = "exit" =>
            \/ ~bar.state \/ ~VenueTakes(bar)
            \/ DaySoFar(bar)[bar.symbol].blind
            \/ Shown(bar).qty + DaySoFar(bar)[bar.symbol].sold > DaySoFar(bar)[bar.symbol].held
            \/ p.qty = 0
    <3> SUFFICES ASSUME OnBar(bar).signal.kind = "exit", bar.state,
                        ~DaySoFar(bar)[bar.symbol].blind,
                        ~(Shown(bar).qty + DaySoFar(bar)[bar.symbol].sold
                              > DaySoFar(bar)[bar.symbol].held)
                 PROVE  p.qty = 0
      BY Zenon
    <3>1. Shown(bar).qty + DaySoFar(bar)[bar.symbol].sold <= DaySoFar(bar)[bar.symbol].held
      BY <2>3, BarFacts, DaySoFarType DEF Holding, Day
    <3>2. Fill(bar).side = "sell" /\ Fill(bar).qty = Shown(bar).qty
      BY <2>1, <3>1, ExitOrders
    <3> QED
      BY <2>1, <3>2, SoldOut
  <2> HIDE DEF p
  <2> QED
    BY <1>1, <2>1, <2>2, <2>4, <2>5, ReachedDecided
<1>5. ASSUME NEW bar \in Bar, LedgerRaises(bar) \/ OutOfOrder(bar)
      PROVE  Reached(s)'
  BY <1>1, <1>5 DEF LedgerRaises, OutOfOrder, history, Reached
<1>6. CASE UNCHANGED vars
  BY <1>1, <1>6 DEF vars, history, Reached
<1> QED
  BY <1>2, <1>3, <1>4, <1>5, <1>6 DEF Next, Step, Silent, Asked, Late

-----------------------------------------------------------------------------
(* The account of a replay                                                  *)

LongRow == {p \in [qty : Nat, sellable : Nat, avg : Ratio, mark : Nat, updated : Int] :
               p.sellable <= p.qty}
Point == [time : Int, cash : Nat, equity : Nat, realized : Ratio, unrealized : Ratio,
          drawdown : Nat \X (Nat \ {0})]
ReplayAccount ==
    [position : [Symbol -> LongRow], realized : [Symbol -> Ratio], cash : Nat,
     peak : Nat \ {0}, fills : Seq(FilledOrder), outcomes : Seq(Ratio),
     curve : Seq(Point), raised : BOOLEAN]

LEMMA RowReleased ==
    ASSUME NEW p \in LongRow, NEW date \in Int, NEW r, r = Release(p, date, date)
    PROVE  /\ r \in LongRow
           /\ r.qty = p.qty /\ r.avg = p.avg /\ r.mark = p.mark
<1>1. CASE r = p
  BY <1>1
<1>2. CASE r = [p EXCEPT !.sellable = p.qty, !.updated = date]
  <2>1. PICK n : n = p.qty
    OBVIOUS
  <2>2. n \in Nat
    BY <2>1 DEF LongRow
  <2>3. r = [p EXCEPT !.sellable = n, !.updated = date]
    BY <1>2, <2>1
  <2>4. r.qty = n /\ r.sellable = n /\ r.avg = p.avg /\ r.mark = p.mark
    BY <2>1, <2>3 DEF LongRow
  <2>5. r \in [qty : Nat, sellable : Nat, avg : Ratio, mark : Nat, updated : Int]
    BY <2>2, <2>3 DEF LongRow
  <2>6. r \in LongRow
    BY <2>2, <2>4, <2>5 DEF LongRow
  <2> QED
    BY <2>1, <2>4, <2>6
<1> QED
  BY <1>1, <1>2 DEF Release

LEMMA RowMarked ==
    ASSUME NEW p \in LongRow, NEW bar \in ReplayBar, NEW q, q = Marked(p, bar)
    PROVE  /\ q \in LongRow
           /\ q.qty = p.qty /\ q.avg = p.avg /\ q.sellable = p.sellable
<1>1. bar.close \in Nat /\ bar.day \in Int
  BY DEF ReplayBar
<1> QED
  BY <1>1 DEF Marked, LongRow

LEMMA FlatIsLong == Flat \in LongRow
  BY FeeAssumption DEF Flat, NoPrice, LongRow, Ratio

LEMMA RowApplied ==
    ASSUME NEW p \in LongRow, NEW fill \in FilledOrder,
           fill.side = "sell" => fill.qty <= Release(p, fill.day, fill.day).sellable,
           NEW a, a = Applied(p, fill)
    PROVE  a \in LongRow
<1>1. /\ fill.side \in {"buy", "sell"} /\ fill.qty \in Nat \ {0} /\ fill.price \in Nat
      /\ fill.day \in Int
  BY DEF FilledOrder
<1>2. PICK r : r = Release(p, fill.day, fill.day)
  OBVIOUS
<1>3. r \in LongRow
  BY <1>1, <1>2, RowReleased
<1>4. /\ r.qty \in Nat /\ r.sellable \in Nat /\ r.sellable <= r.qty
      /\ r.avg[1] \in Int /\ r.avg[2] \in Nat \ {0} /\ r.avg \in Ratio /\ r.mark \in Nat
  BY <1>3 DEF LongRow, Ratio
<1>5. CASE fill.side = "buy"
  <2> DEFINE n == r.qty * r.avg[1] + fill.qty * fill.price * r.avg[2]
             m == (r.qty + fill.qty) * r.avg[2]
  <2>1. a = [qty |-> r.qty + fill.qty, sellable |-> r.sellable, avg |-> <<n, m>>,
             mark |-> fill.price, updated |-> fill.day]
    BY <1>2, <1>5 DEF Applied, Bought
  <2>2. n \in Int
    BY <1>1, <1>4
  <2>3. m \in Nat \ {0}
    <3>1. r.qty + fill.qty \in Nat \ {0}
      BY <1>1, <1>4
    <3> QED
      BY <1>4, <3>1
  <2> HIDE DEF n, m
  <2>4. <<n, m>> \in Ratio
    BY <2>2, <2>3 DEF Ratio
  <2> QED
    BY <1>1, <1>4, <2>1, <2>4 DEF LongRow
<1>6. CASE fill.side = "sell"
  <2>1. fill.qty <= r.sellable /\ a = Sold(r, fill)
    BY <1>2, <1>6 DEF Applied
  <2>2. CASE fill.qty = r.qty
    <3>1. a = [Flat EXCEPT !.updated = fill.day]
      BY <2>1, <2>2 DEF Sold
    <3> QED
      BY <1>1, <3>1, FlatIsLong DEF LongRow
  <2>3. CASE fill.qty # r.qty
    <3>1. PICK q, c : q = r.qty - fill.qty /\ c = r.sellable - fill.qty
      OBVIOUS
    <3>2. q \in Nat /\ c \in Nat /\ c <= q
      BY <1>1, <1>4, <2>1, <3>1
    <3>3. a = [r EXCEPT !.qty = q, !.sellable = c, !.mark = fill.price, !.updated = fill.day]
      BY <1>3, <2>1, <2>3, <3>1 DEF Sold, LongRow
    <3> QED
      BY <1>1, <1>3, <3>2, <3>3 DEF LongRow
  <2> QED
    BY <2>2, <2>3
<1> QED
  BY <1>1, <1>5, <1>6

LEMMA FilledFlow ==
    ASSUME NEW fill \in FilledOrder
    PROVE  CashFlow(fill) \in Int /\ TotalFee(fill) \in Int
<1>1. /\ fill.side \in {"buy", "sell"} /\ fill.qty \in Nat /\ fill.price \in Nat
  BY DEF FilledOrder
<1> DEFINE notional == fill.qty * fill.price
<1>2. notional \in Nat
  BY <1>1
<1> HIDE DEF notional
<1>3. \A rate \in Nat : Fee(notional, rate) \in Int
  BY <1>2 DEF Fee
<1>4. /\ Fee(notional, CommissionRate) \in Int /\ Fee(notional, TransferRate) \in Int
      /\ Fee(notional, StampRate) \in Int
  BY <1>3, FeeAssumption
<1>5. CashFlow(fill) \in Int
  BY <1>2, <1>4 DEF CashFlow, notional
<1> QED
  BY <1>2, <1>5 DEF TotalFee, notional

LEMMA DeltaType ==
    ASSUME NEW p \in LongRow, NEW fill \in FilledOrder
    PROVE  RealizedDelta(p, fill) \in Ratio
<1>1. TotalFee(fill) \in Int /\ fill.price \in Nat /\ fill.qty \in Nat
  BY FilledFlow DEF FilledOrder
<1>2. p.avg[1] \in Int /\ p.avg[2] \in Nat \ {0}
  BY DEF LongRow, Ratio
<1>3. (fill.price * p.avg[2] - p.avg[1]) * fill.qty - TotalFee(fill) * p.avg[2] \in Int
  <2> DEFINE fee == TotalFee(fill)
  <2>1. fee \in Int
    BY <1>1
  <2> HIDE DEF fee
  <2>2. (fill.price * p.avg[2] - p.avg[1]) * fill.qty - fee * p.avg[2] \in Int
    BY <1>1, <1>2, <2>1
  <2> QED
    BY <2>2 DEF fee
<1>4. <<-TotalFee(fill), 1>> \in Ratio
  BY <1>1 DEF Ratio
<1> QED
  BY <1>2, <1>3, <1>4 DEF RealizedDelta, SaleOutcome, Ratio

LEMMA UnrealizedType ==
    ASSUME NEW p \in LongRow
    PROVE  Unrealized(p) \in Ratio
<1>1. p.qty \in Nat /\ p.mark \in Nat /\ p.avg[1] \in Int /\ p.avg[2] \in Nat \ {0}
  BY DEF LongRow, Ratio
<1>2. p.qty * (p.mark * p.avg[2] - p.avg[1]) \in Int
  BY <1>1
<1> QED
  BY <1>1, <1>2 DEF Unrealized, Ratio

LEMMA MarketIsNat ==
    ASSUME NEW f \in [Symbol -> Nat]
    PROVE  SumFunction(f) \in Nat
<1>1. SumFunction(f) = SumOver(f, Symbol)
  <2>1. DOMAIN f = Symbol
    OBVIOUS
  <2>2. SumFunction(f) = SumFunctionOnSet(f, Symbol)
    BY <2>1 DEF SumFunction
  <2> QED
    BY <2>2 DEF SumFunctionOnSet, FoldFunctionOnSet, SumOver, MapThenSumSet
<1> QED
  BY <1>1, SumOverIsNat, ReplayAssumption

\* The equity of an account, and the point that it adds to the curve.
Market(a) == SumFunction([s \in Symbol |-> a.position[s].qty * a.position[s].mark])
PointOf(a, bar, equity) ==
    [time |-> Time(bar), cash |-> a.cash, equity |-> equity,
     realized |-> SumOf(a.realized),
     unrealized |-> SumOf([s \in Symbol |-> Unrealized(a.position[s])]),
     drawdown |-> <<Higher(a.peak, equity) - equity, Higher(a.peak, equity)>>]

\* An account with a point more, and one with a fill more.
PointAdded(a, equity, point, w) ==
    /\ equity \in Nat /\ point \in Point /\ w \in ReplayAccount
    /\ w = [a EXCEPT !.peak = Higher(a.peak, equity), !.curve = Append(a.curve, point)]
FillBooked(a, fill, delta, w) ==
    /\ delta \in Ratio /\ w \in ReplayAccount
    /\ w = [a EXCEPT !.position[fill.symbol] = Applied(a.position[fill.symbol], fill),
                     !.realized[fill.symbol] = Plus(a.realized[fill.symbol], delta),
                     !.cash = a.cash + CashFlow(fill),
                     !.fills = Append(a.fills, fill),
                     !.outcomes = IF fill.side = "sell" THEN Append(a.outcomes, delta)
                                  ELSE a.outcomes]

LEMMA PointFacts ==
    ASSUME NEW a \in ReplayAccount, NEW bar \in ReplayBar,
           NEW equity, equity = a.cash + Market(a),
           NEW point, point = PointOf(a, bar, equity),
           NEW w, w = WithPoint(a, bar)
    PROVE  PointAdded(a, equity, point, w)
<1>1. a.cash \in Nat /\ a.peak \in Nat \ {0} /\ a.position \in [Symbol -> LongRow]
      /\ a.realized \in [Symbol -> Ratio] /\ a.curve \in Seq(Point)
  BY DEF ReplayAccount
<1>2. Market(a) \in Nat
  <2> DEFINE f == [s \in Symbol |-> a.position[s].qty * a.position[s].mark]
  <2>1. \A s \in Symbol : a.position[s].qty * a.position[s].mark \in Nat
    <3> SUFFICES ASSUME NEW s \in Symbol PROVE a.position[s].qty * a.position[s].mark \in Nat
      OBVIOUS
    <3>1. a.position[s].qty \in Nat /\ a.position[s].mark \in Nat
      BY <1>1 DEF LongRow
    <3> QED
      BY <3>1
  <2>2. f \in [Symbol -> Nat]
    BY <2>1
  <2> HIDE DEF f
  <2>3. SumFunction(f) \in Nat
    BY <2>2, MarketIsNat
  <2> QED
    BY <2>3 DEF Market, f
<1>3. equity \in Nat
  BY <1>1, <1>2
<1>4. Higher(a.peak, equity) \in Nat \ {0} /\ Higher(a.peak, equity) - equity \in Nat
  BY <1>1, <1>3 DEF Higher
<1>5. SumOf(a.realized) \in Ratio
  BY <1>1, SumOfType, ReplayAssumption
<1>6. SumOf([s \in Symbol |-> Unrealized(a.position[s])]) \in Ratio
  <2> DEFINE g == [s \in Symbol |-> Unrealized(a.position[s])]
  <2>1. g \in [Symbol -> Ratio]
    BY <1>1, UnrealizedType
  <2> HIDE DEF g
  <2>2. SumOf(g) \in Ratio
    BY <2>1, SumOfType, ReplayAssumption
  <2> QED
    BY <2>2 DEF g
<1>7. Time(bar) \in Int
  BY DEF Time, ReplayBar
<1>8. point \in Point
  BY <1>1, <1>3, <1>4, <1>5, <1>6, <1>7 DEF PointOf, Point
<1>9. w = [a EXCEPT !.peak = Higher(a.peak, equity), !.curve = Append(a.curve, point)]
  <2>1. w = [a EXCEPT !.peak = Higher(a.peak, equity), !.curve = Append(@, PointOf(a, bar, equity))]
    BY DEF WithPoint, Peak, Market, PointOf
  <2> QED
    BY <2>1
<1>10. w \in ReplayAccount
  <2>1. Append(a.curve, point) \in Seq(Point)
    BY <1>1, <1>8
  <2> QED
    BY <1>4, <1>9, <2>1 DEF ReplayAccount
<1> QED
  BY <1>3, <1>8, <1>9, <1>10 DEF PointAdded

LEMMA FillFacts ==
    ASSUME NEW a \in ReplayAccount, NEW fill \in FilledOrder,
           Accepts(a.position[fill.symbol], a.cash, fill),
           NEW delta,
           delta = RealizedDelta(Release(a.position[fill.symbol], fill.day, fill.day), fill),
           NEW w, w = WithFill(a, fill)
    PROVE  FillBooked(a, fill, delta, w)
<1> DEFINE s == fill.symbol
           p == a.position[s]
<1>1. s \in Symbol /\ fill.day \in Int
  BY DEF FilledOrder
<1>2. p \in LongRow /\ a.realized[s] \in Ratio /\ a.cash \in Nat
      /\ a.fills \in Seq(FilledOrder) /\ a.outcomes \in Seq(Ratio)
  BY <1>1 DEF ReplayAccount
<1>3. PICK r : r = Release(p, fill.day, fill.day)
  OBVIOUS
<1>4. r \in LongRow
  BY <1>1, <1>2, <1>3, RowReleased
<1>5. delta \in Ratio
  BY <1>3, <1>4, DeltaType
<1>6. PICK q : q = Applied(p, fill)
  OBVIOUS
<1>7. q \in LongRow
  <2>1. fill.side = "sell" => fill.qty <= Release(p, fill.day, fill.day).sellable
    BY DEF Accepts
  <2> HIDE DEF p
  <2> QED
    BY <1>2, <1>6, <2>1, RowApplied
<1>8. CashAfter(a.cash, fill) = a.cash + CashFlow(fill) /\ a.cash + CashFlow(fill) \in Nat
  <2>1. a.cash # NoCash /\ CashFlow(fill) \in Int
    BY <1>2, FilledFlow DEF NoCash
  <2>2. a.cash + CashFlow(fill) >= 0
    BY <2>1 DEF Accepts
  <2> QED
    BY <1>2, <2>1, <2>2 DEF CashAfter
<1>9. PICK o : o = IF fill.side = "sell" THEN Append(a.outcomes, delta) ELSE a.outcomes
  OBVIOUS
<1>10. o \in Seq(Ratio) /\ Append(a.fills, fill) \in Seq(FilledOrder)
  BY <1>2, <1>5, <1>9
<1>11. Plus(a.realized[s], delta) \in Ratio
  BY <1>2, <1>5, PlusType
<1>12. w = [a EXCEPT !.position[s] = q, !.realized[s] = Plus(a.realized[s], delta),
                     !.cash = a.cash + CashFlow(fill), !.fills = Append(a.fills, fill),
                     !.outcomes = o]
  <2>1. w = [a EXCEPT !.position[s] = Applied(@, fill),
                      !.realized[s] = Plus(@, delta),
                      !.cash = CashAfter(@, fill),
                      !.fills = Append(@, fill),
                      !.outcomes = IF fill.side = "sell" THEN Append(@, delta) ELSE @]
    BY DEF WithFill
  <2> QED
    BY <1>6, <1>8, <1>9, <2>1
<1>13. w \in ReplayAccount
  <2>1. PICK c, e, l : c = a.cash + CashFlow(fill) /\ e = Plus(a.realized[s], delta)
                       /\ l = Append(a.fills, fill)
    OBVIOUS
  <2>2. c \in Nat /\ e \in Ratio /\ l \in Seq(FilledOrder)
    BY <1>8, <1>10, <1>11, <2>1
  <2>3. PICK f, g : f = [a.position EXCEPT ![s] = q] /\ g = [a.realized EXCEPT ![s] = e]
    OBVIOUS
  <2>4. f \in [Symbol -> LongRow] /\ g \in [Symbol -> Ratio]
    BY <1>7, <2>2, <2>3 DEF ReplayAccount
  <2>5. w = [a EXCEPT !.position = f, !.realized = g, !.cash = c, !.fills = l, !.outcomes = o]
    BY <1>12, <2>1, <2>3
  <2> HIDE DEF s
  <2>6. w = [position |-> f, realized |-> g, cash |-> c, peak |-> a.peak, fills |-> l,
             outcomes |-> o, curve |-> a.curve, raised |-> a.raised]
    BY <2>5 DEF ReplayAccount
  <2>7. a.peak \in Nat \ {0} /\ a.curve \in Seq(Point) /\ a.raised \in BOOLEAN
    BY DEF ReplayAccount
  <2>8. o \in Seq(Ratio)
    BY <1>10
  <2> QED
    BY <2>2, <2>4, <2>6, <2>7, <2>8 DEF ReplayAccount
<1> QED
  BY <1>5, <1>6, <1>9, <1>12, <1>13 DEF FillBooked

\* A position is shown anew, of the same shares at the same price.
Remarked(a, b, s) ==
    \E q \in LongRow : /\ q.qty = a.position[s].qty /\ q.avg = a.position[s].avg
                       /\ b = [a EXCEPT !.position[s] = q]

\* What a replay that does not raise is made of: these accounts are closed
\* under each of its parts.
ReplayKeeps(Good) ==
    /\ \A a \in Good, s \in Symbol : \A b : Remarked(a, b, s) => b \in Good
    /\ \A a \in Good, fill \in FilledOrder :
           Accepts(a.position[fill.symbol], a.cash, fill) => WithFill(a, fill) \in Good
    /\ \A a \in Good, bar \in ReplayBar : WithPoint(a, bar) \in Good

LEMMA BarKeeps ==
    ASSUME NEW Good \in SUBSET ReplayAccount, ReplayKeeps(Good),
           NEW a \in ReplayAccount, a.raised \/ a \in Good,
           NEW bar \in ReplayBar, NEW w, w = AfterBar(a, bar)
    PROVE  /\ w \in ReplayAccount
           /\ w.raised \/ \E b \in Good : w = WithPoint(b, bar) /\ w \in Good
<1>1. CASE a.raised
  BY <1>1 DEF AfterBar
<1>2. CASE ~a.raised
  <2> DEFINE s == bar.symbol
             fill == bar.fill[1]
  <2>1. s \in Symbol /\ (bar.fill # <<>> => fill \in FilledOrder /\ fill.symbol = s)
    BY DEF ReplayBar
  <2>2. a \in Good /\ w = WithBar(a, bar)
    BY <1>2 DEF AfterBar
  <2>3. a.position[s] \in LongRow /\ bar.day \in Int
    BY <2>1 DEF ReplayAccount, ReplayBar
  <2>4. PICK o : o = Opened(a.position[s], bar)
    OBVIOUS
  <2>5. o \in LongRow /\ o.qty = a.position[s].qty /\ o.avg = a.position[s].avg
    <3>1. PICK r : r = Release(a.position[s], bar.day, bar.day)
      OBVIOUS
    <3>2. r \in LongRow /\ r.qty = a.position[s].qty /\ r.avg = a.position[s].avg
      BY <2>3, <3>1, RowReleased
    <3>3. o = r \/ o = a.position[s]
      BY <2>4, <3>1 DEF Opened
    <3> QED
      BY <2>3, <3>2, <3>3
  <2>6. PICK q : q = Marked(o, bar)
    OBVIOUS
  <2>7. q \in LongRow /\ q.qty = o.qty /\ q.avg = o.avg
    BY <2>5, <2>6, RowMarked
  <2>8. PICK b : b = [a EXCEPT !.position[s] = q]
    OBVIOUS
  <2>9. b \in Good /\ b \in ReplayAccount
    <3>1. Remarked(a, b, s)
      BY <2>5, <2>7, <2>8 DEF Remarked
    <3> HIDE DEF s
    <3> QED
      BY <2>1, <2>2, <3>1 DEF ReplayKeeps
  <2>10. b = [a EXCEPT !.position[s] = Marked(Opened(@, bar), bar)]
    BY <2>4, <2>6, <2>8
  <2>11. CASE bar.fill = <<>>
    <3>1. w = WithPoint(b, bar)
      BY <2>2, <2>10, <2>11 DEF WithBar
    <3>2. w \in Good
      BY <2>9, <3>1 DEF ReplayKeeps
    <3> QED
      BY <2>9, <3>1, <3>2
  <2>12. CASE bar.fill # <<>> /\ ~Accepts(b.position[s], b.cash, fill)
    <3>1. w = [a EXCEPT !.raised = TRUE]
      BY <2>2, <2>10, <2>12 DEF WithBar
    <3> QED
      BY <3>1 DEF ReplayAccount
  <2>13. CASE bar.fill # <<>> /\ Accepts(b.position[s], b.cash, fill)
    <3>1. PICK c : c = WithFill(b, fill)
      OBVIOUS
    <3>2. PICK e : e = [c EXCEPT !.position[s] = Marked(@, bar)]
      OBVIOUS
    <3>3. w = WithPoint(e, bar)
      BY <2>2, <2>10, <2>13, <3>1, <3>2 DEF WithBar
    <3>4. c \in Good /\ c \in ReplayAccount
      <4> HIDE DEF s, fill
      <4> QED
        BY <2>1, <2>9, <2>13, <3>1 DEF ReplayKeeps
    <3>5. PICK m : m = Marked(c.position[s], bar)
      OBVIOUS
    <3>6. m \in LongRow /\ m.qty = c.position[s].qty /\ m.avg = c.position[s].avg
      <4>1. c.position[s] \in LongRow
        BY <2>1, <3>4 DEF ReplayAccount
      <4> HIDE DEF s
      <4> QED
        BY <3>5, <4>1, RowMarked
    <3>7. e \in Good
      <4>1. e = [c EXCEPT !.position[s] = m]
        BY <3>2, <3>5
      <4>2. Remarked(c, e, s)
        BY <3>6, <4>1 DEF Remarked
      <4> HIDE DEF s
      <4> QED
        BY <2>1, <3>4, <4>2 DEF ReplayKeeps
    <3>8. w \in Good
      BY <3>3, <3>7 DEF ReplayKeeps
    <3> QED
      BY <3>3, <3>7, <3>8
  <2> QED
    BY <2>11, <2>12, <2>13
<1> QED
  BY <1>1, <1>2

\* The replay of the bars has run through every account.
Rolled(opening, bars) == FoldLeft(AfterBar, opening, bars)
RolledBy(F, bars, opening) ==
    /\ F[0] = opening
    /\ \A n \in 1 .. Len(bars) : F[n] = AfterBar(F[n - 1], bars[n])
    /\ Rolled(opening, bars) = F[Len(bars)]

LEMMA AccountsAreKept == ReplayKeeps(ReplayAccount)
<1>1. ASSUME NEW a \in ReplayAccount, NEW s \in Symbol, NEW b, Remarked(a, b, s)
      PROVE  b \in ReplayAccount
  <2>1. PICK q \in LongRow : b = [a EXCEPT !.position[s] = q]
    BY <1>1 DEF Remarked
  <2> QED
    BY <2>1 DEF ReplayAccount
<1>2. ASSUME NEW a \in ReplayAccount, NEW fill \in FilledOrder,
             Accepts(a.position[fill.symbol], a.cash, fill)
      PROVE  WithFill(a, fill) \in ReplayAccount
  BY <1>2, FillFacts DEF FillBooked
<1>3. ASSUME NEW a \in ReplayAccount, NEW bar \in ReplayBar
      PROVE  WithPoint(a, bar) \in ReplayAccount
  BY PointFacts DEF PointAdded
<1> QED
  BY <1>1, <1>2, <1>3 DEF ReplayKeeps

LEMMA RolledRun ==
    ASSUME NEW opening \in ReplayAccount, NEW bars \in Seq(ReplayBar)
    PROVE  \E F : RolledBy(F, bars, opening)
<1> DEFINE A == ReplayAccount
           E == ReplayBar
           D == DOMAIN bars
           op == [x \in A \X E |-> AfterBar(x[1], x[2])]
           iter == CHOOSE it : it = [T \in SUBSET D |->
                      IF T = {} THEN opening
                      ELSE AfterBar(it[T \ {Max(T)}], bars[Max(T)])]
           F == [n \in 0 .. Len(bars) |-> iter[1 .. n]]
<1>1. op \in [A \X E -> A]
  <2>1. ASSUME NEW a \in A, NEW bar \in E PROVE AfterBar(a, bar) \in A
    <3>1. PICK w : w = AfterBar(a, bar)
      OBVIOUS
    <3>2. w \in A
      BY <3>1, AccountsAreKept, BarKeeps
    <3> QED
      BY <3>1, <3>2
  <2> QED
    BY <2>1
<1>2. PICK f : FoldRecursion(f, A, opening, bars, op)
  <2>1. bars \in Seq(E) /\ opening \in A
    OBVIOUS
  <2> HIDE DEF A, E, op
  <2> QED
    BY <1>1, <2>1, FoldExists
<1>3. D = 1 .. Len(bars) /\ Len(bars) \in Nat /\ \A i \in D : bars[i] \in E
  OBVIOUS
<1>4. ASSUME NEW T \in SUBSET D, T # {}
      PROVE  f[T] = AfterBar(f[T \ {Max(T)}], bars[Max(T)])
  <2> HIDE DEF A, E
  <2>1. f[T \ {Max(T)}] \in A /\ bars[Max(T)] \in E
        /\ f[T] = op[<<f[T \ {Max(T)}], bars[Max(T)]>>]
    <3> HIDE DEF op
    <3> QED
      BY <1>2, <1>3, <1>4 DEF FoldRecursion
  <2> QED
    BY <2>1
<1>5. f = [T \in SUBSET D |->
              IF T = {} THEN opening ELSE AfterBar(f[T \ {Max(T)}], bars[Max(T)])]
  <2> HIDE DEF A, op
  <2> QED
    BY <1>2, <1>4 DEF FoldRecursion
<1>6. iter = [T \in SUBSET D |->
                 IF T = {} THEN opening ELSE AfterBar(iter[T \ {Max(T)}], bars[Max(T)])]
  BY <1>5
<1>7. Rolled(opening, bars) = iter[D]
  BY DEF Rolled, FoldLeft, MapThenFoldSet
<1> HIDE DEF iter
<1>8. F[0] = opening /\ Rolled(opening, bars) = F[Len(bars)]
  <2>1. 1 .. 0 = {}
    OBVIOUS
  <2> QED
    BY <1>3, <1>6, <1>7, <2>1
<1>9. ASSUME NEW n \in 1 .. Len(bars)
      PROVE  F[n] = AfterBar(F[n - 1], bars[n])
  <2>1. n \in Nat \ {0} /\ n - 1 \in 0 .. Len(bars) /\ n \in 0 .. Len(bars)
        /\ 1 .. n \in SUBSET D /\ 1 .. n # {}
    BY <1>3
  <2>2. Max(1 .. n) = n /\ (1 .. n) \ {Max(1 .. n)} = 1 .. n - 1
    BY <2>1, MaxOfPrefix
  <2>3. iter[1 .. n] = AfterBar(iter[(1 .. n) \ {Max(1 .. n)}], bars[Max(1 .. n)])
    BY <1>6, <2>1
  <2> QED
    BY <2>1, <2>2, <2>3
<1> HIDE DEF F
<1> QED
  BY <1>8, <1>9 DEF RolledBy

\* A replay that has not raised ends in such an account, and with a point.
LEMMA RolledKeeps ==
    ASSUME NEW Good \in SUBSET ReplayAccount, ReplayKeeps(Good),
           NEW opening \in Good, NEW bars \in Seq(ReplayBar) \ {<<>>},
           NEW account, account = Rolled(opening, bars), ~account.raised
    PROVE  account \in Good /\ \E b \in Good, bar \in ReplayBar : account = WithPoint(b, bar)
<1>1. PICK F : RolledBy(F, bars, opening)
  BY RolledRun
<1>2. Len(bars) \in Nat /\ Len(bars) # 0 /\ \A n \in 1 .. Len(bars) : bars[n] \in ReplayBar
  OBVIOUS
<1> DEFINE m == Len(bars)
           Kept(a) == a \in ReplayAccount /\ (a.raised \/ a \in Good)
           N == {n \in Nat : n <= m => Kept(F[n])}
<1>3. ASSUME NEW n \in 1 .. m, Kept(F[n - 1])
      PROVE  /\ F[n] \in ReplayAccount
             /\ F[n].raised \/ \E b \in Good : F[n] = WithPoint(b, bars[n]) /\ F[n] \in Good
  <2>1. F[n] = AfterBar(F[n - 1], bars[n]) /\ bars[n] \in ReplayBar
    BY <1>1, <1>2 DEF RolledBy
  <2> QED
    BY <1>3, <2>1, BarKeeps
<1>4. 0 \in N
  BY <1>1 DEF RolledBy
<1>5. ASSUME NEW n \in N PROVE n + 1 \in N
  <2>1. n \in Nat /\ (n + 1) - 1 = n
    OBVIOUS
  <2>2. ASSUME n + 1 <= m PROVE Kept(F[n + 1])
    <3>1. n + 1 \in 1 .. m /\ n <= m
      BY <1>2, <2>1, <2>2
    <3>2. Kept(F[n])
      BY <1>5, <3>1
    <3> QED
      BY <1>3, <2>1, <3>1, <3>2
  <2> QED
    BY <2>1, <2>2
<1>6. N = Nat
  <2>1. N \in SUBSET Nat
    OBVIOUS
  <2> HIDE DEF N
  <2> QED
    BY <1>4, <1>5, <2>1, SetInduction
<1>7. m \in 1 .. m /\ m - 1 \in Nat /\ m - 1 <= m
  BY <1>2
<1>8. Kept(F[m - 1])
  BY <1>6, <1>7
<1>9. F[m].raised \/ \E b \in Good : F[m] = WithPoint(b, bars[m]) /\ F[m] \in Good
  <2> HIDE DEF Kept
  <2> QED
    BY <1>3, <1>7, <1>8
<1>10. account = F[m]
  BY <1>1 DEF RolledBy
<1> HIDE DEF m
<1> QED
  BY <1>2, <1>7, <1>9, <1>10 DEF m

-----------------------------------------------------------------------------
(* The largest drawdown                                                     *)

\* The peak of the first i points, of which the initial cash is one.
PeakOf(p, curve, i) ==
    /\ p \in Nat \ {0} /\ InitialCash <= p
    /\ \A j \in 1 .. i : curve[j].equity <= p
    /\ p = InitialCash \/ \E j \in 1 .. i : p = curve[j].equity

Peaks(peak, curve) ==
    /\ PeakOf(peak, curve, Len(curve))
    /\ \A i \in 1 .. Len(curve) :
           /\ PeakOf(curve[i].drawdown[2], curve, i)
           /\ curve[i].drawdown[1] = curve[i].drawdown[2] - curve[i].equity

PeakedAccount == {a \in ReplayAccount : Peaks(a.peak, a.curve)}

LEMMA PeakSame ==
    ASSUME NEW curve, NEW more, NEW n \in Nat, \A j \in 1 .. n : more[j] = curve[j],
           NEW i \in 0 .. n, NEW p, PeakOf(p, curve, i)
    PROVE  PeakOf(p, more, i)
<1>1. \A j \in 1 .. i : more[j] = curve[j]
  OBVIOUS
<1> QED
  BY <1>1 DEF PeakOf

LEMMA PeaksAppend ==
    ASSUME NEW peak, NEW curve \in Seq(Point), Peaks(peak, curve),
           NEW point \in Point, NEW top, top = Higher(peak, point.equity),
           point.drawdown = <<top - point.equity, top>>
    PROVE  Peaks(top, Append(curve, point))
<1>1. PICK n, more : n = Len(curve) /\ more = Append(curve, point)
  OBVIOUS
<1>2. /\ n \in Nat /\ Len(more) = n + 1 /\ more[n + 1] = point
      /\ \A j \in 1 .. n : more[j] = curve[j]
  BY <1>1
<1>3. PICK e : e = point.equity
  OBVIOUS
<1>4. e \in Nat /\ PeakOf(peak, curve, n)
  <2>1. e \in Nat
    BY <1>3 DEF Point
  <2>2. PeakOf(peak, curve, Len(curve))
    BY DEF Peaks
  <2>3. n = Len(curve)
    BY <1>1
  <2>4. PeakOf(peak, curve, n)
    BY ONLY <2>2, <2>3
  <2> QED BY <2>1, <2>4
<1>5. PeakOf(peak, more, n)
  <2>1. n \in Nat /\ n \in 0 .. n
    BY <1>2
  <2>2. \A j \in 1 .. n : more[j] = curve[j]
    BY <1>2
  <2>3. PeakOf(peak, curve, n)
    BY <1>4
  <2> QED BY ONLY <2>1, <2>2, <2>3, PeakSame
<1>6. PeakOf(top, more, n + 1)
  <2>1. peak \in Nat \ {0} /\ InitialCash <= peak /\ InitialCash \in Nat
    BY <1>5, BacktestAssumption DEF PeakOf
  <2>2. top \in Nat \ {0} /\ peak <= top /\ e <= top /\ (top = peak \/ top = e)
    BY <1>3, <1>4, <2>1 DEF Higher
  <2>3. InitialCash <= top
    BY <2>1, <2>2
  <2>4. ASSUME NEW j \in 1 .. n + 1 PROVE more[j].equity <= top
    <3>1. CASE j = n + 1
      BY <1>2, <1>3, <2>2, <3>1
    <3>2. CASE j # n + 1
      <4>1. j \in 1 .. n
        BY <1>2, <3>2
      <4>2. more[j] \in Point /\ more[j].equity <= peak
        BY <1>1, <1>2, <1>5, <4>1 DEF PeakOf
      <4>3. more[j].equity \in Nat
        BY <4>2 DEF Point
      <4> QED
        BY <2>1, <2>2, <4>2, <4>3
    <3> QED
      BY <3>1, <3>2
  <2>5. top = InitialCash \/ \E j \in 1 .. n + 1 : top = more[j].equity
    <3>1. n + 1 \in 1 .. n + 1 /\ 1 .. n \subseteq 1 .. n + 1
      BY <1>2
    <3> QED
      BY <1>2, <1>3, <1>5, <2>2, <3>1 DEF PeakOf
  <2> QED
    BY <2>2, <2>3, <2>4, <2>5 DEF PeakOf
<1>7. ASSUME NEW i \in 1 .. n + 1
      PROVE  /\ PeakOf(more[i].drawdown[2], more, i)
             /\ more[i].drawdown[1] = more[i].drawdown[2] - more[i].equity
  <2>1. CASE i = n + 1
    <3>1. point.drawdown[2] = top /\ point.drawdown[1] = top - point.equity
      OBVIOUS
    <3> QED
      BY <1>2, <1>6, <2>1, <3>1
  <2>2. CASE i # n + 1
    <3>1. i \in 1 .. n /\ i \in 0 .. n
      BY <1>2, <2>2
    <3>2. /\ PeakOf(curve[i].drawdown[2], curve, i)
          /\ curve[i].drawdown[1] = curve[i].drawdown[2] - curve[i].equity
      BY <1>1, <3>1 DEF Peaks
    <3>3. PeakOf(curve[i].drawdown[2], more, i)
      BY <1>2, <3>1, <3>2, PeakSame
    <3> QED
      BY <1>2, <3>1, <3>2, <3>3
  <2> QED
    BY <2>1, <2>2
<1> QED
  BY <1>1, <1>2, <1>6, <1>7 DEF Peaks

LEMMA PeaksAreKept == ReplayKeeps(PeakedAccount)
<1>1. ASSUME NEW a \in PeakedAccount, NEW s \in Symbol, NEW b, Remarked(a, b, s)
      PROVE  b \in PeakedAccount
  <2>1. b \in ReplayAccount
    BY <1>1, AccountsAreKept DEF ReplayKeeps, PeakedAccount
  <2>2. PICK q \in LongRow : b = [a EXCEPT !.position[s] = q]
    BY <1>1 DEF Remarked
  <2>3. b.peak = a.peak /\ b.curve = a.curve
    BY <2>2 DEF PeakedAccount, ReplayAccount
  <2> QED
    BY <2>1, <2>3 DEF PeakedAccount
<1>2. ASSUME NEW a \in PeakedAccount, NEW fill \in FilledOrder,
             Accepts(a.position[fill.symbol], a.cash, fill)
      PROVE  WithFill(a, fill) \in PeakedAccount
  <2>1. PICK w : w = WithFill(a, fill)
    OBVIOUS
  <2>2. a \in ReplayAccount
    BY DEF PeakedAccount
  <2>3. PICK delta : FillBooked(a, fill, delta, w)
    BY <1>2, <2>1, <2>2, FillFacts
  <2>4. w \in ReplayAccount /\ w.peak = a.peak /\ w.curve = a.curve
    BY <2>2, <2>3 DEF FillBooked, ReplayAccount
  <2> QED
    BY <2>1, <2>2, <2>4 DEF PeakedAccount
<1>3. ASSUME NEW a \in PeakedAccount, NEW bar \in ReplayBar
      PROVE  WithPoint(a, bar) \in PeakedAccount
  <2>1. PICK w : w = WithPoint(a, bar)
    OBVIOUS
  <2>2. PICK equity : equity = a.cash + Market(a)
    OBVIOUS
  <2>3. PICK point : point = PointOf(a, bar, equity)
    OBVIOUS
  <2>4. a \in ReplayAccount /\ Peaks(a.peak, a.curve) /\ a.curve \in Seq(Point)
    BY DEF PeakedAccount, ReplayAccount
  <2>5. PointAdded(a, equity, point, w)
    BY <2>1, <2>2, <2>3, <2>4, PointFacts
  <2>6. PICK top : top = Higher(a.peak, equity)
    OBVIOUS
  <2>7. point.equity = equity /\ point.drawdown = <<top - equity, top>>
    BY <2>3, <2>6 DEF PointOf
  <2>8. Peaks(top, Append(a.curve, point))
    BY <2>4, <2>5, <2>6, <2>7, PeaksAppend DEF PointAdded
  <2>9. w \in ReplayAccount /\ w.peak = top /\ w.curve = Append(a.curve, point)
    BY <2>4, <2>5, <2>6 DEF PointAdded, ReplayAccount
  <2> QED
    BY <2>1, <2>8, <2>9 DEF PeakedAccount
<1> QED
  BY <1>1, <1>2, <1>3 DEF ReplayKeeps

\* Falls, as ratios; the largest is at least any of them.
Drop == Nat \X (Nat \ {0})
WorstBy(F, curve) ==
    /\ F[0] = Zero
    /\ \A n \in 1 .. Len(curve) : F[n] = Worse(curve[n].drawdown, F[n - 1])
    /\ Worst(curve) = F[Len(curve)]

LEMMA WorstRun ==
    ASSUME NEW curve \in Seq(Point)
    PROVE  \E F : WorstBy(F, curve)
<1> DEFINE A == Drop
           E == Point
           D == DOMAIN curve
           zero == Zero
           op == [x \in A \X E |-> Worse(x[2].drawdown, x[1])]
           iter == CHOOSE it : it = [T \in SUBSET D |->
                      IF T = {} THEN zero
                      ELSE Worse(curve[Max(T)].drawdown, it[T \ {Max(T)}])]
           F == [n \in 0 .. Len(curve) |-> iter[1 .. n]]
<1>1. zero \in A /\ op \in [A \X E -> A]
  BY DEF Worse, Point, Drop, Zero
<1>2. PICK f : FoldRecursion(f, A, zero, curve, op)
  <2>1. curve \in Seq(E)
    OBVIOUS
  <2> HIDE DEF A, E, op, zero
  <2> QED
    BY <1>1, <2>1, FoldExists
<1>3. D = 1 .. Len(curve) /\ Len(curve) \in Nat /\ \A i \in D : curve[i] \in E
  OBVIOUS
<1>4. ASSUME NEW T \in SUBSET D, T # {}
      PROVE  f[T] = Worse(curve[Max(T)].drawdown, f[T \ {Max(T)}])
  <2> HIDE DEF A, E, zero
  <2>1. f[T \ {Max(T)}] \in A /\ curve[Max(T)] \in E
        /\ f[T] = op[<<f[T \ {Max(T)}], curve[Max(T)]>>]
    <3> HIDE DEF op
    <3> QED
      BY <1>2, <1>3, <1>4 DEF FoldRecursion
  <2> QED
    BY <2>1
<1>5. f = [T \in SUBSET D |->
              IF T = {} THEN zero ELSE Worse(curve[Max(T)].drawdown, f[T \ {Max(T)}])]
  <2> HIDE DEF A, op, zero
  <2> QED
    BY <1>2, <1>4 DEF FoldRecursion
<1>6. iter = [T \in SUBSET D |->
                 IF T = {} THEN zero ELSE Worse(curve[Max(T)].drawdown, iter[T \ {Max(T)}])]
  <2> HIDE DEF zero
  <2> QED
    BY <1>5
<1>7. Worst(curve) = iter[D]
  BY DEF Worst, FoldLeft, MapThenFoldSet
<1> HIDE DEF iter, zero
<1>8. F[0] = zero /\ Worst(curve) = F[Len(curve)]
  <2>1. 1 .. 0 = {}
    OBVIOUS
  <2> QED
    BY <1>3, <1>6, <1>7, <2>1
<1>9. ASSUME NEW n \in 1 .. Len(curve)
      PROVE  F[n] = Worse(curve[n].drawdown, F[n - 1])
  <2>1. n \in Nat \ {0} /\ n - 1 \in 0 .. Len(curve) /\ n \in 0 .. Len(curve)
        /\ 1 .. n \in SUBSET D /\ n \in 1 .. n
    BY <1>3
  <2>2. Max(1 .. n) = n /\ (1 .. n) \ {Max(1 .. n)} = 1 .. n - 1
    BY <2>1, MaxOfPrefix
  <2>3. iter[1 .. n] = Worse(curve[Max(1 .. n)].drawdown, iter[(1 .. n) \ {Max(1 .. n)}])
    BY <1>6, <2>1
  <2> QED
    BY <2>1, <2>2, <2>3
<1> HIDE DEF F
<1> QED
  BY <1>8, <1>9 DEF WorstBy, zero

LEMMA WorseFacts ==
    ASSUME NEW a \in Drop, NEW b \in Drop, NEW w, w = Worse(a, b)
    PROVE  /\ w \in Drop /\ (w = a \/ w = b)
           /\ a[1] * w[2] <= w[1] * a[2] /\ b[1] * w[2] <= w[1] * b[2]
<1>1. /\ a[1] \in Nat /\ a[2] \in Nat /\ b[1] \in Nat /\ b[2] \in Nat
  BY DEF Drop
<1>2. a[1] * b[2] \in Nat /\ b[1] * a[2] \in Nat /\ a[1] * a[2] \in Nat /\ b[1] * b[2] \in Nat
  BY <1>1
<1>3. CASE a[1] * b[2] > b[1] * a[2]
  <2>1. w = a
    BY <1>3 DEF Worse
  <2>2. b[1] * a[2] <= a[1] * b[2]
    BY <1>2, <1>3
  <2> QED
    BY <1>2, <2>1, <2>2
<1>4. CASE ~(a[1] * b[2] > b[1] * a[2])
  <2>1. w = b
    BY <1>4 DEF Worse
  <2>2. a[1] * b[2] <= b[1] * a[2]
    BY <1>2, <1>4
  <2> QED
    BY <1>2, <2>1, <2>2
<1> QED
  BY <1>3, <1>4

\* a fall that is no worse than one that is no worse than a third
LEMMA WorseChain ==
    ASSUME NEW a \in Drop, NEW b \in Drop, NEW c \in Drop,
           a[1] * b[2] <= b[1] * a[2], b[1] * c[2] <= c[1] * b[2]
    PROVE  a[1] * c[2] <= c[1] * a[2]
<1>1. /\ a[1] \in Nat /\ a[2] \in Nat \ {0} /\ b[1] \in Nat /\ b[2] \in Nat \ {0}
      /\ c[1] \in Nat /\ c[2] \in Nat \ {0}
  BY DEF Drop
<1>2. PICK a1, a2, b1, b2, c1, c2 :
         a1 = a[1] /\ a2 = a[2] /\ b1 = b[1] /\ b2 = b[2] /\ c1 = c[1] /\ c2 = c[2]
  OBVIOUS
<1>3. /\ a1 \in Nat /\ a2 \in Nat \ {0} /\ b1 \in Nat /\ b2 \in Nat \ {0}
      /\ c1 \in Nat /\ c2 \in Nat \ {0}
      /\ a1 * b2 <= b1 * a2 /\ b1 * c2 <= c1 * b2
  BY <1>1, <1>2
<1>4. (a1 * b2) * c2 <= (b1 * a2) * c2 /\ (b1 * c2) * a2 <= (c1 * b2) * a2
  BY <1>3
<1>5. (a1 * b2) * c2 <= (c1 * b2) * a2
  <2>1. (b1 * a2) * c2 = (b1 * c2) * a2
    BY <1>3
  <2>2. (a1 * b2) * c2 \in Nat /\ (b1 * a2) * c2 \in Nat /\ (c1 * b2) * a2 \in Nat
    BY <1>3
  <2> QED
    BY <1>4, <2>1, <2>2
<1>6. b2 * (a1 * c2) <= b2 * (c1 * a2)
  BY <1>3, <1>5
<1>7. a1 * c2 \in Nat /\ c1 * a2 \in Nat
  BY <1>3
<1>8. a1 * c2 <= c1 * a2
  BY <1>3, <1>6, <1>7, FactorOrder
<1> QED
  BY <1>2, <1>8

LEMMA WorstFacts ==
    ASSUME NEW curve \in Seq(Point), NEW w, w = Worst(curve)
    PROVE  /\ w \in Drop
           /\ \A i \in 1 .. Len(curve) : curve[i].drawdown[1] * w[2] <= w[1] * curve[i].drawdown[2]
           /\ w = Zero \/ \E i \in 1 .. Len(curve) : w = curve[i].drawdown
<1> DEFINE m == Len(curve)
           Largest(x, n) ==
               /\ x \in Drop
               /\ \A i \in 1 .. n : curve[i].drawdown[1] * x[2] <= x[1] * curve[i].drawdown[2]
               /\ x = Zero \/ \E i \in 1 .. n : x = curve[i].drawdown
<1>1. PICK F : WorstBy(F, curve)
  BY WorstRun
<1>2. m \in Nat /\ \A i \in 1 .. m : curve[i] \in Point /\ curve[i].drawdown \in Drop
  <2>1. m \in Nat /\ \A i \in 1 .. m : curve[i] \in Point
    OBVIOUS
  <2>2. \A point \in Point : point.drawdown \in Drop
    BY DEF Point, Drop
  <2> QED
    BY <2>1, <2>2
<1> DEFINE N == {n \in Nat : n <= m => Largest(F[n], n)}
<1>3. 0 \in N
  <2>1. F[0] = Zero /\ Zero \in Drop
    BY <1>1 DEF WorstBy, Zero, Drop
  <2> QED
    BY <2>1
<1>4. ASSUME NEW n \in N PROVE n + 1 \in N
  <2>1. n \in Nat /\ (n + 1) - 1 = n
    OBVIOUS
  <2>2. ASSUME n + 1 <= m PROVE Largest(F[n + 1], n + 1)
    <3>1. n + 1 \in 1 .. m /\ n <= m /\ n + 1 \in 1 .. n + 1 /\ 1 .. n \subseteq 1 .. n + 1
      BY <1>2, <2>1, <2>2
    <3>2. Largest(F[n], n)
      BY <1>4, <3>1
    <3>3. PICK x, y, d : x = F[n] /\ y = F[n + 1] /\ d = curve[n + 1].drawdown
      OBVIOUS
    <3>4. y = Worse(d, x) /\ d \in Drop /\ x \in Drop
      BY <1>1, <1>2, <2>1, <3>1, <3>2, <3>3 DEF WorstBy
    <3>5. /\ y \in Drop /\ (y = d \/ y = x)
          /\ d[1] * y[2] <= y[1] * d[2] /\ x[1] * y[2] <= y[1] * x[2]
      BY <3>4, WorseFacts
    <3>6. ASSUME NEW i \in 1 .. n + 1
          PROVE  curve[i].drawdown[1] * y[2] <= y[1] * curve[i].drawdown[2]
      <4>1. CASE i = n + 1
        BY <3>3, <3>5, <4>1
      <4>2. CASE i # n + 1
        <5>1. i \in 1 .. n /\ i \in 1 .. m
          BY <1>2, <2>1, <3>1, <4>2
        <5>2. PICK a : a = curve[i].drawdown
          OBVIOUS
        <5>3. a \in Drop /\ a[1] * x[2] <= x[1] * a[2]
          BY <1>2, <3>2, <3>3, <5>1, <5>2
        <5>4. a[1] * y[2] <= y[1] * a[2]
          BY <3>4, <3>5, <5>3, WorseChain
        <5> QED
          BY <5>2, <5>4
      <4> QED
        BY <4>1, <4>2
    <3>7. y = Zero \/ \E i \in 1 .. n + 1 : y = curve[i].drawdown
      BY <3>1, <3>2, <3>3, <3>5
    <3> QED
      BY <3>3, <3>5, <3>6, <3>7
  <2> QED
    BY <2>1, <2>2
<1>5. N = Nat
  <2>1. N \in SUBSET Nat
    OBVIOUS
  <2> HIDE DEF N
  <2> QED
    BY <1>3, <1>4, <2>1, SetInduction
<1>6. Largest(F[m], m)
  BY <1>2, <1>5
<1>7. w = F[m]
  BY <1>1 DEF WorstBy
<1> QED
  BY <1>6, <1>7

\* A fall from a lower height is no worse.
LEMMA LowerFall ==
    ASSUME NEW p \in Nat \ {0}, NEW e \in Nat, NEW low \in Nat, e <= p, low <= p,
           NEW w \in Drop, (p - low) * w[2] <= w[1] * p
    PROVE  (e - low) * w[2] <= w[1] * e
<1>1. w[1] \in Nat /\ w[2] \in Nat \ {0}
  BY DEF Drop
<1>2. CASE e <= low
  <2>1. PICK d : d = low - e
    OBVIOUS
  <2>2. d \in Nat /\ e - low = -d
    BY <1>2, <2>1
  <2>3. d * w[2] \in Nat /\ w[1] * e \in Nat
    BY <1>1, <2>2
  <2>4. (-d) * w[2] = -(d * w[2])
    BY <1>1, <2>2
  <2>5. -(d * w[2]) <= w[1] * e
    BY <2>3
  <2> QED
    BY <2>2, <2>4, <2>5
<1>3. CASE low < e
  <2>1. PICK a, b : a = <<e - low, e>> /\ b = <<p - low, p>>
    OBVIOUS
  <2>2. a \in Drop /\ b \in Drop
    <3>1. e - low \in Nat /\ e \in Nat \ {0} /\ p - low \in Nat
      BY <1>3
    <3> QED
      BY <2>1, <3>1 DEF Drop
  <2>3. (e - low) * p <= (p - low) * e
    <3>1. low * e <= low * p
      <4>1. PICK d : d = p - e
        OBVIOUS
      <4>2. d \in Nat /\ p = e + d
        BY <4>1
      <4>3. low * p = low * e + low * d /\ low * d \in Nat /\ low * e \in Nat
        BY <4>2
      <4> QED
        BY <4>3
    <3>2. (e - low) * p = e * p - low * p /\ (p - low) * e = e * p - low * e
      OBVIOUS
    <3>3. e * p \in Nat /\ low * p \in Nat /\ low * e \in Nat
      OBVIOUS
    <3> QED
      BY <3>1, <3>2, <3>3
  <2>4. a[1] * b[2] <= b[1] * a[2] /\ b[1] * w[2] <= w[1] * b[2]
    BY <2>1, <2>3
  <2>5. a[1] * w[2] <= w[1] * a[2]
    BY <2>2, <2>4, WorseChain
  <2> QED
    BY <2>1, <2>5
<1> QED
  BY <1>2, <1>3

\* What DrawdownIsWorst says of one curve.
FallsWithin(curve, w) ==
    LET equity == <<InitialCash>> \o [i \in DOMAIN curve |-> curve[i].equity]
        spans == {p \in (DOMAIN equity) \X (DOMAIN equity) : p[1] <= p[2]}
        falls == {<<equity[p[1]] - equity[p[2]], equity[p[1]]>> : p \in spans}
    IN  /\ \A fall \in falls : fall[1] * w[2] <= w[1] * fall[2]
        /\ \E fall \in falls : Same(fall, w)

LEMMA PeaksTellTheWorst ==
    ASSUME NEW peak, NEW curve \in Seq(Point), Peaks(peak, curve), NEW w, w = Worst(curve)
    PROVE  FallsWithin(curve, w)
<1>1. PICK tail : tail = [i \in DOMAIN curve |-> curve[i].equity]
  OBVIOUS
<1>2. PICK equity : equity = <<InitialCash>> \o tail
  OBVIOUS
<1>3. PICK n : n = Len(curve)
  OBVIOUS
<1>4. n \in Nat /\ DOMAIN curve = 1 .. n /\ \A i \in 1 .. n : curve[i] \in Point
  BY <1>3
<1>5. \A i \in 1 .. n : curve[i].equity \in Nat
  BY <1>4 DEF Point
<1>6. /\ DOMAIN equity = 1 .. n + 1 /\ equity[1] = InitialCash
      /\ \A i \in 1 .. n : equity[i + 1] = curve[i].equity
  <2>1. tail \in Seq(Nat) /\ Len(tail) = n
    BY <1>1, <1>4, <1>5
  <2>2. <<InitialCash>> \in Seq(Nat) /\ Len(<<InitialCash>>) = 1
    BY BacktestAssumption
  <2>3. Len(equity) = n + 1 /\ equity \in Seq(Nat)
    BY <1>2, <2>1, <2>2
  <2>4. \A i \in 1 .. n : tail[i] = curve[i].equity
    BY <1>1, <1>4
  <2>5. \A i \in 1 .. n : equity[i + 1] = tail[i]
    BY <1>2, <1>4, <2>1, <2>2
  <2>6. equity[1] = InitialCash
    BY <1>2, <2>1, <2>2
  <2> QED
    BY <2>3, <2>4, <2>5, <2>6
<1>7. /\ w \in Drop
      /\ \A i \in 1 .. n : curve[i].drawdown[1] * w[2] <= w[1] * curve[i].drawdown[2]
      /\ w = Zero \/ \E i \in 1 .. n : w = curve[i].drawdown
  BY <1>3, WorstFacts
<1>8. InitialCash \in Nat
  BY BacktestAssumption
<1>9. ASSUME NEW k \in 1 .. n
      PROVE  \E p \in Nat \ {0} :
                 /\ curve[k].drawdown[1] = p - curve[k].equity /\ curve[k].drawdown[2] = p
                 /\ \A i \in 1 .. k + 1 : equity[i] \in Nat /\ equity[i] <= p
                 /\ \E i \in 1 .. k + 1 : p = equity[i]
  <2>1. PICK p : p = curve[k].drawdown[2]
    OBVIOUS
  <2>2. PeakOf(p, curve, k) /\ curve[k].drawdown[1] = p - curve[k].equity
    BY <1>3, <2>1 DEF Peaks
  <2>3. ASSUME NEW i \in 1 .. k + 1 PROVE equity[i] \in Nat /\ equity[i] <= p
    <3>1. CASE i = 1
      BY <1>6, <1>8, <2>2, <3>1 DEF PeakOf
    <3>2. CASE i # 1
      <4>1. PICK j : j = i - 1
        OBVIOUS
      <4>2. j \in 1 .. k /\ j \in 1 .. n /\ i = j + 1
        BY <1>4, <3>2, <4>1
      <4> QED
        BY <1>5, <1>6, <2>2, <4>2 DEF PeakOf
    <3> QED
      BY <3>1, <3>2
  <2>4. \E i \in 1 .. k + 1 : p = equity[i]
    <3>1. CASE p = InitialCash
      <4>1. 1 \in 1 .. k + 1
        BY <1>4
      <4> QED
        BY <1>6, <3>1, <4>1
    <3>2. CASE p # InitialCash
      <4>1. PICK j \in 1 .. k : p = curve[j].equity
        BY <2>2, <3>2 DEF PeakOf
      <4>2. j + 1 \in 1 .. k + 1 /\ j \in 1 .. n
        BY <1>4
      <4> QED
        BY <1>6, <4>1, <4>2
    <3> QED
      BY <3>1, <3>2
  <2> QED
    BY <2>1, <2>2, <2>3, <2>4 DEF PeakOf
<1>10. ASSUME NEW i \in 1 .. n + 1, NEW k \in 1 .. n + 1, i <= k
       PROVE  (equity[i] - equity[k]) * w[2] <= w[1] * equity[i]
  <2>1. CASE k = 1
    <3>1. equity[i] = InitialCash /\ equity[k] = InitialCash
      BY <1>6, <1>10, <2>1
    <3>2. w[1] \in Nat /\ w[2] \in Nat
      BY <1>7 DEF Drop
    <3>3. (InitialCash - InitialCash) * w[2] = 0 /\ w[1] * InitialCash \in Nat
      BY <1>8, <3>2
    <3> QED
      BY <3>1, <3>3
  <2>2. CASE k # 1
    <3>1. PICK j : j = k - 1
      OBVIOUS
    <3>2. j \in 1 .. n /\ k = j + 1 /\ i \in 1 .. j + 1 /\ k \in 1 .. j + 1
      BY <1>4, <1>10, <2>2, <3>1
    <3>3. PICK p \in Nat \ {0} :
              /\ curve[j].drawdown[1] = p - curve[j].equity /\ curve[j].drawdown[2] = p
              /\ \A x \in 1 .. j + 1 : equity[x] \in Nat /\ equity[x] <= p
      BY <1>9, <3>2
    <3>4. PICK e, low : e = equity[i] /\ low = equity[k]
      OBVIOUS
    <3>5. /\ e \in Nat /\ low \in Nat /\ e <= p /\ low <= p /\ low = curve[j].equity
      BY <1>6, <3>2, <3>3, <3>4
    <3>6. (p - low) * w[2] <= w[1] * p
      BY <1>7, <3>2, <3>3, <3>5
    <3>7. (e - low) * w[2] <= w[1] * e
      BY <1>7, <3>5, <3>6, LowerFall
    <3> QED
      BY <3>4, <3>7
  <2> QED
    BY <2>1, <2>2
<1>11. \E i \in 1 .. n + 1, k \in 1 .. n + 1 :
           i <= k /\ Same(<<equity[i] - equity[k], equity[i]>>, w)
  <2>1. CASE w = Zero
    <3>1. 1 \in 1 .. n + 1
      BY <1>4
    <3>2. Same(<<equity[1] - equity[1], equity[1]>>, w)
      <4>1. (InitialCash - InitialCash) * 1 = 0 * InitialCash
        BY <1>8
      <4> QED
        BY <1>6, <2>1, <4>1 DEF Same, Zero
    <3> QED
      BY <3>1, <3>2
  <2>2. CASE w # Zero
    <3>1. PICK k \in 1 .. n : w = curve[k].drawdown
      BY <1>7, <2>2
    <3>2. PICK p \in Nat \ {0} :
              /\ curve[k].drawdown[1] = p - curve[k].equity /\ curve[k].drawdown[2] = p
              /\ \E i \in 1 .. k + 1 : p = equity[i]
      BY <1>9
    <3>3. PICK i \in 1 .. k + 1 : p = equity[i]
      BY <3>2
    <3>4. i \in 1 .. n + 1 /\ k + 1 \in 1 .. n + 1 /\ i <= k + 1
      BY <1>4
    <3>5. w[1] = equity[i] - equity[k + 1] /\ w[2] = equity[i]
      BY <1>6, <3>1, <3>2, <3>3
    <3>6. Same(<<equity[i] - equity[k + 1], equity[i]>>, w)
      <4>1. PICK x, y : x = equity[i] - equity[k + 1] /\ y = equity[i]
        OBVIOUS
      <4>2. Same(<<x, y>>, w)
        BY <3>5, <4>1 DEF Same
      <4> QED
        BY <4>1, <4>2
    <3> QED
      BY <3>4, <3>6
  <2> QED
    BY <2>1, <2>2
<1> DEFINE spans == {p \in (DOMAIN equity) \X (DOMAIN equity) : p[1] <= p[2]}
           falls == {<<equity[p[1]] - equity[p[2]], equity[p[1]]>> : p \in spans}
<1>12. \A fall \in falls : fall[1] * w[2] <= w[1] * fall[2]
  <2> SUFFICES ASSUME NEW fall \in falls PROVE fall[1] * w[2] <= w[1] * fall[2]
    OBVIOUS
  <2>1. PICK p \in spans : fall = <<equity[p[1]] - equity[p[2]], equity[p[1]]>>
    OBVIOUS
  <2>2. p[1] \in 1 .. n + 1 /\ p[2] \in 1 .. n + 1 /\ p[1] <= p[2]
    BY <1>6
  <2>3. (equity[p[1]] - equity[p[2]]) * w[2] <= w[1] * equity[p[1]]
    BY <1>10, <2>2
  <2> QED
    BY <2>1, <2>3
<1>13. \E fall \in falls : Same(fall, w)
  <2>1. PICK i \in 1 .. n + 1, k \in 1 .. n + 1 :
            i <= k /\ Same(<<equity[i] - equity[k], equity[i]>>, w)
    BY <1>11
  <2>2. <<i, k>> \in spans
    BY <1>6, <2>1
  <2>3. <<equity[i] - equity[k], equity[i]>> \in falls
    BY <2>2
  <2> HIDE DEF falls, spans
  <2> QED
    BY <2>1, <2>3
<1> QED
  BY <1>1, <1>2, <1>12, <1>13 DEF FallsWithin

-----------------------------------------------------------------------------
(* The opening of a replay                                                  *)

\* Before the first bar nothing is held and nothing was spent.
OpeningInv == now = 0 => position = [s \in Symbol |-> Flat] /\ cash = InitialCash

\* The account that every replay opens with.
FirstAccount ==
    [position |-> [s \in Symbol |-> Flat], realized |-> [s \in Symbol |-> Zero],
     cash |-> InitialCash, peak |-> InitialCash, fills |-> <<>>, outcomes |-> <<>>,
     curve |-> <<>>, raised |-> FALSE]

LEMMA FirstAccountType == FirstAccount \in ReplayAccount
<1>1. InitialCash \in Nat \ {0}
  BY BacktestAssumption
<1>2. [s \in Symbol |-> Flat] \in [Symbol -> LongRow]
  BY FlatIsLong
<1>3. [s \in Symbol |-> Zero] \in [Symbol -> Ratio]
  BY DEF Zero, Ratio
<1>4. <<>> \in Seq(FilledOrder) /\ <<>> \in Seq(Ratio) /\ <<>> \in Seq(Point)
  OBVIOUS
<1> QED
  BY <1>1, <1>2, <1>3, <1>4 DEF FirstAccount, ReplayAccount

LEMMA ReportedFacts ==
    ASSUME OpeningInv, NEW bars \in Reported
    PROVE  /\ bars \in Seq(ReplayBar) \ {<<>>}
           /\ Account(bars) = Rolled(FirstAccount, bars)
           /\ ~Account(bars).raised
<1>1. now = 0 /\ bars \in Replay /\ ~Account(bars).raised
  BY DEF Reported
<1>2. Opening = FirstAccount
  BY <1>1 DEF Opening, FirstAccount, OpeningInv
<1> QED
  BY <1>1, <1>2, ReplayAssumption DEF Account, Rolled


-----------------------------------------------------------------------------
(* Every unit of equity is explained                                        *)

\* What the shares of a position cost.
Cost(p) == <<p.qty * p.avg[1], p.avg[2]>>
Costs(positions) == [s \in Symbol |-> Cost(positions[s])]

\* The cash that was spent and what it bought are the profits.
Explained(rows, realized, c) ==
    Same(Plus(Whole(c - InitialCash), SumOf(Costs(rows))), SumOf(realized))

LEMMA CostType ==
    ASSUME NEW p \in LongRow
    PROVE  Cost(p) \in Ratio
<1>1. p.qty \in Nat /\ p.avg[1] \in Int /\ p.avg[2] \in Nat \ {0}
  BY DEF LongRow, Ratio
<1>2. p.qty * p.avg[1] \in Int
  BY <1>1
<1> QED
  BY <1>1, <1>2 DEF Cost, Ratio

\* What a fill takes from the cash it adds to the costs, but for the profit.
LEMMA FillBalances ==
    ASSUME NEW p \in LongRow, NEW fill \in FilledOrder,
           fill.side = "sell" => fill.qty <= Release(p, fill.day, fill.day).sellable,
           NEW q, q = Applied(p, fill),
           NEW delta, delta = RealizedDelta(Release(p, fill.day, fill.day), fill)
    PROVE  Same(Plus(Whole(CashFlow(fill)), Cost(q)), Plus(delta, Cost(p)))
<1>1. PICK r : r = Release(p, fill.day, fill.day)
  OBVIOUS
<1>2. r \in LongRow /\ r.qty = p.qty /\ r.avg = p.avg
  <2>1. fill.day \in Int
    BY DEF FilledOrder
  <2> QED
    BY <1>1, <2>1, RowReleased
<1>3. PICK h, a, d, n, x, flow :
          /\ h = r.qty /\ a = r.avg[1] /\ d = r.avg[2]
          /\ n = fill.qty /\ x = fill.price /\ flow = CashFlow(fill)
  OBVIOUS
<1>4. /\ h \in Nat /\ a \in Int /\ d \in Nat \ {0} /\ n \in Nat \ {0} /\ x \in Nat
      /\ flow \in Int /\ r.sellable \in Nat /\ r.sellable <= r.qty
      /\ fill.side \in {"buy", "sell"}
  BY <1>2, <1>3, FilledFlow DEF LongRow, Ratio, FilledOrder
<1>5. Cost(p) = <<h * a, d>>
  BY <1>2, <1>3 DEF Cost
<1>6. CASE fill.side = "buy"
  <2>1. q.qty = h + n /\ q.avg = <<h * a + n * x * d, (h + n) * d>>
    BY <1>1, <1>3, <1>6 DEF Applied, Bought
  <2>2. delta = <<flow + n * x, 1>>
    <3>1. n * x \in Nat
      BY <1>4
    <3>2. -(-flow - n * x) = flow + n * x
      BY <1>4, <3>1
    <3>3. delta = <<-(-flow - n * x), 1>>
      BY <1>3, <1>6 DEF RealizedDelta, TotalFee
    <3> QED
      BY <3>2, <3>3
  <2>3. PICK m, k : m = h * a + n * x * d /\ k = h + n
    OBVIOUS
  <2>4. m \in Int /\ k \in Nat \ {0}
    BY <1>4, <2>3
  <2>5. Cost(q) = <<k * m, k * d>>
    BY <2>1, <2>3 DEF Cost
  <2>6. PICK c, e : c = Cost(q) /\ e = <<m, d>>
    OBVIOUS
  <2>7. c \in Ratio /\ e \in Ratio /\ Same(c, e)
    <3>1. e \in Ratio
      BY <1>4, <2>4, <2>6 DEF Ratio
    <3> QED
      BY <1>4, <2>4, <2>5, <2>6, <3>1, SameScaled
  <2>8. Same(Plus(Whole(flow), c), Plus(Whole(flow), e))
    <3>1. PICK w : w = Whole(flow)
      OBVIOUS
    <3>2. w \in Ratio /\ Same(w, w)
      BY <1>4, <3>1, WholePlus, PlusLaws
    <3> QED
      BY <2>7, <3>1, <3>2, SameSums
  <2>9. Plus(Whole(flow), e) = Plus(delta, Cost(p))
    <3>1. flow * d + m * 1 = (flow + n * x) * d + (h * a) * 1
      BY <1>4, <2>3
    <3> QED
      BY <1>5, <2>2, <2>6, <3>1 DEF Plus, Whole
  <2> QED
    BY <1>3, <2>6, <2>8, <2>9
<1>7. CASE fill.side = "sell"
  <2>1. n <= h /\ q = Sold(r, fill)
    BY <1>1, <1>3, <1>4, <1>7 DEF Applied
  <2>2. delta = <<(x * d - a) * n - (n * x - flow) * d, d>>
    BY <1>1, <1>3, <1>7 DEF RealizedDelta, SaleOutcome, TotalFee
  <2>3. (x * d - a) * n - (n * x - flow) * d = flow * d - a * n
    BY <1>4
  <2>4. Plus(delta, Cost(p)) = <<(flow * d - a * n) * d + (h * a) * d, d * d>>
    BY <1>5, <2>2, <2>3 DEF Plus
  <2>5. CASE n = h
    <3>1. q.qty = 0 /\ q.avg = <<0, Grid>>
      BY <1>3, <2>1, <2>5 DEF Sold, Flat, NoPrice
    <3>2. Plus(Whole(flow), Cost(q)) = <<flow * Grid + (0 * 0) * 1, 1 * Grid>>
      BY <3>1 DEF Plus, Whole, Cost
    <3>3. (flow * d - a * n) * d + (h * a) * d = flow * d * d
      BY <1>4, <2>5
    <3>4. (flow * Grid + (0 * 0) * 1) * (d * d) = (flow * d * d) * (1 * Grid)
      BY <1>4, FeeAssumption
    <3> QED
      BY <1>3, <2>4, <3>2, <3>3, <3>4 DEF Same
  <2>6. CASE n # h
    <3>1. q.qty = h - n /\ q.avg = r.avg
      BY <1>2, <1>3, <2>1, <2>6 DEF Sold, LongRow
    <3>2. Plus(Whole(flow), Cost(q)) = <<flow * d + ((h - n) * a) * 1, 1 * d>>
      BY <1>3, <3>1 DEF Plus, Whole, Cost
    <3>3. (flow * d + ((h - n) * a) * 1) * (d * d)
              = ((flow * d - a * n) * d + (h * a) * d) * (1 * d)
      BY <1>4
    <3> QED
      BY <1>3, <2>4, <3>2, <3>3 DEF Same
  <2> QED
    BY <2>5, <2>6
<1> QED
  BY <1>4, <1>6, <1>7

\* One summand is exchanged for another.
Exchanged(g, h, s, x) == h = [g EXCEPT ![s] = x]

LEMMA SumExchanged ==
    ASSUME NEW g \in [Symbol -> Ratio], NEW s \in Symbol, NEW x \in Ratio,
           NEW h, Exchanged(g, h, s, x)
    PROVE  \E c \in Ratio : SumOf(g) = Plus(g[s], c) /\ SumOf(h) = Plus(x, c)
<1>1. h \in [Symbol -> Ratio] /\ h[s] = x
  BY DEF Exchanged
<1>2. Without(g, s) = Without(h, s)
  BY DEF Without, Exchanged
<1>3. PICK c, e : c = SumOf(Without(g, s)) /\ e = SumOf(Without(h, s))
  OBVIOUS
<1>4. c \in Ratio /\ SumOf(g) = Plus(g[s], c)
  BY <1>3, SumOfWithout, ReplayAssumption
<1>5. SumOf(h) = Plus(h[s], e)
  BY <1>1, <1>3, SumOfWithout, ReplayAssumption
<1> QED
  BY <1>1, <1>2, <1>3, <1>4, <1>5

\* The balances of a fill and of the account before it are that of the account
\* after it.
LEMMA BalancesAdd ==
    ASSUME NEW k \in Ratio, NEW f \in Ratio, NEW p \in Ratio, NEW q \in Ratio, NEW c \in Ratio,
           NEW d \in Ratio, NEW r \in Ratio, NEW o \in Ratio,
           Same(Plus(k, Plus(p, c)), Plus(r, o)), Same(Plus(f, q), Plus(d, p))
    PROVE  Same(Plus(Plus(k, f), Plus(q, c)), Plus(Plus(r, d), o))
<1>1. PICK kc, pc, fq, dp, ro :
          /\ kc = Plus(k, c) /\ pc = Plus(p, c) /\ fq = Plus(f, q) /\ dp = Plus(d, p)
          /\ ro = Plus(r, o)
  OBVIOUS
<1>2. kc \in Ratio /\ pc \in Ratio /\ fq \in Ratio /\ dp \in Ratio /\ ro \in Ratio
  BY <1>1, PlusType
<1>3. PICK t, u, v, w :
          t = Plus(fq, kc) /\ u = Plus(dp, kc) /\ v = Plus(k, pc) /\ w = Plus(ro, d)
  OBVIOUS
<1>4. t \in Ratio /\ u \in Ratio /\ v \in Ratio /\ w \in Ratio
  BY <1>2, <1>3, PlusType
<1>5. Plus(Plus(k, f), Plus(q, c)) = t
  <2>1. Plus(Plus(k, f), Plus(q, c)) = Plus(Plus(f, k), Plus(q, c)) 
    <3>1. Plus(k, f) = Plus(f, k)
      BY PlusLaws
    <3> QED
      BY <3>1
  <2>2. Plus(Plus(f, k), Plus(q, c)) = Plus(Plus(f, q), Plus(k, c))
    BY Paired
  <2> QED
    BY <1>1, <1>3, <2>1, <2>2
<1>6. Same(t, u)
  BY <1>1, <1>2, <1>3, PlusLaws
<1>7. u = Plus(v, d)
  <2>1. u = Plus(d, Plus(p, kc))
    BY <1>1, <1>2, <1>3, PlusLaws
  <2>2. Plus(p, kc) = v
    BY <1>1, <1>3, PlusCommutes
  <2>3. Plus(d, v) = Plus(v, d)
    BY <1>4, PlusLaws
  <2> QED
    BY <2>1, <2>2, <2>3
<1>8. Same(u, w)
  <2>1. Same(v, ro)
    BY <1>1, <1>3
  <2>2. Same(Plus(v, d), Plus(ro, d))
    BY <1>2, <1>4, <2>1, PlusLaws
  <2> QED
    BY <1>3, <1>7, <2>2
<1>9. w = Plus(Plus(r, d), o)
  BY <1>1, <1>3, Joined
<1>10. Same(t, w)
  BY <1>4, <1>6, <1>8, SameTransitive
<1> QED
  BY <1>5, <1>9, <1>10

LEMMA ExplainedFill ==
    ASSUME NEW a \in ReplayAccount, Explained(a.position, a.realized, a.cash),
           NEW fill \in FilledOrder, Accepts(a.position[fill.symbol], a.cash, fill),
           NEW delta,
           delta = RealizedDelta(Release(a.position[fill.symbol], fill.day, fill.day), fill),
           NEW w, FillBooked(a, fill, delta, w)
    PROVE  Explained(w.position, w.realized, w.cash)
<1>1. PICK s, p, q, flow :
          /\ s = fill.symbol /\ p = a.position[s] /\ q = Applied(p, fill)
          /\ flow = CashFlow(fill)
  OBVIOUS
<1>2. /\ s \in Symbol /\ a.position \in [Symbol -> LongRow] /\ p \in LongRow
      /\ a.realized \in [Symbol -> Ratio] /\ a.cash \in Nat /\ flow \in Int
      /\ delta \in Ratio
  BY <1>1, FilledFlow DEF ReplayAccount, FilledOrder, FillBooked
<1>3. fill.side = "sell" => fill.qty <= Release(p, fill.day, fill.day).sellable
  BY <1>1 DEF Accepts
<1>4. q \in LongRow
  BY <1>1, <1>2, <1>3, RowApplied
<1>5. /\ w.position = [a.position EXCEPT ![s] = q]
      /\ w.realized = [a.realized EXCEPT ![s] = Plus(a.realized[s], delta)]
      /\ w.cash = a.cash + flow
  <2>1. PICK e, l, m : /\ e = Plus(a.realized[s], delta) /\ l = Append(a.fills, fill)
                       /\ m = IF fill.side = "sell" THEN Append(a.outcomes, delta) ELSE a.outcomes
    OBVIOUS
  <2>2. w = [a EXCEPT !.position[s] = q, !.realized[s] = e, !.cash = a.cash + flow,
                      !.fills = l, !.outcomes = m]
    BY <1>1, <2>1 DEF FillBooked
  <2> QED
    BY <2>1, <2>2 DEF ReplayAccount
<1>6. Cost(p) \in Ratio /\ Cost(q) \in Ratio
  BY <1>2, <1>4, CostType
<1>7. PICK g, h : g = Costs(a.position) /\ h = Costs(w.position)
  OBVIOUS
<1>8. g \in [Symbol -> Ratio] /\ g[s] = Cost(p) /\ h = [g EXCEPT ![s] = Cost(q)]
  <2>1. \A x \in Symbol : Cost(a.position[x]) \in Ratio
    BY <1>2, CostType
  <2>2. g \in [Symbol -> Ratio] /\ g[s] = Cost(p)
    BY <1>1, <1>2, <1>7, <2>1 DEF Costs
  <2>3. \A x \in Symbol : w.position[x] = IF x = s THEN q ELSE a.position[x]
    BY <1>2, <1>5
  <2>4. \A x \in Symbol : h[x] = IF x = s THEN Cost(q) ELSE g[x]
    BY <1>7, <2>3 DEF Costs
  <2> QED
    BY <1>2, <1>7, <2>2, <2>4 DEF Costs
<1>9. PICK c \in Ratio : SumOf(g) = Plus(Cost(p), c) /\ SumOf(h) = Plus(Cost(q), c)
  <2>1. Exchanged(g, h, s, Cost(q))
    BY <1>8 DEF Exchanged
  <2> QED
    BY <1>2, <1>6, <1>8, <2>1, SumExchanged
<1>10. PICK x, y : x = a.realized[s] /\ y = Plus(a.realized[s], delta)
  OBVIOUS
<1>11. x \in Ratio /\ y \in Ratio
  BY <1>2, <1>10, PlusType
<1>12. PICK o \in Ratio : SumOf(a.realized) = Plus(x, o) /\ SumOf(w.realized) = Plus(y, o)
  <2>1. Exchanged(a.realized, w.realized, s, y)
    BY <1>5, <1>10 DEF Exchanged
  <2> QED
    BY <1>2, <1>10, <1>11, <2>1, SumExchanged
<1>13. PICK k, f : k = Whole(a.cash - InitialCash) /\ f = Whole(flow)
  OBVIOUS
<1>14. k \in Ratio /\ f \in Ratio /\ Plus(k, f) = Whole(w.cash - InitialCash)
  <2>1. a.cash - InitialCash \in Int /\ (a.cash - InitialCash) + flow = w.cash - InitialCash
    BY <1>2, <1>5, BacktestAssumption
  <2> QED
    BY <1>2, <1>13, <2>1, WholePlus
<1>15. Same(Plus(k, Plus(Cost(p), c)), Plus(x, o))
  BY <1>7, <1>9, <1>12, <1>13 DEF Explained
<1>16. Same(Plus(f, Cost(q)), Plus(delta, Cost(p)))
  BY <1>1, <1>2, <1>3, <1>13, FillBalances
<1>17. Same(Plus(Plus(k, f), Plus(Cost(q), c)), Plus(Plus(x, delta), o))
  BY <1>2, <1>6, <1>11, <1>14, <1>15, <1>16, BalancesAdd
<1> QED
  BY <1>7, <1>9, <1>10, <1>12, <1>14, <1>17 DEF Explained

\* Where the equity comes from, at a point of the curve.
PointExplained(point) ==
    Same(<<point.equity - InitialCash, 1>>, Plus(point.realized, point.unrealized))

LEMMA ExplainedPoint ==
    ASSUME NEW a \in ReplayAccount, Explained(a.position, a.realized, a.cash),
           NEW bar, NEW equity, equity = a.cash + Market(a),
           NEW point, point = PointOf(a, bar, equity)
    PROVE  PointExplained(point)
<1>1. /\ a.position \in [Symbol -> LongRow] /\ a.realized \in [Symbol -> Ratio] /\ a.cash \in Nat
      /\ InitialCash \in Nat
  BY BacktestAssumption DEF ReplayAccount
<1>2. PICK u, c, m : /\ u = [s \in Symbol |-> Unrealized(a.position[s])]
                     /\ c = Costs(a.position)
                     /\ m = [s \in Symbol |-> a.position[s].qty * a.position[s].mark]
  OBVIOUS
<1>3. u \in [Symbol -> Ratio] /\ c \in [Symbol -> Ratio]
  BY <1>1, <1>2, UnrealizedType, CostType DEF Costs
<1>4. ASSUME NEW s \in Symbol
      PROVE  m[s] \in Int /\ Same(Plus(u[s], c[s]), Whole(m[s]))
  <2>1. PICK p : p = a.position[s]
    OBVIOUS
  <2>2. PICK q, k, n, d : q = p.qty /\ k = p.mark /\ n = p.avg[1] /\ d = p.avg[2]
    OBVIOUS
  <2>3. q \in Nat /\ k \in Nat /\ n \in Int /\ d \in Nat \ {0}
    BY <1>1, <2>1, <2>2 DEF LongRow, Ratio
  <2>4. u[s] = <<q * (k * d - n), d>> /\ c[s] = <<q * n, d>> /\ m[s] = q * k
    BY <1>2, <2>1, <2>2 DEF Unrealized, Cost, Costs
  <2>5. ((q * (k * d - n)) * d + (q * n) * d) * 1 = (q * k) * (d * d)
    BY <2>3
  <2>6. Same(Plus(u[s], c[s]), Whole(m[s]))
    BY <2>4, <2>5 DEF Same, Plus, Whole
  <2> QED
    BY <2>3, <2>4, <2>6
<1>5. /\ SumOver(m, Symbol) \in Int
      /\ Same(Plus(SumOf(u), SumOf(c)), Whole(SumOver(m, Symbol)))
  BY <1>3, <1>4, SumsBalance, ReplayAssumption
<1>6. Market(a) = SumOver(m, Symbol)
  <2>1. DOMAIN m = Symbol /\ Market(a) = SumFunction(m)
    BY <1>2 DEF Market
  <2> QED
    BY <2>1, SumFunctionIs
<1>7. PICK us, cs, rs, k, w :
          /\ us = SumOf(u) /\ cs = SumOf(c) /\ rs = SumOf(a.realized)
          /\ k = Whole(a.cash - InitialCash) /\ w = Whole(Market(a))
  OBVIOUS
<1>8. us \in Ratio /\ cs \in Ratio /\ rs \in Ratio
  BY <1>1, <1>3, <1>7, SumOfType, ReplayAssumption
<1>9. k \in Ratio /\ w \in Ratio /\ Plus(k, w) = Whole(equity - InitialCash)
  <2>1. /\ a.cash - InitialCash \in Int /\ Market(a) \in Int
        /\ (a.cash - InitialCash) + Market(a) = equity - InitialCash
    BY <1>1, <1>5, <1>6
  <2> QED
    BY <1>7, <2>1, WholePlus
<1>10. Same(Plus(k, cs), rs) /\ Same(Plus(us, cs), w)
  BY <1>2, <1>5, <1>6, <1>7 DEF Explained
<1>11. PICK kc, uc, s, t :
           kc = Plus(k, cs) /\ uc = Plus(us, cs) /\ s = Plus(kc, us) /\ t = Plus(rs, us)
  OBVIOUS
<1>12. kc \in Ratio /\ uc \in Ratio /\ s \in Ratio /\ t \in Ratio
  BY <1>8, <1>9, <1>11, PlusType
<1>13. Same(s, t)
  BY <1>8, <1>10, <1>11, <1>12, PlusLaws
<1>14. s = Plus(k, uc)
  <2>1. Plus(kc, us) = Plus(k, Plus(cs, us)) /\ Plus(cs, us) = Plus(us, cs)
    BY <1>8, <1>9, <1>11, PlusLaws
  <2> QED
    BY <1>11, <2>1
<1>15. PICK e : e = Plus(k, w)
  OBVIOUS
<1>16. e \in Ratio /\ Same(s, e)
  <2>1. e \in Ratio
    BY <1>9, <1>15, PlusType
  <2>2. Same(k, k)
    BY <1>9, PlusLaws
  <2>3. Same(Plus(k, uc), Plus(k, w))
    BY <1>9, <1>10, <1>11, <1>12, <2>2, SameSums
  <2> QED
    BY <1>14, <1>15, <2>1, <2>3
<1>17. Same(e, s)
  <2>1. Same(e, e)
    BY <1>16, PlusLaws
  <2> QED
    BY <1>12, <1>16, <2>1, SameTransitive
<1>18. Same(e, t)
  BY <1>12, <1>13, <1>16, <1>17, SameTransitive
<1>19. /\ point.equity = equity /\ point.realized = rs /\ point.unrealized = us
  BY <1>2, <1>7 DEF PointOf
<1>20. e = <<equity - InitialCash, 1>>
  BY <1>9, <1>15 DEF Whole
<1> QED
  BY <1>11, <1>18, <1>19, <1>20 DEF PointExplained

-----------------------------------------------------------------------------
(* The trades and the fees of the purchases                                 *)

Purchases(fills) == {i \in DOMAIN fills : fills[i].side = "buy"}
PurchaseFees(fills) == SumFunction([i \in Purchases(fills) |-> TotalFee(fills[i])])
AllOutcomes(outcomes) == SumOfThe(outcomes, DOMAIN outcomes)

LEMMA FeesAppend ==
    ASSUME NEW fills \in Seq(FilledOrder), NEW fill \in FilledOrder
    PROVE  /\ PurchaseFees(fills) \in Int
           /\ PurchaseFees(Append(fills, fill))
                = IF fill.side = "buy" THEN PurchaseFees(fills) + TotalFee(fill)
                  ELSE PurchaseFees(fills)
<1>1. PICK n, more : n = Len(fills) /\ more = Append(fills, fill)
  OBVIOUS
<1>2. /\ n \in Nat /\ DOMAIN fills = 1 .. n /\ DOMAIN more = 1 .. n + 1
      /\ more[n + 1] = fill /\ \A i \in 1 .. n : more[i] = fills[i] /\ fills[i] \in FilledOrder
  BY <1>1
<1>3. PICK A, B, g, h :
          /\ A = Purchases(fills) /\ B = Purchases(more)
          /\ g = [i \in A |-> TotalFee(fills[i])] /\ h = [i \in B |-> TotalFee(more[i])]
  OBVIOUS
<1>4. A \subseteq 1 .. n /\ B \subseteq 1 .. n + 1 /\ IsFiniteSet(A) /\ IsFiniteSet(B)
  <2>1. A \subseteq 1 .. n /\ B \subseteq 1 .. n + 1
    BY <1>2, <1>3 DEF Purchases
  <2>2. IsFiniteSet(1 .. n) /\ IsFiniteSet(1 .. n + 1)
    BY <1>2, FS_Interval
  <2> QED
    BY <2>1, <2>2, FS_Subset
<1>5. \A i \in 1 .. n + 1 : more[i] \in FilledOrder /\ TotalFee(more[i]) \in Int
  <2> SUFFICES ASSUME NEW i \in 1 .. n + 1 PROVE more[i] \in FilledOrder
    BY FilledFlow
  <2>1. CASE i = n + 1
    BY <1>2, <2>1
  <2>2. CASE i # n + 1
    <3>1. i \in 1 .. n
      BY <1>2, <2>2
    <3> QED
      BY <1>2, <3>1
  <2> QED
    BY <2>1, <2>2
<1>6. \A i \in A : g[i] \in Int /\ i \in B /\ i # n + 1 /\ h[i] = g[i]
  <2> SUFFICES ASSUME NEW i \in A PROVE g[i] \in Int /\ i \in B /\ i # n + 1 /\ h[i] = g[i]
    OBVIOUS
  <2>1. i \in 1 .. n /\ i \in 1 .. n + 1 /\ i # n + 1
    BY <1>2, <1>4
  <2>2. more[i] = fills[i] /\ i \in B
    BY <1>2, <1>3, <2>1 DEF Purchases
  <2> QED
    BY <1>3, <1>5, <2>1, <2>2
<1>7. \A i \in B : h[i] \in Int
  BY <1>3, <1>4, <1>5
<1>8. PurchaseFees(fills) = SumOver(g, A) /\ PurchaseFees(more) = SumOver(h, B)
  BY <1>3, SumFunctionIs DEF PurchaseFees
<1>9. SumOver(g, A) \in Int /\ SumOver(g, A) = SumOver(h, A)
  <2>1. PICK e : Sums(e, g, A) /\ SumOver(g, A) = e[A]
    BY <1>4, <1>6, SumOverIsSum
  <2>2. SumOver(g, A) = SumOver(h, A)
    BY <1>4, <1>6, SumOverSame
  <2> QED
    BY <2>1, <2>2 DEF Sums
<1>10. CASE fill.side = "buy"
  <2>1. n + 1 \in B /\ B \ {n + 1} = A
    <3>1. n + 1 \in B
      BY <1>2, <1>3, <1>10 DEF Purchases
    <3>2. \A i \in B : i # n + 1 => i \in A
      <4> SUFFICES ASSUME NEW i \in B, i # n + 1 PROVE i \in A
        OBVIOUS
      <4>1. i \in 1 .. n
        BY <1>2, <1>4
      <4> QED
        BY <1>2, <1>3, <4>1 DEF Purchases
    <3> QED
      BY <1>6, <3>1, <3>2
  <2>2. h[n + 1] = TotalFee(fill)
    BY <1>2, <1>3, <2>1
  <2>3. SumOver(h, B) = h[n + 1] + SumOver(h, B \ {n + 1}) /\ h[n + 1] \in Int
    BY <1>4, <1>7, <2>1, SumOverRemove
  <2>4. SumOver(h, B) = TotalFee(fill) + SumOver(h, A) /\ TotalFee(fill) \in Int
    BY <2>1, <2>2, <2>3
  <2> QED
    BY <1>1, <1>8, <1>9, <1>10, <2>4
<1>11. CASE fill.side # "buy"
  <2>1. B = A
    <3>1. \A i \in B : i \in A
      <4> SUFFICES ASSUME NEW i \in B PROVE i \in A
        OBVIOUS
      <4>1. i # n + 1
        BY <1>2, <1>3, <1>11 DEF Purchases
      <4>2. i \in 1 .. n
        BY <1>2, <1>4, <4>1
      <4> QED
        BY <1>2, <1>3, <4>2 DEF Purchases
    <3> QED
      BY <1>6, <3>1
  <2> QED
    BY <1>1, <1>8, <1>9, <1>11, <2>1
<1> QED
  BY <1>8, <1>9, <1>10, <1>11

LEMMA OutcomesType ==
    ASSUME NEW outcomes \in Seq(Ratio), NEW places \in SUBSET DOMAIN outcomes
    PROVE  SumOfThe(outcomes, places) \in Ratio /\ IsFiniteSet(places)
<1>1. IsFiniteSet(DOMAIN outcomes)
  <2>1. DOMAIN outcomes = 1 .. Len(outcomes) /\ Len(outcomes) \in Nat
    OBVIOUS
  <2> QED
    BY <2>1, FS_Interval
<1>2. IsFiniteSet(places)
  BY <1>1, FS_Subset
<1>3. PICK g : g = [i \in places |-> outcomes[i]]
  OBVIOUS
<1>4. g \in [places -> Ratio]
  BY <1>3
<1>5. SumOf(g) \in Ratio
  BY <1>2, <1>4, SumOfType
<1> QED
  BY <1>2, <1>3, <1>5 DEF SumOfThe

LEMMA OutcomesAppend ==
    ASSUME NEW outcomes \in Seq(Ratio), NEW delta \in Ratio
    PROVE  /\ AllOutcomes(outcomes) \in Ratio
           /\ AllOutcomes(Append(outcomes, delta)) = Plus(delta, AllOutcomes(outcomes))
<1>1. PICK n, more : n = Len(outcomes) /\ more = Append(outcomes, delta)
  OBVIOUS
<1>2. /\ n \in Nat /\ DOMAIN outcomes = 1 .. n /\ DOMAIN more = 1 .. n + 1
      /\ more[n + 1] = delta /\ more \in Seq(Ratio) /\ \A i \in 1 .. n : more[i] = outcomes[i]
  BY <1>1
<1>3. PICK S, g, h : /\ S = 1 .. n + 1 /\ h = [i \in S |-> more[i]]
                     /\ g = [i \in 1 .. n |-> outcomes[i]]
  OBVIOUS
<1>4. IsFiniteSet(S) /\ n + 1 \in S /\ h \in [S -> Ratio] /\ h[n + 1] = delta
  <2>1. IsFiniteSet(S)
    BY <1>2, <1>3, FS_Interval
  <2> QED
    BY <1>2, <1>3, <2>1
<1>5. Without(h, n + 1) = g
  <2>1. S \ {n + 1} = 1 .. n
    BY <1>2, <1>3
  <2>2. DOMAIN h = S /\ \A i \in 1 .. n : h[i] = outcomes[i]
    BY <1>2, <1>3
  <2> QED
    BY <1>3, <2>1, <2>2 DEF Without
<1>6. SumOf(h) = Plus(delta, SumOf(g))
  BY <1>4, <1>5, SumOfWithout
<1>7. AllOutcomes(more) = SumOf(h) /\ AllOutcomes(outcomes) = SumOf(g)
  BY <1>2, <1>3 DEF AllOutcomes, SumOfThe
<1>8. AllOutcomes(outcomes) \in Ratio
  BY OutcomesType DEF AllOutcomes
<1> QED
  BY <1>1, <1>6, <1>7, <1>8

LEMMA OutcomesSplit ==
    ASSUME NEW outcomes \in Seq(Ratio)
    PROVE  /\ SumOfThe(outcomes, Gains(outcomes)) \in Ratio
           /\ SumOfThe(outcomes, Losses(outcomes)) \in Ratio
           /\ Same(AllOutcomes(outcomes), Plus(SumOfThe(outcomes, Gains(outcomes)),
                                               SumOfThe(outcomes, Losses(outcomes))))
<1>1. PICK S, A, B : S = DOMAIN outcomes /\ A = Gains(outcomes) /\ B = Losses(outcomes)
  OBVIOUS
<1>2. \A i \in S : outcomes[i] \in Ratio /\ outcomes[i][1] \in Int
  BY <1>1 DEF Ratio
<1>3. /\ A \in SUBSET S /\ B \in SUBSET S /\ A \cap B = {}
      /\ \A i \in S \ (A \union B) : outcomes[i][1] = 0
  BY <1>1, <1>2 DEF Gains, Losses
<1>4. /\ IsFiniteSet(S) /\ IsFiniteSet(A) /\ IsFiniteSet(B)
      /\ SumOfThe(outcomes, A) \in Ratio /\ SumOfThe(outcomes, B) \in Ratio
  <2>1. S \in SUBSET S
    OBVIOUS
  <2> QED
    BY <1>1, <1>3, <2>1, OutcomesType
<1>5. PICK g, a, b : /\ g = [i \in S |-> outcomes[i]]
                     /\ a = [i \in A |-> outcomes[i]] /\ b = [i \in B |-> outcomes[i]]
  OBVIOUS
<1>6. /\ g \in [S -> Ratio] /\ a \in [A -> Ratio] /\ b \in [B -> Ratio]
      /\ (\A i \in A : g[i] = a[i]) /\ (\A i \in B : g[i] = b[i])
      /\ \A i \in S \ (A \union B) : g[i][1] = 0
  BY <1>2, <1>3, <1>5
<1>7. PICK f : RatioSums(f, g, S) /\ SumOf(g) = f[S]
  BY <1>4, <1>6, SumOfIsSum
<1>8. SumOf(a) = f[A]
  <2>1. PICK e : RatioSums(e, a, A) /\ SumOf(a) = e[A]
    BY <1>4, <1>6, SumOfIsSum
  <2>2. RatioAdds(f, g, S) /\ RatioAdds(e, a, A)
    BY <1>7, <2>1 DEF RatioSums
  <2>3. f[A] = e[A]
    BY <1>3, <1>4, <1>6, <2>2, RatioSumsAgree
  <2> QED
    BY <2>1, <2>3
<1>9. SumOf(b) = f[B]
  <2>1. PICK e : RatioSums(e, b, B) /\ SumOf(b) = e[B]
    BY <1>4, <1>6, SumOfIsSum
  <2>2. RatioAdds(f, g, S) /\ RatioAdds(e, b, B)
    BY <1>7, <2>1 DEF RatioSums
  <2>3. f[B] = e[B]
    BY <1>3, <1>4, <1>6, <2>2, RatioSumsAgree
  <2> QED
    BY <2>1, <2>3
<1>10. Same(f[S], Plus(f[A], f[B]))
  BY <1>3, <1>4, <1>6, <1>7, SumSplits
<1>11. /\ AllOutcomes(outcomes) = f[S]
       /\ SumOfThe(outcomes, A) = f[A] /\ SumOfThe(outcomes, B) = f[B]
  BY <1>1, <1>5, <1>7, <1>8, <1>9 DEF AllOutcomes, SumOfThe
<1> QED
  BY <1>1, <1>4, <1>10, <1>11

\* The profits, with the fees of the purchases, are those of the trades.
Booked(realized, fills, outcomes) ==
    Same(Plus(SumOf(realized), Whole(PurchaseFees(fills))), AllOutcomes(outcomes))

LEMMA BookedFill ==
    ASSUME NEW a \in ReplayAccount, Booked(a.realized, a.fills, a.outcomes),
           NEW fill \in FilledOrder, NEW delta,
           NEW r, delta = RealizedDelta(r, fill),
           NEW w, FillBooked(a, fill, delta, w)
    PROVE  Booked(w.realized, w.fills, w.outcomes)
<1>1. /\ fill.symbol \in Symbol /\ delta \in Ratio /\ fill.side \in {"buy", "sell"}
      /\ a.realized \in [Symbol -> Ratio] /\ a.fills \in Seq(FilledOrder)
      /\ a.outcomes \in Seq(Ratio)
  BY DEF FillBooked, ReplayAccount, FilledOrder
<1>2. PICK s, y, more, out :
          /\ s = fill.symbol /\ y = Plus(a.realized[s], delta)
          /\ more = Append(a.fills, fill)
          /\ out = IF fill.side = "sell" THEN Append(a.outcomes, delta) ELSE a.outcomes
  OBVIOUS
<1>3. /\ w.realized = [a.realized EXCEPT ![s] = y] /\ w.fills = more /\ w.outcomes = out
  <2>1. PICK q : q = Applied(a.position[s], fill)
    OBVIOUS
  <2>2. w = [a EXCEPT !.position[s] = q, !.realized[s] = y, !.cash = a.cash + CashFlow(fill),
                      !.fills = more, !.outcomes = out]
    BY <1>2, <2>1 DEF FillBooked
  <2> QED
    BY <2>2 DEF ReplayAccount
<1>4. a.realized[s] \in Ratio /\ y \in Ratio
  BY <1>1, <1>2, PlusType
<1>5. PICK o \in Ratio : SumOf(a.realized) = Plus(a.realized[s], o) /\ SumOf(w.realized) = Plus(y, o)
  <2>1. Exchanged(a.realized, w.realized, s, y)
    BY <1>3 DEF Exchanged
  <2> QED
    BY <1>1, <1>2, <1>4, <2>1, SumExchanged
<1>6. PICK x, all, fees, newFees :
          /\ x = SumOf(a.realized) /\ all = AllOutcomes(a.outcomes)
          /\ fees = PurchaseFees(a.fills) /\ newFees = PurchaseFees(more)
  OBVIOUS
<1>7. /\ x \in Ratio /\ SumOf(w.realized) = Plus(x, delta)
  <2>1. x \in Ratio
    BY <1>1, <1>6, SumOfType, ReplayAssumption
  <2>2. Plus(y, o) = Plus(x, delta)
    BY <1>1, <1>2, <1>4, <1>5, <1>6, Joined
  <2> QED
    BY <1>5, <2>1, <2>2
<1>8. /\ all \in Ratio /\ fees \in Int
      /\ fill.side = "buy" => newFees = fees + TotalFee(fill)
      /\ fill.side # "buy" => newFees = fees
      /\ fill.side = "sell" => AllOutcomes(out) = Plus(delta, all)
  <2>1. all \in Ratio /\ AllOutcomes(Append(a.outcomes, delta)) = Plus(delta, all)
    BY <1>1, <1>6, OutcomesAppend
  <2>2. /\ fees \in Int
        /\ newFees = IF fill.side = "buy" THEN fees + TotalFee(fill) ELSE fees
    BY <1>1, <1>2, <1>6, FeesAppend
  <2> QED
    BY <1>2, <2>1, <2>2
<1>9. Same(Plus(x, Whole(fees)), all)
  BY <1>6 DEF Booked
<1>10. CASE fill.side = "buy"
  <2>1. PICK t : t = TotalFee(fill)
    OBVIOUS
  <2>2. t \in Int /\ delta = Whole(-t) /\ -t \in Int
    BY <1>10, <2>1, FilledFlow DEF RealizedDelta, Whole
  <2>3. Plus(Plus(x, delta), Whole(newFees)) = Plus(x, Whole(fees))
    <3>1. PICK f, g : f = Whole(newFees) /\ g = Whole(fees)
      OBVIOUS
    <3>2. f \in Ratio /\ Plus(delta, f) = g
      <4>1. newFees \in Int /\ -t + newFees = fees
        BY <1>8, <1>10, <2>1, <2>2
      <4> QED
        BY <2>2, <3>1, <4>1, WholePlus
    <3>3. Plus(Plus(x, delta), f) = Plus(x, Plus(delta, f))
      BY <1>1, <1>7, <3>2, PlusLaws
    <3> QED
      BY <3>1, <3>2, <3>3
  <2>4. AllOutcomes(out) = all
    BY <1>2, <1>6, <1>10
  <2> QED
    BY <1>3, <1>6, <1>7, <1>9, <2>3, <2>4 DEF Booked
<1>11. CASE fill.side = "sell"
  <2>1. PICK f, xf : f = Whole(fees) /\ xf = Plus(x, Whole(fees))
    OBVIOUS
  <2>2. f \in Ratio /\ xf \in Ratio
    BY <1>7, <1>8, <2>1, WholePlus, PlusType
  <2>3. Plus(Plus(x, delta), f) = Plus(xf, delta)
    BY <1>1, <1>7, <2>1, <2>2, Joined
  <2>4. Same(Plus(xf, delta), Plus(all, delta))
    BY <1>1, <1>8, <1>9, <2>1, <2>2, PlusLaws
  <2>5. Plus(all, delta) = AllOutcomes(out)
    BY <1>1, <1>8, <1>11, PlusLaws
  <2>6. newFees = fees
    BY <1>8, <1>11
  <2> QED
    BY <1>3, <1>6, <1>7, <2>1, <2>3, <2>4, <2>5, <2>6 DEF Booked
<1> QED
  BY <1>1, <1>10, <1>11

ExplainedAccount ==
    {a \in ReplayAccount :
        /\ Explained(a.position, a.realized, a.cash)
        /\ Booked(a.realized, a.fills, a.outcomes)
        /\ \A i \in 1 .. Len(a.curve) : PointExplained(a.curve[i])}

LEMMA ExplainedIsKept == ReplayKeeps(ExplainedAccount)
<1>1. ASSUME NEW a \in ExplainedAccount, NEW s \in Symbol, NEW b, Remarked(a, b, s)
      PROVE  b \in ExplainedAccount
  <2>1. a \in ReplayAccount /\ b \in ReplayAccount
    BY <1>1, AccountsAreKept DEF ReplayKeeps, ExplainedAccount
  <2>2. PICK q \in LongRow : /\ q.qty = a.position[s].qty /\ q.avg = a.position[s].avg
                             /\ b = [a EXCEPT !.position[s] = q]
    BY <1>1 DEF Remarked
  <2>3. /\ b.position = [a.position EXCEPT ![s] = q] /\ b.realized = a.realized /\ b.cash = a.cash
        /\ b.fills = a.fills /\ b.outcomes = a.outcomes /\ b.curve = a.curve
    BY <2>1, <2>2 DEF ReplayAccount
  <2>4. Costs(b.position) = Costs(a.position)
    <3>1. \A x \in Symbol : /\ b.position[x].qty = a.position[x].qty
                            /\ b.position[x].avg = a.position[x].avg
      BY <2>1, <2>2, <2>3 DEF ReplayAccount
    <3> QED
      BY <3>1 DEF Costs, Cost
  <2> QED
    BY <2>1, <2>3, <2>4 DEF ExplainedAccount, Explained
<1>2. ASSUME NEW a \in ExplainedAccount, NEW fill \in FilledOrder,
             Accepts(a.position[fill.symbol], a.cash, fill)
      PROVE  WithFill(a, fill) \in ExplainedAccount
  <2>1. PICK w, r, delta :
            /\ w = WithFill(a, fill)
            /\ r = Release(a.position[fill.symbol], fill.day, fill.day)
            /\ delta = RealizedDelta(r, fill)
    OBVIOUS
  <2>2. a \in ReplayAccount
    BY DEF ExplainedAccount
  <2>3. FillBooked(a, fill, delta, w)
    BY <1>2, <2>1, <2>2, FillFacts
  <2>4. Explained(w.position, w.realized, w.cash)
    BY <1>2, <2>1, <2>2, <2>3, ExplainedFill DEF ExplainedAccount
  <2>5. Booked(w.realized, w.fills, w.outcomes)
    BY <2>1, <2>2, <2>3, BookedFill DEF ExplainedAccount
  <2>6. w \in ReplayAccount /\ w.curve = a.curve
    BY <2>2, <2>3 DEF FillBooked, ReplayAccount
  <2> QED
    BY <2>1, <2>4, <2>5, <2>6 DEF ExplainedAccount
<1>3. ASSUME NEW a \in ExplainedAccount, NEW bar \in ReplayBar
      PROVE  WithPoint(a, bar) \in ExplainedAccount
  <2>1. PICK w, equity : w = WithPoint(a, bar) /\ equity = a.cash + Market(a)
    OBVIOUS
  <2>2. PICK point : point = PointOf(a, bar, equity)
    OBVIOUS
  <2>3. a \in ReplayAccount /\ a.curve \in Seq(Point)
    BY DEF ExplainedAccount, ReplayAccount
  <2>4. PointAdded(a, equity, point, w)
    BY <2>1, <2>2, <2>3, PointFacts
  <2>5. /\ w \in ReplayAccount /\ w.position = a.position /\ w.realized = a.realized
        /\ w.cash = a.cash /\ w.fills = a.fills /\ w.outcomes = a.outcomes
        /\ w.curve = Append(a.curve, point)
    BY <2>3, <2>4 DEF PointAdded, ReplayAccount
  <2>6. PointExplained(point)
    BY <2>1, <2>2, <2>3, ExplainedPoint DEF ExplainedAccount
  <2>7. ASSUME NEW i \in 1 .. Len(w.curve) PROVE PointExplained(w.curve[i])
    <3>1. PICK n : n = Len(a.curve)
      OBVIOUS
    <3>2. /\ n \in Nat /\ Len(w.curve) = n + 1 /\ w.curve[n + 1] = point
          /\ \A j \in 1 .. n : w.curve[j] = a.curve[j]
      BY <2>3, <2>5, <3>1
    <3>3. CASE i = n + 1
      BY <2>6, <3>2, <3>3
    <3>4. CASE i # n + 1
      <4>1. i \in 1 .. n
        BY <3>2, <3>4
      <4>2. PointExplained(a.curve[i])
        BY <3>1, <4>1 DEF ExplainedAccount
      <4> QED
        BY <3>2, <4>1, <4>2
    <3> QED
      BY <3>3, <3>4
  <2> QED
    BY <2>1, <2>5, <2>7 DEF ExplainedAccount
<1> QED
  BY <1>1, <1>2, <1>3 DEF ReplayKeeps

LEMMA SumOfNothing ==
    ASSUME NEW S, IsFiniteSet(S), NEW g, g = [x \in S |-> Zero]
    PROVE  Same(SumOf(g), Zero)
<1>1. g \in [S -> Ratio]
  BY DEF Ratio, Zero
<1>2. PICK f : RatioSums(f, g, S) /\ SumOf(g) = f[S]
  BY <1>1, SumOfIsSum
<1>3. {} \in SUBSET S /\ f[{}] = Zero /\ \A x \in S \ ({} \union {}) : g[x][1] = 0
  BY <1>2 DEF RatioSums, RatioAdds, Zero
<1>4. Same(f[S], Plus(f[{}], f[{}]))
  BY <1>2, <1>3, SumSplits
<1>5. Plus(Zero, Zero) = Zero
  BY DEF Plus, Zero
<1> QED
  BY <1>2, <1>3, <1>4, <1>5

LEMMA FirstExplained == FirstAccount \in ExplainedAccount
<1>1. /\ FirstAccount.position = [s \in Symbol |-> Flat] /\ FirstAccount.cash = InitialCash
      /\ FirstAccount.realized = [s \in Symbol |-> Zero] /\ FirstAccount.fills = <<>>
      /\ FirstAccount.outcomes = <<>> /\ FirstAccount.curve = <<>>
  BY DEF FirstAccount
<1>2. PICK g, c : g = [s \in Symbol |-> Zero] /\ c = Costs([s \in Symbol |-> Flat])
  OBVIOUS
<1>3. SumOf(g) \in Ratio /\ Same(SumOf(g), Zero)
  <2>1. g \in [Symbol -> Ratio]
    BY <1>2 DEF Zero, Ratio
  <2> QED
    BY <1>2, <2>1, SumOfType, SumOfNothing, ReplayAssumption
<1>4. SumOf(c) \in Ratio /\ Same(SumOf(c), Zero)
  <2>1. c \in [Symbol -> Ratio] /\ \A s \in Symbol : c[s][1] = 0
    BY <1>2, FeeAssumption DEF Costs, Cost, Flat, NoPrice, Ratio
  <2>2. PICK f : RatioSums(f, c, Symbol) /\ SumOf(c) = f[Symbol]
    BY <2>1, SumOfIsSum, ReplayAssumption
  <2>3. {} \in SUBSET Symbol /\ f[{}] = Zero /\ f[Symbol] \in Ratio
    BY <2>2 DEF RatioSums, RatioAdds
  <2>4. Same(f[Symbol], Plus(f[{}], f[{}]))
    BY <2>1, <2>2, <2>3, SumSplits, ReplayAssumption
  <2>5. Plus(Zero, Zero) = Zero
    BY DEF Plus, Zero
  <2> QED
    BY <2>2, <2>3, <2>4, <2>5
<1>5. Explained(FirstAccount.position, FirstAccount.realized, FirstAccount.cash)
  <2>1. PICK x, y, z : x = SumOf(g) /\ y = SumOf(c) /\ z = Plus(Whole(0), SumOf(c))
    OBVIOUS
  <2>2. Zero \in Ratio /\ z \in Ratio /\ Same(y, Zero) /\ Same(Zero, x)
    <3>1. Zero \in Ratio /\ Whole(0) \in Ratio
      BY DEF Zero, Whole, Ratio
    <3> QED
      BY <1>3, <1>4, <2>1, <3>1, SameTransitive, PlusType, PlusLaws
  <2>3. Same(z, y)
    <3>1. y[1] \in Int /\ y[2] \in Int
      BY <1>4, <2>1 DEF Ratio
    <3>2. (0 * y[2] + y[1] * 1) * y[2] = y[1] * (1 * y[2])
      BY <3>1
    <3> QED
      BY <2>1, <3>2 DEF Same, Plus, Whole
  <2>4. Same(z, x)
    <3>1. Same(z, Zero)
      BY <1>4, <2>1, <2>2, <2>3, SameTransitive
    <3> QED
      BY <1>3, <2>1, <2>2, <3>1, SameTransitive
  <2>5. InitialCash - InitialCash = 0
    BY BacktestAssumption
  <2> QED
    BY <1>1, <1>2, <2>1, <2>4, <2>5 DEF Explained
<1>6. Booked(FirstAccount.realized, FirstAccount.fills, FirstAccount.outcomes)
  <2>1. PurchaseFees(<<>>) = 0
    <3>1. PICK h : h = [i \in Purchases(<<>>) |-> TotalFee(<<>>[i])]
      OBVIOUS
    <3>2. Purchases(<<>>) = {} /\ IsFiniteSet({})
      BY FS_EmptySet DEF Purchases
    <3>3. SumFunction(h) = SumOver(h, {})
      BY <3>1, <3>2, SumFunctionIs
    <3>4. PICK f : Sums(f, h, {}) /\ SumOver(h, {}) = f[{}]
      BY <3>2, SumOverIsSum
    <3> QED
      BY <3>1, <3>3, <3>4 DEF Sums, Adds, PurchaseFees
  <2>2. AllOutcomes(<<>>) = Zero
    <3>1. PICK h : h = [i \in DOMAIN <<>> |-> <<>>[i]]
      OBVIOUS
    <3>2. DOMAIN <<>> = {} /\ IsFiniteSet({})
      BY FS_EmptySet
    <3>3. h \in [{} -> Ratio]
      BY <3>1, <3>2
    <3>4. PICK f : RatioSums(f, h, {}) /\ SumOf(h) = f[{}]
      BY <3>2, <3>3, SumOfIsSum
    <3> QED
      BY <3>1, <3>4 DEF RatioSums, RatioAdds, AllOutcomes, SumOfThe
  <2>3. PICK x, z : x = SumOf(g) /\ z = Plus(SumOf(g), Whole(0))
    OBVIOUS
  <2>4. Same(z, Zero)
    <3>1. x[1] \in Int /\ x[2] \in Int /\ x[1] * 1 = 0 * x[2]
      BY <1>3, <2>3 DEF Ratio, Same, Zero
    <3>2. (x[1] * 1 + 0 * x[2]) * 1 = 0 * (x[2] * 1)
      BY <3>1
    <3> QED
      BY <2>3, <3>2 DEF Same, Plus, Whole, Zero
  <2> QED
    BY <1>1, <1>2, <2>1, <2>2, <2>3, <2>4 DEF Booked
<1>7. \A i \in 1 .. Len(FirstAccount.curve) : PointExplained(FirstAccount.curve[i])
  BY <1>1
<1> QED
  BY <1>5, <1>6, <1>7, FirstAccountType DEF ExplainedAccount

\* What FiguresAddUp says of one account and its summary.
AddsUp(account) ==
    LET summary == Summary(account)
        purchases == {i \in DOMAIN account.fills : account.fills[i].side = "buy"}
        fees == SumFunction([i \in purchases |-> TotalFee(account.fills[i])])
    IN  /\ \A i \in DOMAIN account.curve :
               LET point == account.curve[i]
               IN  Same(<<point.equity - InitialCash, 1>>, Plus(point.realized, point.unrealized))
        /\ Same(<<summary.net + fees, 1>>,
                Plus(Plus(summary.gained, summary.lost), Last(account.curve).unrealized))

LEMMA ExplainedAddsUp ==
    ASSUME NEW account \in ExplainedAccount, NEW b \in ReplayAccount, NEW bar \in ReplayBar,
           account = WithPoint(b, bar)
    PROVE  AddsUp(account)
<1>1. /\ account \in ReplayAccount /\ account.curve \in Seq(Point)
      /\ account.realized \in [Symbol -> Ratio] /\ account.fills \in Seq(FilledOrder)
      /\ account.outcomes \in Seq(Ratio)
  BY DEF ExplainedAccount, ReplayAccount
<1>2. PICK equity : equity = b.cash + Market(b)
  OBVIOUS
<1>3. PICK point : point = PointOf(b, bar, equity)
  OBVIOUS
<1>4. PointAdded(b, equity, point, account)
  BY <1>2, <1>3, PointFacts
<1>5. /\ account.curve = Append(b.curve, point) /\ b.curve \in Seq(Point)
      /\ account.realized = b.realized /\ point \in Point
  BY <1>4 DEF PointAdded, ReplayAccount
<1>6. PICK n : n = Len(account.curve)
  OBVIOUS
<1>7. n \in 1 .. n /\ DOMAIN account.curve = 1 .. n /\ account.curve[n] = point
      /\ Last(account.curve) = point
  BY <1>1, <1>5, <1>6 DEF Last
<1>8. point.realized = SumOf(account.realized)
  BY <1>3, <1>5 DEF PointOf
<1>9. \A i \in 1 .. n : PointExplained(account.curve[i])
  BY <1>6 DEF ExplainedAccount
<1>10. PICK r, u, fees, g, l, net :
          /\ r = point.realized /\ u = point.unrealized
          /\ fees = PurchaseFees(account.fills)
          /\ g = SumOfThe(account.outcomes, Gains(account.outcomes))
          /\ l = SumOfThe(account.outcomes, Losses(account.outcomes))
          /\ net = point.equity - InitialCash
  OBVIOUS
<1>11. PICK all : all = AllOutcomes(account.outcomes)
  OBVIOUS
<1>12. /\ r \in Ratio /\ u \in Ratio /\ fees \in Int /\ g \in Ratio /\ l \in Ratio
       /\ net \in Int /\ all \in Ratio
  <2>1. r \in Ratio /\ u \in Ratio /\ net \in Int
    BY <1>5, <1>10, BacktestAssumption DEF Point
  <2>2. fees \in Int
    <3>2. IsFiniteSet(Purchases(account.fills))
          /\ \A i \in Purchases(account.fills) : TotalFee(account.fills[i]) \in Int
      <4>1. DOMAIN account.fills = 1 .. Len(account.fills) /\ Len(account.fills) \in Nat
            /\ \A i \in DOMAIN account.fills : account.fills[i] \in FilledOrder
        BY <1>1
      <4>2. Purchases(account.fills) \subseteq DOMAIN account.fills
        BY DEF Purchases
      <4>3. IsFiniteSet(DOMAIN account.fills)
        BY <4>1, FS_Interval
      <4> QED
        BY <4>1, <4>2, <4>3, FS_Subset, FilledFlow
    <3>3. PICK h : h = [i \in Purchases(account.fills) |-> TotalFee(account.fills[i])]
      OBVIOUS
    <3>4. SumFunction(h) = SumOver(h, Purchases(account.fills))
      BY <3>3, SumFunctionIs
    <3>5. PICK e : Sums(e, h, Purchases(account.fills))
                   /\ SumOver(h, Purchases(account.fills)) = e[Purchases(account.fills)]
      BY <3>2, <3>3, SumOverIsSum
    <3> QED
      BY <1>10, <3>3, <3>4, <3>5 DEF Sums, PurchaseFees
  <2>3. g \in Ratio /\ l \in Ratio
    BY <1>1, <1>10, OutcomesSplit
  <2>4. all \in Ratio
    <3>1. DOMAIN account.outcomes \in SUBSET DOMAIN account.outcomes
      OBVIOUS
    <3> QED
      BY <1>1, <1>11, <3>1, OutcomesType DEF AllOutcomes
  <2> QED
    BY <2>1, <2>2, <2>3, <2>4
<1>13. /\ Same(Whole(net), Plus(r, u)) /\ Same(Plus(r, Whole(fees)), all)
       /\ Same(all, Plus(g, l))
  <2>1. Same(Whole(net), Plus(r, u))
    BY <1>7, <1>9, <1>10 DEF PointExplained, Whole
  <2>2. Same(Plus(r, Whole(fees)), all)
    BY <1>8, <1>10, <1>11 DEF ExplainedAccount, Booked
  <2> QED
    BY <1>1, <1>10, <1>11, <2>1, <2>2, OutcomesSplit
<1>14. Same(Whole(net + fees), Plus(Plus(g, l), u))
  <2>1. PICK f, w, ru, rf, gl :
            /\ f = Whole(fees) /\ w = Whole(net) /\ ru = Plus(r, u) /\ rf = Plus(r, Whole(fees))
            /\ gl = Plus(g, l)
    OBVIOUS
  <2>2. f \in Ratio /\ w \in Ratio /\ ru \in Ratio /\ rf \in Ratio /\ gl \in Ratio
    BY <1>12, <2>1, WholePlus, PlusType
  <2>3. PICK t, v, x : t = Plus(w, f) /\ v = Plus(rf, u) /\ x = Plus(gl, u)
    OBVIOUS
  <2>4. t \in Ratio /\ v \in Ratio /\ x \in Ratio
    BY <1>12, <2>2, <2>3, PlusType
  <2>5. t = Whole(net + fees)
    BY <1>12, <2>1, <2>3, WholePlus
  <2>6. Same(t, v)
    <3>1. Same(Plus(w, f), Plus(ru, f))
      BY <1>13, <2>1, <2>2, PlusLaws
    <3>2. Plus(ru, f) = v
      BY <1>12, <2>1, <2>2, <2>3, Joined
    <3> QED
      BY <2>3, <3>1, <3>2
  <2>7. Same(v, x)
    <3>1. Same(rf, gl)
      BY <1>12, <1>13, <2>1, <2>2, SameTransitive
    <3> QED
      BY <1>12, <2>2, <2>3, <3>1, PlusLaws
  <2>8. Same(t, x)
    BY <2>4, <2>6, <2>7, SameTransitive
  <2> QED
    BY <2>1, <2>3, <2>5, <2>8
<1>15. /\ Summary(account).net = net /\ Summary(account).gained = g /\ Summary(account).lost = l
  BY <1>6, <1>7, <1>10 DEF Summary
<1>16. \A i \in DOMAIN account.curve :
           Same(<<account.curve[i].equity - InitialCash, 1>>,
                Plus(account.curve[i].realized, account.curve[i].unrealized))
  BY <1>7, <1>9 DEF PointExplained
<1>17. Same(<<Summary(account).net + fees, 1>>,
            Plus(Plus(Summary(account).gained, Summary(account).lost),
                 Last(account.curve).unrealized))
  BY <1>7, <1>10, <1>14, <1>15 DEF Whole
<1> QED
  BY <1>10, <1>16, <1>17 DEF AddsUp, PurchaseFees, Purchases

-----------------------------------------------------------------------------
(* The shares that were traded up to a bar                                  *)

LEMMA FillOfBar ==
    ASSUME NEW bar \in ReplayBar, bar.fill # <<>>
    PROVE  bar.fill[1] \in FilledOrder /\ bar.fill[1].symbol = bar.symbol
  BY DEF ReplayBar

LEMMA TradedIsNat ==
    ASSUME NEW bar \in ReplayBar, NEW side, NEW s
    PROVE  Traded(bar, side, s) \in Nat
<1>1. bar.fill # <<>> => bar.fill[1] \in FilledOrder
  BY FillOfBar
<1>2. \A fill \in FilledOrder : fill.qty \in Nat
  BY DEF FilledOrder
<1> QED
  BY <1>1, <1>2 DEF Traded

LEMMA SharesFacts ==
    ASSUME NEW bars \in Seq(ReplayBar), NEW side, NEW s
    PROVE  /\ Shares(bars, side, s, 0) = 0
           /\ \A i \in 0 .. Len(bars) : Shares(bars, side, s, i) \in Nat
           /\ \A i \in 1 .. Len(bars) :
                 Shares(bars, side, s, i) = Shares(bars, side, s, i - 1) + Traded(bars[i], side, s)
<1> DEFINE m == Len(bars)
           g == [j \in 1 .. m |-> Traded(bars[j], side, s)]
<1>1. m \in Nat /\ \A j \in 1 .. m : bars[j] \in ReplayBar
  OBVIOUS
<1>2. \A j \in 1 .. m : g[j] = Traded(bars[j], side, s) /\ g[j] \in Nat
  BY <1>1, TradedIsNat
<1> HIDE DEF g
<1>3. ASSUME NEW i \in 0 .. m
      PROVE  Shares(bars, side, s, i) = SumOver(g, 1 .. i) /\ SumOver(g, 1 .. i) \in Nat
  <2> DEFINE h == [j \in 1 .. i |-> Traded(bars[j], side, s)]
  <2>1. IsFiniteSet(1 .. i)
    BY <1>1, FS_Interval
  <2>2. \A j \in 1 .. i : h[j] \in Int /\ h[j] = g[j] /\ g[j] \in Nat
    BY <1>1, <1>2
  <2>3. Shares(bars, side, s, i) = SumOver(h, 1 .. i)
    <3>1. Shares(bars, side, s, i) = SumFunction(h) /\ DOMAIN h = 1 .. i
      BY DEF Shares
    <3> HIDE DEF h
    <3> QED
      BY <3>1, SumFunctionIs
  <2> HIDE DEF h
  <2> QED
    BY <2>1, <2>2, <2>3, SumOverSame, SumOverIsNat
<1>4. ASSUME NEW i \in 1 .. m
      PROVE  SumOver(g, 1 .. i) = SumOver(g, 1 .. i - 1) + Traded(bars[i], side, s)
  <2>1. i - 1 \in Nat /\ (i - 1) + 1 = i
    BY <1>1
  <2>2. \A j \in 1 .. (i - 1) + 1 : g[j] \in Int
    BY <1>1, <1>2, <2>1
  <2>3. SumOver(g, 1 .. (i - 1) + 1) = SumOver(g, 1 .. i - 1) + g[(i - 1) + 1]
    BY <2>1, <2>2, SumNext
  <2> QED
    BY <1>2, <2>1, <2>3
<1>5. ASSUME NEW i \in 1 .. m
      PROVE  Shares(bars, side, s, i) = Shares(bars, side, s, i - 1) + Traded(bars[i], side, s)
  <2>1. i \in 0 .. m /\ i - 1 \in 0 .. m
    BY <1>1
  <2> QED
    BY <1>3, <1>4, <2>1
<1>6. 0 \in 0 .. m
  BY <1>1
<1> QED
  BY <1>3, <1>5, <1>6, SumOfNone

LEMMA SharesGrow ==
    ASSUME NEW bars \in Seq(ReplayBar), NEW side, NEW s,
           NEW i \in 0 .. Len(bars), NEW j \in 0 .. Len(bars), i <= j
    PROVE  Shares(bars, side, s, i) <= Shares(bars, side, s, j)
<1> DEFINE m == Len(bars)
           S(k) == Shares(bars, side, s, k)
           N == {d \in Nat : i + d <= m => S(i) <= S(i + d)}
<1>1. m \in Nat /\ \A k \in 1 .. m : bars[k] \in ReplayBar
  OBVIOUS
<1>2. /\ \A k \in 0 .. m : S(k) \in Nat
      /\ \A k \in 1 .. m : S(k) = S(k - 1) + Traded(bars[k], side, s)
  BY SharesFacts
<1>3. \A k \in 1 .. m : Traded(bars[k], side, s) \in Nat
  BY <1>1, TradedIsNat
<1> HIDE DEF S
<1>4. 0 \in N
  BY <1>1, <1>2
<1>5. ASSUME NEW d \in N PROVE d + 1 \in N
  <2>1. d \in Nat /\ i \in Nat /\ i + (d + 1) = (i + d) + 1
    BY <1>1
  <2>2. ASSUME i + (d + 1) <= m PROVE S(i) <= S(i + (d + 1))
    <3>1. /\ (i + d) + 1 \in 1 .. m /\ i + d \in 0 .. m /\ ((i + d) + 1) - 1 = i + d /\ i + d <= m
          /\ (i + d) + 1 \in 0 .. m
      BY <1>1, <2>1, <2>2
    <3>2. S(i) <= S(i + d)
      BY <1>5, <3>1
    <3>3. S((i + d) + 1) = S(i + d) + Traded(bars[(i + d) + 1], side, s)
      BY <1>2, <3>1
    <3>4. S(i) \in Nat /\ S(i + d) \in Nat /\ Traded(bars[(i + d) + 1], side, s) \in Nat
      BY <1>2, <1>3, <3>1
    <3> QED
      BY <2>1, <3>2, <3>3, <3>4
  <2> QED
    BY <2>1, <2>2
<1>6. N = Nat
  <2>1. N \in SUBSET Nat
    OBVIOUS
  <2> HIDE DEF N
  <2> QED
    BY <1>4, <1>5, <2>1, SetInduction
<1>7. j - i \in Nat /\ i + (j - i) = j /\ j <= m
  BY <1>1
<1>8. S(i) <= S(j)
  BY <1>6, <1>7
<1> QED
  BY <1>8 DEF S

\* Which bar a share is of.
LEMMA ShareOfBar ==
    ASSUME NEW bars \in Seq(ReplayBar), NEW side, NEW s, NEW i \in 1 .. Len(bars), NEW n \in Int,
           Shares(bars, side, s, i - 1) < n, n <= Shares(bars, side, s, i)
    PROVE  BarOfShare(bars, side, s, n) = i
<1> DEFINE m == Len(bars)
           S(k) == Shares(bars, side, s, k)
<1>1. m \in Nat /\ DOMAIN bars = 1 .. m
  OBVIOUS
<1>2. \A k \in 0 .. m : S(k) \in Nat
  BY SharesFacts
<1>3. \A k, l \in 0 .. m : k <= l => S(k) <= S(l)
  BY SharesGrow
<1>4. S(i - 1) < n /\ n <= S(i)
  OBVIOUS
<1> HIDE DEF S
<1>5. ASSUME NEW j \in 1 .. m, S(j - 1) < n, n <= S(j) PROVE j = i
  <2>1. i \in 0 .. m /\ i - 1 \in 0 .. m /\ j \in 0 .. m /\ j - 1 \in 0 .. m
    BY <1>1
  <2>2. S(i) \in Nat /\ S(i - 1) \in Nat /\ S(j) \in Nat /\ S(j - 1) \in Nat
    BY <1>2, <2>1
  <2>3. CASE j < i
    <3>1. j <= i - 1
      BY <1>1, <2>3
    <3> QED
      BY <1>3, <1>4, <1>5, <2>1, <2>2, <3>1
  <2>4. CASE i < j
    <3>1. i <= j - 1
      BY <1>1, <2>4
    <3> QED
      BY <1>3, <1>4, <1>5, <2>1, <2>2, <3>1
  <2> QED
    BY <1>1, <2>3, <2>4
<1>6. BarOfShare(bars, side, s, n) = CHOOSE k \in 1 .. m : S(k - 1) < n /\ n <= S(k)
  BY <1>1 DEF BarOfShare, S
<1>7. i \in 1 .. m
  OBVIOUS
<1> QED
  BY <1>4, <1>5, <1>6, <1>7

\* Every share is of some bar.
LEMMA ShareHasBar ==
    ASSUME NEW bars \in Seq(ReplayBar), NEW side, NEW s, NEW i \in 0 .. Len(bars),
           NEW n \in 1 .. Shares(bars, side, s, i)
    PROVE  BarOfShare(bars, side, s, n) \in 1 .. i
<1> DEFINE m == Len(bars)
           S(k) == Shares(bars, side, s, k)
           Has(k) == \A x \in 1 .. S(k) : BarOfShare(bars, side, s, x) \in 1 .. k
           N == {k \in Nat : k <= m => Has(k)}
<1>1. m \in Nat
  OBVIOUS
<1>2. S(0) = 0 /\ \A k \in 0 .. m : S(k) \in Nat
  BY SharesFacts
<1>3. \A k \in 1 .. m, x \in Int : S(k - 1) < x /\ x <= S(k) => BarOfShare(bars, side, s, x) = k
  BY ShareOfBar
<1> HIDE DEF S
<1>4. 0 \in N
  <2>1. 1 .. 0 = {}
    OBVIOUS
  <2> QED
    BY <1>2, <2>1
<1>5. ASSUME NEW k \in N PROVE k + 1 \in N
  <2>1. k \in Nat /\ (k + 1) - 1 = k
    OBVIOUS
  <2>2. ASSUME k + 1 <= m PROVE Has(k + 1)
    <3>1. k + 1 \in 1 .. m /\ k \in 0 .. m /\ k + 1 \in 0 .. m /\ k <= m
      BY <1>1, <2>1, <2>2
    <3>2. S(k) \in Nat /\ S(k + 1) \in Nat
      BY <1>2, <3>1
    <3>3. ASSUME NEW x \in 1 .. S(k + 1) PROVE BarOfShare(bars, side, s, x) \in 1 .. k + 1
      <4>1. CASE x \in 1 .. S(k)
        <5>1. BarOfShare(bars, side, s, x) \in 1 .. k
          BY <1>5, <3>1, <4>1
        <5> QED
          BY <2>1, <5>1
      <4>2. CASE x \notin 1 .. S(k)
        <5>1. x \in Int /\ S((k + 1) - 1) < x /\ x <= S(k + 1)
          BY <2>1, <3>2, <4>2
        <5>2. BarOfShare(bars, side, s, x) = k + 1
          BY <1>3, <3>1, <5>1
        <5> QED
          BY <2>1, <5>2
      <4> QED
        BY <4>1, <4>2
    <3> QED
      BY <3>3
  <2> HIDE DEF Has
  <2> QED
    BY <2>1, <2>2
<1>6. N = Nat
  <2>1. N \in SUBSET Nat
    OBVIOUS
  <2> HIDE DEF N
  <2> QED
    BY <1>4, <1>5, <2>1, SetInduction
<1>7. i \in Nat /\ i <= m
  BY <1>1
<1>8. Has(i)
  <2> HIDE DEF Has
  <2> QED
    BY <1>6, <1>7
<1> QED
  BY <1>8 DEF S

-----------------------------------------------------------------------------
(* Lots and single shares                                                   *)

Lot == [qty : Nat \ {0}, at : Nat]

\* The shares after the first `from` up to the first `to`, in their order, are
\* those of the lots; f tells the bar of each.
EndAt(ends, lots, f, from, to) ==
    /\ ends \in [0 .. Len(lots) -> Nat] /\ ends[0] = from /\ ends[Len(lots)] = to
    /\ \A i \in 1 .. Len(lots) :
          /\ ends[i] = ends[i - 1] + lots[i].qty
          /\ \A n \in ends[i - 1] + 1 .. ends[i] : f[n] = lots[i].at
Fits(lots, f, from, to) == \E ends : EndAt(ends, lots, f, from, to)

LEMMA FitsNothing ==
    ASSUME NEW f, NEW from \in Nat
    PROVE  Fits(<<>>, f, from, from)
<1> DEFINE ends == [i \in 0 .. 0 |-> from]
<1>1. Len(<<>>) = 0 /\ 1 .. 0 = {} /\ 0 \in 0 .. 0
  OBVIOUS
<1>2. EndAt(ends, <<>>, f, from, from)
  BY <1>1 DEF EndAt
<1> QED
  BY <1>2 DEF Fits

LEMMA FitsAppend ==
    ASSUME NEW lots \in Seq(Lot), NEW f, NEW from \in Nat, NEW to \in Nat,
           Fits(lots, f, from, to), NEW lot \in Lot,
           \A n \in to + 1 .. to + lot.qty : f[n] = lot.at
    PROVE  Fits(Append(lots, lot), f, from, to + lot.qty)
<1> DEFINE m == Len(lots)
           q == lot.qty
           more == Append(lots, lot)
<1>1. PICK e : EndAt(e, lots, f, from, to)
  BY DEF Fits
<1> DEFINE ends == [i \in 0 .. m + 1 |-> IF i <= m THEN e[i] ELSE to + q]
<1>2. /\ m \in Nat /\ q \in Nat /\ Len(more) = m + 1 /\ more[m + 1] = lot
      /\ \A i \in 1 .. m : more[i] = lots[i]
  BY DEF Lot
<1> HIDE DEF more, m, q
<1>3. e \in [0 .. m -> Nat] /\ e[0] = from /\ e[m] = to
  BY <1>1 DEF EndAt, m
<1>4. /\ ends \in [0 .. m + 1 -> Nat] /\ \A i \in 0 .. m : ends[i] = e[i]
      /\ ends[m + 1] = to + q
  BY <1>2, <1>3
<1> HIDE DEF ends
<1>5. ASSUME NEW i \in 1 .. m + 1
      PROVE  /\ ends[i] = ends[i - 1] + more[i].qty
             /\ \A n \in ends[i - 1] + 1 .. ends[i] : f[n] = more[i].at
  <2>1. CASE i <= m
    <3>1. i \in 1 .. m /\ i \in 0 .. m /\ i - 1 \in 0 .. m
      BY <1>2, <2>1
    <3>2. /\ e[i] = e[i - 1] + lots[i].qty
          /\ \A n \in e[i - 1] + 1 .. e[i] : f[n] = lots[i].at
      BY <1>1, <3>1 DEF EndAt, m
    <3> QED
      BY <1>2, <1>4, <3>1, <3>2
  <2>2. CASE ~(i <= m)
    <3>1. i = m + 1 /\ i - 1 = m /\ m \in 0 .. m
      BY <1>2, <2>2
    <3>2. ends[i - 1] = to /\ ends[i] = to + q /\ more[i] = lot
      BY <1>2, <1>3, <1>4, <3>1
    <3> QED
      BY <3>2 DEF q
  <2> QED
    BY <2>1, <2>2
<1>6. EndAt(ends, more, f, from, to + q)
  <2>1. 0 \in 0 .. m
    BY <1>2
  <2>2. ends[0] = from /\ ends[m + 1] = to + q
    BY <1>3, <1>4, <2>1
  <2> QED
    BY <1>2, <1>4, <1>5, <2>2 DEF EndAt
<1> QED
  BY <1>6 DEF Fits, more, q

\* The ends of the lots come one after the other.
LEMMA EndsGrow ==
    ASSUME NEW lots \in Seq(Lot), NEW f, NEW from \in Nat, NEW to \in Nat,
           NEW ends, EndAt(ends, lots, f, from, to), NEW i \in 0 .. Len(lots)
    PROVE  ends[i] \in from + i .. to
<1> DEFINE m == Len(lots)
           Up == {k \in Nat : k <= m => from + k <= ends[k]}
           Down == {k \in Nat : k <= m => ends[m - k] <= to}
<1>1. m \in Nat /\ \A k \in 1 .. m : lots[k].qty \in Nat \ {0}
  <2>1. \A k \in 1 .. m : lots[k] \in Lot
    OBVIOUS
  <2> QED
    BY <2>1 DEF Lot
<1>2. /\ \A k \in 0 .. m : ends[k] \in Nat
      /\ ends[0] = from /\ ends[m] = to
      /\ \A k \in 1 .. m : ends[k] = ends[k - 1] + lots[k].qty
  BY DEF EndAt
<1> HIDE DEF m
<1>3. ASSUME NEW k \in 1 .. m PROVE ends[k - 1] \in Nat /\ ends[k - 1] + 1 <= ends[k]
  <2>1. k - 1 \in 0 .. m
    BY <1>1
  <2>2. PICK a, b, c : a = ends[k - 1] /\ b = ends[k] /\ c = lots[k].qty
    OBVIOUS
  <2>3. a \in Nat /\ c \in Nat \ {0} /\ b = a + c
    BY <1>1, <1>2, <2>1, <2>2
  <2>4. a \in Nat /\ a + 1 <= b
    BY <2>3
  <2> QED
    BY <2>2, <2>4
<1>4. Up = Nat
  <2>1. 0 \in Up
    BY <1>2
  <2>2. ASSUME NEW k \in Up PROVE k + 1 \in Up
    <3>1. k \in Nat /\ (k + 1) - 1 = k
      OBVIOUS
    <3>2. ASSUME k + 1 <= m PROVE from + (k + 1) <= ends[k + 1]
      <4>1. k + 1 \in 1 .. m /\ k <= m /\ k + 1 \in 0 .. m
        BY <1>1, <3>1, <3>2
      <4>2. from + k <= ends[k]
        BY <2>2, <4>1
      <4>3. ends[k] \in Nat /\ ends[k] + 1 <= ends[k + 1] /\ ends[k + 1] \in Nat
        BY <1>2, <1>3, <3>1, <4>1
      <4> QED
        BY <3>1, <4>2, <4>3
    <3> QED
      BY <3>1, <3>2
  <2>3. Up \in SUBSET Nat
    OBVIOUS
  <2> HIDE DEF Up
  <2> QED
    BY <2>1, <2>2, <2>3, SetInduction
<1>5. Down = Nat
  <2>1. 0 \in Down
    BY <1>1, <1>2
  <2>2. ASSUME NEW k \in Down PROVE k + 1 \in Down
    <3>1. k \in Nat
      OBVIOUS
    <3>2. ASSUME k + 1 <= m PROVE ends[m - (k + 1)] <= to
      <4>1. m - k \in 1 .. m /\ k <= m /\ (m - k) - 1 = m - (k + 1) /\ m - k \in 0 .. m
        BY <1>1, <3>1, <3>2
      <4>2. ends[m - k] <= to
        BY <2>2, <4>1
      <4>3. ends[m - (k + 1)] \in Nat /\ ends[m - (k + 1)] + 1 <= ends[m - k] /\ ends[m - k] \in Nat
        BY <1>2, <1>3, <4>1
      <4> QED
        BY <4>2, <4>3
    <3> QED
      BY <3>1, <3>2
  <2>3. Down \in SUBSET Nat
    OBVIOUS
  <2> HIDE DEF Down
  <2> QED
    BY <2>1, <2>2, <2>3, SetInduction
<1>6. i \in Nat /\ i <= m /\ m - i \in Nat /\ m - i <= m /\ m - (m - i) = i /\ i \in 0 .. m
  BY <1>1 DEF m
<1>7. from + i <= ends[i] /\ ends[i] <= to /\ ends[i] \in Nat
  BY <1>2, <1>4, <1>5, <1>6
<1> QED
  BY <1>7

LEMMA FitsEmpty ==
    ASSUME NEW lots \in Seq(Lot), NEW f, NEW from \in Nat, Fits(lots, f, from, from)
    PROVE  lots = <<>>
<1>1. PICK ends : EndAt(ends, lots, f, from, from)
  BY DEF Fits
<1>2. Len(lots) \in Nat /\ Len(lots) \in 0 .. Len(lots)
  OBVIOUS
<1>3. ends[Len(lots)] \in from + Len(lots) .. from
  BY <1>1, <1>2, EndsGrow
<1>4. Len(lots) = 0
  BY <1>2, <1>3
<1> QED
  BY <1>4

\* Every share adds the same.
Evenly(H, u, q, v) == \A n \in u + 1 .. u + q : H[n] = H[n - 1] + v

\* Shares of one lot were held equally long.
LEMMA LotHeld ==
    ASSUME NEW H, NEW u \in Nat, NEW q \in Nat, NEW v \in Int, H[u] \in Int, Evenly(H, u, q, v)
    PROVE  H[u + q] = H[u] + q * v
<1> DEFINE Held(t) == H[u + t] = H[u] + t * v
           N == {t \in Nat : t <= q => Held(t)}
<1>1. 0 \in N
  OBVIOUS
<1>2. ASSUME NEW t \in N PROVE t + 1 \in N
  <2>1. t \in Nat
    OBVIOUS
  <2>2. ASSUME t + 1 <= q PROVE H[u + (t + 1)] = H[u] + (t + 1) * v
    <3>1. u + (t + 1) \in u + 1 .. u + q /\ (u + (t + 1)) - 1 = u + t /\ t <= q
      BY <2>1, <2>2
    <3>2. H[u + (t + 1)] = H[u + t] + v
      BY <3>1 DEF Evenly
    <3>3. H[u + t] = H[u] + t * v
      BY <1>2, <3>1
    <3>4. t * v \in Int /\ (t + 1) * v = t * v + v
      BY <2>1
    <3> QED
      BY <3>2, <3>3, <3>4
  <2>3. t + 1 <= q => Held(t + 1)
    BY <2>2
  <2> HIDE DEF Held
  <2> QED
    BY <2>1, <2>3
<1>3. N = Nat
  <2>1. N \in SUBSET Nat
    OBVIOUS
  <2> HIDE DEF N
  <2> QED
    BY <1>1, <1>2, <2>1, SetInduction
<1>4. Held(q)
  <2> HIDE DEF Held
  <2> QED
    BY <1>3
<1> QED
  BY <1>4

-----------------------------------------------------------------------------
(* A sale takes the oldest lots                                             *)

Matching == [left : Nat, held : Nat, lots : Seq(Lot)]

LEMMA MatchType ==
    ASSUME NEW state \in Matching, NEW lot \in Lot, NEW at \in Nat,
           NEW w, w = MatchLot(state, lot, at)
    PROVE  w \in Matching /\ w.left <= state.left
<1>1. state.left \in Nat /\ state.held \in Nat /\ state.lots \in Seq(Lot)
  BY DEF Matching
<1>2. lot.qty \in Nat \ {0} /\ lot.at \in Nat
  BY DEF Lot
<1>3. PICK taken : taken = Lesser(lot.qty, state.left)
  OBVIOUS
<1>4. taken \in Nat /\ taken <= lot.qty /\ taken <= state.left
  BY <1>1, <1>2, <1>3 DEF Lesser
<1>5. PICK h, l : /\ h = state.held + taken * Higher(at - lot.at, 0)
                  /\ l = IF taken = lot.qty THEN state.lots
                         ELSE Append(state.lots, [lot EXCEPT !.qty = lot.qty - taken])
  OBVIOUS
<1>6. h \in Nat
  <2>1. Higher(at - lot.at, 0) \in Nat
    BY <1>2 DEF Higher
  <2>2. taken * Higher(at - lot.at, 0) \in Nat
    BY <1>4, <2>1
  <2> QED
    BY <1>1, <1>5, <2>2
<1>7. l \in Seq(Lot)
  <2>1. CASE taken = lot.qty
    BY <1>1, <1>5, <2>1
  <2>2. CASE taken # lot.qty
    <3>1. PICK r : r = lot.qty - taken
      OBVIOUS
    <3>2. r \in Nat \ {0}
      BY <1>2, <1>4, <2>2, <3>1
    <3>3. [lot EXCEPT !.qty = r] \in Lot
      BY <3>2 DEF Lot
    <3>4. l = Append(state.lots, [lot EXCEPT !.qty = r])
      BY <1>5, <2>2, <3>1
    <3> QED
      BY <1>1, <3>3, <3>4
  <2> QED
    BY <2>1, <2>2
<1>8. w = [left |-> state.left - taken, held |-> h, lots |-> l]
  BY <1>3, <1>5 DEF MatchLot
<1>9. state.left - taken \in Nat /\ state.left - taken <= state.left
  BY <1>1, <1>4
<1> QED
  BY <1>6, <1>7, <1>8, <1>9 DEF Matching

MatchedBy(F, lots, qty, at) ==
    /\ F[0] = [left |-> qty, held |-> 0, lots |-> <<>>]
    /\ \A n \in 1 .. Len(lots) : F[n] = MatchLot(F[n - 1], lots[n], at)
    /\ SoldFromLots(lots, qty, at) = F[Len(lots)]

LEMMA MatchedRun ==
    ASSUME NEW lots \in Seq(Lot), NEW qty \in Nat, NEW at \in Nat
    PROVE  \E F : MatchedBy(F, lots, qty, at)
<1> DEFINE A == Matching
           E == Lot
           D == DOMAIN lots
           first == [left |-> qty, held |-> 0, lots |-> <<>>]
           op == [x \in A \X E |-> MatchLot(x[1], x[2], at)]
           iter == CHOOSE it : it = [T \in SUBSET D |->
                      IF T = {} THEN first
                      ELSE MatchLot(it[T \ {Max(T)}], lots[Max(T)], at)]
           F == [n \in 0 .. Len(lots) |-> iter[1 .. n]]
<1>1. first \in A /\ op \in [A \X E -> A]
  <2>1. first \in A
    BY DEF Matching
  <2>2. ASSUME NEW state \in A, NEW lot \in E PROVE MatchLot(state, lot, at) \in A
    BY MatchType
  <2> QED
    BY <2>1, <2>2
<1>2. PICK f : FoldRecursion(f, A, first, lots, op)
  <2>1. lots \in Seq(E)
    OBVIOUS
  <2> HIDE DEF A, E, op, first
  <2> QED
    BY <1>1, <2>1, FoldExists
<1>3. D = 1 .. Len(lots) /\ Len(lots) \in Nat /\ \A i \in D : lots[i] \in E
  OBVIOUS
<1>4. ASSUME NEW T \in SUBSET D, T # {}
      PROVE  f[T] = MatchLot(f[T \ {Max(T)}], lots[Max(T)], at)
  <2> HIDE DEF A, E, first
  <2>1. f[T \ {Max(T)}] \in A /\ lots[Max(T)] \in E
        /\ f[T] = op[<<f[T \ {Max(T)}], lots[Max(T)]>>]
    <3> HIDE DEF op
    <3> QED
      BY <1>2, <1>3, <1>4 DEF FoldRecursion
  <2> QED
    BY <2>1
<1>5. f = [T \in SUBSET D |->
              IF T = {} THEN first ELSE MatchLot(f[T \ {Max(T)}], lots[Max(T)], at)]
  <2> HIDE DEF A, op, first
  <2> QED
    BY <1>2, <1>4 DEF FoldRecursion
<1>6. iter = [T \in SUBSET D |->
                 IF T = {} THEN first ELSE MatchLot(iter[T \ {Max(T)}], lots[Max(T)], at)]
  <2> HIDE DEF first
  <2> QED
    BY <1>5
<1>7. SoldFromLots(lots, qty, at) = iter[D]
  BY DEF SoldFromLots, FoldLeft, MapThenFoldSet
<1> HIDE DEF iter, first
<1>8. F[0] = first /\ SoldFromLots(lots, qty, at) = F[Len(lots)]
  <2>1. 1 .. 0 = {}
    OBVIOUS
  <2> QED
    BY <1>3, <1>6, <1>7, <2>1
<1>9. ASSUME NEW n \in 1 .. Len(lots)
      PROVE  F[n] = MatchLot(F[n - 1], lots[n], at)
  <2>1. n \in Nat \ {0} /\ n - 1 \in 0 .. Len(lots) /\ n \in 0 .. Len(lots)
        /\ 1 .. n \in SUBSET D /\ n \in 1 .. n
    BY <1>3
  <2>2. Max(1 .. n) = n /\ (1 .. n) \ {Max(1 .. n)} = 1 .. n - 1
    BY <2>1, MaxOfPrefix
  <2>3. iter[1 .. n] = MatchLot(iter[(1 .. n) \ {Max(1 .. n)}], lots[Max(1 .. n)], at)
    BY <1>6, <2>1
  <2> QED
    BY <2>1, <2>2, <2>3
<1> HIDE DEF F
<1> QED
  BY <1>8, <1>9 DEF MatchedBy, first

\* Of the q shares after the first `from`, those up to u are matched: H adds up
\* how long the first shares were held.
Matched(state, f, H, from, q, u) ==
    /\ state \in Matching
    /\ state.left = from + q - Lesser(from + q, u)
    /\ state.held = H[Lesser(from + q, u)] - H[from]
    /\ Fits(state.lots, f, Lesser(from + q, u), u)

\* Shares that are sold at a bar, each held since the bar that bought it.
HeldUntil(H, f, from, q, at) ==
    /\ \A n \in from .. from + q : H[n] \in Int
    /\ \A n \in from + 1 .. from + q : H[n] = H[n - 1] + (at - f[n])

LEMMA MatchStep ==
    ASSUME NEW f, NEW H, NEW from \in Nat, NEW q \in Nat, NEW at \in Nat,
           HeldUntil(H, f, from, q, at), NEW u \in Nat, from <= u,
           NEW state, Matched(state, f, H, from, q, u),
           NEW lot \in Lot, lot.at <= at, \A n \in u + 1 .. u + lot.qty : f[n] = lot.at,
           NEW w, w = MatchLot(state, lot, at)
    PROVE  Matched(w, f, H, from, q, u + lot.qty)
<1>1. PICK k, a : k = lot.qty /\ a = lot.at
  OBVIOUS
<1>2. k \in Nat \ {0} /\ a \in Nat /\ a <= at /\ \A n \in u + 1 .. u + k : f[n] = a
  BY <1>1 DEF Lot
<1>3. PICK left, held, lots : left = state.left /\ held = state.held /\ lots = state.lots
  OBVIOUS
<1>4. left \in Nat /\ held \in Nat /\ lots \in Seq(Lot)
  BY <1>3 DEF Matched, Matching
<1>5. w \in Matching
  BY MatchType DEF Matched
<1>6. PICK taken : taken = Lesser(k, left)
  OBVIOUS
<1>7. /\ w.left = left - taken
      /\ w.held = held + taken * (at - a)
      /\ w.lots = IF taken = k THEN lots ELSE Append(lots, [lot EXCEPT !.qty = k - taken])
  <2>1. w = [left |-> left - taken,
             held |-> held + taken * Higher(at - a, 0),
             lots |-> IF taken = k THEN lots ELSE Append(lots, [lot EXCEPT !.qty = k - taken])]
    BY <1>1, <1>3, <1>6 DEF MatchLot
  <2>2. Higher(at - a, 0) = at - a
    BY <1>2 DEF Higher
  <2> QED
    BY <2>1, <2>2
<1>8. CASE from + q <= u
  <2>1. Lesser(from + q, u) = from + q /\ Lesser(from + q, u + k) = from + q
    BY <1>2, <1>8 DEF Lesser
  <2>2. left = 0 /\ held = H[from + q] - H[from] /\ Fits(lots, f, from + q, u)
    BY <1>3, <2>1 DEF Matched
  <2>3. taken = 0 /\ taken # k /\ k - taken = k
    BY <1>2, <1>6, <2>2 DEF Lesser
  <2>4. w.left = 0 /\ w.held = held
    BY <1>2, <1>4, <1>7, <2>2, <2>3
  <2>5. w.lots = Append(lots, lot)
    <3>1. [lot EXCEPT !.qty = k] = lot
      BY <1>1 DEF Lot
    <3> QED
      BY <1>7, <2>3, <3>1
  <2>6. Fits(Append(lots, lot), f, from + q, u + k)
    BY <1>1, <1>2, <1>4, <2>2, FitsAppend
  <2>7. (from + q) - (from + q) = 0
    OBVIOUS
  <2> QED
    BY <1>1, <1>5, <2>1, <2>2, <2>4, <2>5, <2>6, <2>7 DEF Matched
<1>9. CASE u < from + q
  <2>1. Lesser(from + q, u) = u
    BY <1>9 DEF Lesser
  <2>2. left = from + q - u /\ held = H[u] - H[from] /\ Fits(lots, f, u, u)
    BY <1>3, <2>1 DEF Matched
  <2>3. lots = <<>>
    BY <1>4, <2>2, FitsEmpty
  <2>4. H[u] \in Int /\ H[from] \in Int
    <3>1. u \in from .. from + q /\ from \in from .. from + q
      BY <1>9
    <3> QED
      BY <3>1 DEF HeldUntil
  <2>5. ASSUME NEW t \in Nat, t <= k, u + t <= from + q
        PROVE  H[u + t] = H[u] + t * (at - a) /\ H[u + t] \in Int
    <3>1. ASSUME NEW n \in u + 1 .. u + t PROVE H[n] = H[n - 1] + (at - a)
      <4>1. n \in from + 1 .. from + q /\ n \in u + 1 .. u + k
        BY <1>2, <2>5
      <4>2. H[n] = H[n - 1] + (at - f[n])
        BY <4>1 DEF HeldUntil
      <4>3. f[n] = a
        BY <1>2, <4>1
      <4> QED
        BY <4>2, <4>3
    <3>2. at - a \in Int
      BY <1>2
    <3>3. H[u + t] = H[u] + t * (at - a)
      <4>1. PICK v : v = at - a
        OBVIOUS
      <4>2. v \in Int /\ H[u] \in Int /\ Evenly(H, u, t, v)
        BY <2>4, <3>1, <3>2, <4>1 DEF Evenly
      <4>3. H[u + t] = H[u] + t * v
        BY <4>2, LotHeld
      <4> QED
        BY <4>1, <4>3
    <3>4. u + t \in from .. from + q
      BY <2>5
    <3> QED
      BY <3>3, <3>4 DEF HeldUntil
  <2>6. CASE k <= left
    <3>1. taken = k /\ u + k <= from + q /\ Lesser(from + q, u + k) = u + k
      BY <1>2, <1>6, <2>2, <2>6 DEF Lesser
    <3>2. w.left = from + q - (u + k)
      BY <1>2, <1>7, <2>2, <3>1
    <3>3. w.held = H[u + k] - H[from]
      <4>1. PICK x, y, z, p : x = H[u] /\ y = H[u + k] /\ z = H[from] /\ p = k * (at - a)
        OBVIOUS
      <4>2. x \in Int /\ y \in Int /\ z \in Int /\ y = x + p /\ p \in Int
        BY <1>2, <2>4, <2>5, <3>1, <4>1
      <4>3. w.held = (x - z) + p
        BY <1>7, <2>2, <3>1, <4>1
      <4> QED
        BY <4>1, <4>2, <4>3
    <3>4. w.lots = <<>> /\ Fits(<<>>, f, u + k, u + k)
      BY <1>2, <1>7, <2>3, <3>1, FitsNothing
    <3> QED
      BY <1>1, <1>5, <3>1, <3>2, <3>3, <3>4 DEF Matched
  <2>7. CASE left < k
    <3>1. taken = left /\ taken # k /\ Lesser(from + q, u + k) = from + q /\ u + left = from + q
      BY <1>2, <1>4, <1>6, <2>2, <2>7 DEF Lesser
    <3>2. w.left = (from + q) - (from + q)
      BY <1>4, <1>7, <3>1
    <3>3. w.held = H[from + q] - H[from]
      <4>1. PICK x, y, z, p : x = H[u] /\ y = H[from + q] /\ z = H[from] /\ p = left * (at - a)
        OBVIOUS
      <4>2. H[u + left] = H[u] + p /\ H[u + left] \in Int
        <5>1. left <= k /\ u + left <= from + q
          BY <1>2, <1>4, <2>7, <3>1
        <5>2. H[u + left] = H[u] + left * (at - a) /\ H[u + left] \in Int
          BY <1>4, <2>5, <5>1
        <5> QED
          BY <4>1, <5>2
      <4>3. x \in Int /\ y \in Int /\ z \in Int /\ y = x + p /\ p \in Int
        BY <1>2, <1>4, <2>4, <3>1, <4>1, <4>2
      <4>4. w.held = (x - z) + p
        BY <1>7, <2>2, <3>1, <4>1
      <4> QED
        BY <4>1, <4>3, <4>4
    <3>4. PICK rest : rest = [lot EXCEPT !.qty = k - left]
      OBVIOUS
    <3>5. /\ rest \in Lot /\ rest.qty = k - left /\ rest.at = a
          /\ w.lots = Append(<<>>, rest)
      <4>1. k - left \in Nat \ {0}
        BY <1>2, <1>4, <2>7
      <4> QED
        BY <1>1, <1>7, <2>3, <3>1, <3>4, <4>1 DEF Lot
    <3>6. Fits(w.lots, f, from + q, u + k)
      <4>1. (from + q) + rest.qty = u + k /\ from + q \in Nat
        BY <1>2, <1>4, <3>1, <3>5
      <4>2. \A n \in (from + q) + 1 .. (from + q) + rest.qty : f[n] = rest.at
        <5>1. \A n \in (from + q) + 1 .. u + k : n \in u + 1 .. u + k
          BY <1>2, <1>9
        <5> QED
          BY <1>2, <3>5, <4>1, <5>1
      <4>3. <<>> \in Seq(Lot) /\ Fits(<<>>, f, from + q, from + q)
        BY <4>1, FitsNothing
      <4>4. Fits(Append(<<>>, rest), f, from + q, (from + q) + rest.qty)
        BY <3>5, <4>1, <4>2, <4>3, FitsAppend
      <4> QED
        BY <3>5, <4>1, <4>4
    <3> QED
      BY <1>1, <1>5, <3>1, <3>2, <3>3, <3>6 DEF Matched
  <2> QED
    BY <1>2, <1>4, <2>6, <2>7
<1> QED
  BY <1>8, <1>9

\* No share is of a later bar.
BoughtUntil(f, from, to, at) == \A n \in from + 1 .. to : f[n] <= at
\* The oldest of the shares are sold, and the others are left as lots.
OldestSold(sold, f, H, from, q, to) ==
    /\ sold \in Matching /\ sold.left = 0 /\ sold.held = H[from + q] - H[from]
    /\ Fits(sold.lots, f, from + q, to)

\* A sale of shares that are held takes the oldest.
LEMMA SoldFacts ==
    ASSUME NEW lots \in Seq(Lot), NEW f, NEW H, NEW from \in Nat, NEW to \in Nat,
           Fits(lots, f, from, to), NEW q \in Nat, from + q <= to, NEW at \in Nat,
           HeldUntil(H, f, from, q, at), BoughtUntil(f, from, to, at),
           NEW sold, sold = SoldFromLots(lots, q, at)
    PROVE  OldestSold(sold, f, H, from, q, to)
<1> DEFINE m == Len(lots)
<1>1. PICK F : MatchedBy(F, lots, q, at)
  BY MatchedRun
<1>2. PICK ends : EndAt(ends, lots, f, from, to)
  BY DEF Fits
<1> DEFINE Good(n) == Matched(F[n], f, H, from, q, ends[n])
           N == {n \in Nat : n <= m => Good(n)}
<1>3. m \in Nat /\ ends[0] = from /\ ends[m] = to /\ \A i \in 1 .. m : lots[i] \in Lot
  BY <1>2 DEF EndAt
<1>4. \A i \in 0 .. m : ends[i] \in Nat /\ from <= ends[i] /\ ends[i] <= to
  <2>1. ASSUME NEW i \in 0 .. m PROVE ends[i] \in from + i .. to
    BY <1>2, EndsGrow
  <2> QED
    BY <1>3, <2>1
<1>5. \A i \in 1 .. m : /\ ends[i] = ends[i - 1] + lots[i].qty
                        /\ \A n \in ends[i - 1] + 1 .. ends[i] : f[n] = lots[i].at
  BY <1>2 DEF EndAt
<1> HIDE DEF m
<1>6. Good(0)
  <2>1. F[0] = [left |-> q, held |-> 0, lots |-> <<>>]
    BY <1>1 DEF MatchedBy
  <2>2. F[0] \in Matching /\ F[0].left = q /\ F[0].held = 0 /\ F[0].lots = <<>>
    BY <2>1 DEF Matching
  <2>3. Lesser(from + q, from) = from /\ from + q - from = q
    BY DEF Lesser
  <2>4. H[from] - H[from] = 0
    <3>1. from \in from .. from + q
      OBVIOUS
    <3>2. H[from] \in Int
      BY <3>1 DEF HeldUntil
    <3> QED
      BY <3>2
  <2> QED
    BY <1>3, <2>2, <2>3, <2>4, FitsNothing DEF Matched
<1>7. ASSUME NEW n \in N PROVE n + 1 \in N
  <2>1. n \in Nat /\ (n + 1) - 1 = n
    OBVIOUS
  <2>2. ASSUME n + 1 <= m PROVE Good(n + 1)
    <3>1. n + 1 \in 1 .. m /\ n <= m /\ n \in 0 .. m /\ n + 1 \in 0 .. m
      BY <1>3, <2>1, <2>2
    <3>2. Matched(F[n], f, H, from, q, ends[n])
      BY <1>7, <3>1
    <3>3. PICK lot : lot = lots[n + 1]
      OBVIOUS
    <3>4. lot \in Lot /\ ends[n + 1] = ends[n] + lot.qty
          /\ \A x \in ends[n] + 1 .. ends[n] + lot.qty : f[x] = lot.at
      BY <1>3, <1>5, <2>1, <3>1, <3>3
    <3>5. ends[n] \in Nat /\ from <= ends[n] /\ ends[n + 1] <= to /\ lot.qty \in Nat \ {0}
      BY <1>4, <3>1, <3>4 DEF Lot
    <3>6. lot.at <= at
      <4>1. PICK e, k : e = ends[n] /\ k = lot.qty
        OBVIOUS
      <4>2. e \in Nat /\ k \in Nat \ {0} /\ from <= e /\ e + k <= to
        BY <3>4, <3>5, <4>1
      <4>3. e + 1 \in e + 1 .. e + k /\ e + 1 \in from + 1 .. to
        BY <4>2
      <4> QED
        BY <3>4, <4>1, <4>3 DEF BoughtUntil
    <3>7. F[n + 1] = MatchLot(F[n], lot, at)
      BY <1>1, <2>1, <3>1, <3>3 DEF MatchedBy, m
    <3>8. Matched(F[n + 1], f, H, from, q, ends[n] + lot.qty)
      BY <3>2, <3>4, <3>5, <3>6, <3>7, MatchStep
    <3> QED
      BY <3>4, <3>8
  <2> HIDE DEF Good
  <2> QED
    BY <2>1, <2>2
<1>8. N = Nat
  <2>1. N \in SUBSET Nat
    OBVIOUS
  <2>2. 0 \in N
    <3> HIDE DEF Good
    <3> QED
      BY <1>6
  <2> HIDE DEF N
  <2> QED
    BY <1>7, <2>1, <2>2, SetInduction
<1>9. Good(m)
  <2> HIDE DEF Good
  <2> QED
    BY <1>3, <1>8
<1>10. Matched(sold, f, H, from, q, to)
  BY <1>1, <1>3, <1>9 DEF MatchedBy, m
<1>11. Lesser(from + q, to) = from + q /\ (from + q) - (from + q) = 0
  BY DEF Lesser
<1> QED
  BY <1>10, <1>11 DEF Matched, OldestSold

LEMMA SoldType ==
    ASSUME NEW lots \in Seq(Lot), NEW q \in Nat, NEW at \in Nat
    PROVE  SoldFromLots(lots, q, at) \in Matching
<1> DEFINE m == Len(lots)
<1>1. PICK F : MatchedBy(F, lots, q, at)
  BY MatchedRun
<1> DEFINE N == {n \in Nat : n <= m => F[n] \in Matching}
<1>2. m \in Nat /\ \A i \in 1 .. m : lots[i] \in Lot
  OBVIOUS
<1>3. \A n \in 1 .. m : F[n] = MatchLot(F[n - 1], lots[n], at)
  BY <1>1 DEF MatchedBy
<1>4. 0 \in N
  <2>1. F[0] = [left |-> q, held |-> 0, lots |-> <<>>]
    BY <1>1 DEF MatchedBy
  <2>2. F[0] \in Matching
    BY <2>1 DEF Matching
  <2> QED
    BY <2>2
<1>5. ASSUME NEW n \in N PROVE n + 1 \in N
  <2>1. n \in Nat /\ (n + 1) - 1 = n
    OBVIOUS
  <2>2. ASSUME n + 1 <= m PROVE F[n + 1] \in Matching
    <3>1. n + 1 \in 1 .. m /\ n <= m
      BY <1>2, <2>1, <2>2
    <3>2. F[n] \in Matching /\ F[n + 1] = MatchLot(F[n], lots[n + 1], at) /\ lots[n + 1] \in Lot
      BY <1>2, <1>3, <1>5, <2>1, <3>1
    <3> QED
      BY <3>2, MatchType
  <2> QED
    BY <2>1, <2>2
<1>6. N = Nat
  <2>1. N \in SUBSET Nat
    OBVIOUS
  <2> HIDE DEF N
  <2> QED
    BY <1>4, <1>5, <2>1, SetInduction
<1>7. F[m] \in Matching
  BY <1>2, <1>6
<1> QED
  BY <1>1, <1>7 DEF MatchedBy

-----------------------------------------------------------------------------
(* The count of the fills                                                   *)

Counting == [lots : [Symbol -> Seq(Lot)], held : Nat, closed : Int]

LEMMA NothingHeldType == NothingHeld \in Counting
<1>1. [s \in Symbol |-> <<>>] \in [Symbol -> Seq(Lot)]
  OBVIOUS
<1> QED
  BY <1>1 DEF NothingHeld, Counting

LEMMA BarIndexType ==
    ASSUME NEW curve \in Seq(Point), NEW time \in Int
    PROVE  BarIndex(curve, time) \in Nat
<1> DEFINE exact == {i \in DOMAIN curve : curve[i].time = time}
           before == {i \in DOMAIN curve : curve[i].time < time}
<1>1. DOMAIN curve = 1 .. Len(curve) /\ Len(curve) \in Nat
  OBVIOUS
<1>2. exact \in SUBSET Nat /\ before \in SUBSET (1 .. Len(curve))
  BY <1>1
<1>3. BarIndex(curve, time) = IF exact # {} THEN CHOOSE i \in exact : \A j \in exact : i <= j
                              ELSE Cardinality(before)
  BY DEF BarIndex
<1> HIDE DEF exact, before
<1>4. exact # {} => (CHOOSE i \in exact : \A j \in exact : i <= j) \in Nat
  <2>1. exact # {} => \E i \in exact : \A j \in exact : i <= j
    BY <1>2, LeastNumber
  <2> QED
    BY <1>2, <2>1
<1>5. Cardinality(before) \in Nat
  <2>1. IsFiniteSet(1 .. Len(curve))
    BY <1>1, FS_Interval
  <2>2. IsFiniteSet(before)
    BY <1>2, <2>1, FS_Subset
  <2> QED
    BY <2>2, FS_CardinalityType
<1> QED
  BY <1>3, <1>4, <1>5

LEMMA CountType ==
    ASSUME NEW curve \in Seq(Point), NEW state \in Counting, NEW fill \in FilledOrder
    PROVE  CountFill(curve, state, fill) \in Counting
<1> DEFINE s == fill.symbol
           at == BarIndex(curve, fill.time)
           sold == SoldFromLots(state.lots[s], fill.qty, at)
<1>1. s \in Symbol /\ fill.qty \in Nat \ {0} /\ fill.time \in Int /\ fill.side \in {"buy", "sell"}
  BY DEF FilledOrder
<1>2. /\ state.lots \in [Symbol -> Seq(Lot)] /\ state.held \in Nat /\ state.closed \in Int
      /\ state = [lots |-> state.lots, held |-> state.held, closed |-> state.closed]
  BY DEF Counting
<1>3. at \in Nat
  BY <1>1, BarIndexType
<1>4. CASE at # 0 /\ fill.side = "buy"
  <2>1. CountFill(curve, state, fill)
           = [state EXCEPT !.lots[s] = Append(@, [qty |-> fill.qty, at |-> at])]
    BY <1>4 DEF CountFill
  <2> HIDE DEF s, at
  <2>2. Append(state.lots[s], [qty |-> fill.qty, at |-> at]) \in Seq(Lot)
    BY <1>1, <1>2, <1>3 DEF Lot
  <2>3. PICK l : l = [state.lots EXCEPT ![s] = Append(state.lots[s], [qty |-> fill.qty, at |-> at])]
    OBVIOUS
  <2>4. l \in [Symbol -> Seq(Lot)]
    BY <1>1, <1>2, <2>2, <2>3
  <2>5. CountFill(curve, state, fill) = [lots |-> l, held |-> state.held, closed |-> state.closed]
    BY <1>2, <2>1, <2>3
  <2> QED
    BY <1>2, <2>4, <2>5 DEF Counting
<1>5. CASE at # 0 /\ fill.side = "sell"
  <2>1. CountFill(curve, state, fill)
           = [lots |-> [state.lots EXCEPT ![s] = sold.lots],
              held |-> state.held + sold.held,
              closed |-> state.closed + fill.qty - sold.left]
    BY <1>5 DEF CountFill
  <2>2. sold \in Matching
    <3> HIDE DEF s, at
    <3> QED
      BY <1>1, <1>2, <1>3, SoldType
  <2>3. PICK l, h, c : l = [state.lots EXCEPT ![s] = sold.lots] /\ h = state.held + sold.held
                       /\ c = state.closed + fill.qty - sold.left
    OBVIOUS
  <2> HIDE DEF s, sold
  <2>4. sold.left \in Nat /\ sold.held \in Nat /\ sold.lots \in Seq(Lot)
    BY <2>2 DEF Matching
  <2>5. l \in [Symbol -> Seq(Lot)]
    BY <1>1, <1>2, <2>3, <2>4
  <2>6. h \in Nat
    BY <1>2, <2>3, <2>4
  <2>7. c \in Int
    <3>1. PICK a, b, d : a = state.closed /\ b = fill.qty /\ d = sold.left
      OBVIOUS
    <3>2. a \in Int /\ b \in Nat /\ d \in Nat /\ c = a + b - d
      BY <1>1, <1>2, <2>3, <2>4, <3>1
    <3> QED
      BY <3>2
  <2> QED
    BY <2>1, <2>3, <2>5, <2>6, <2>7 DEF Counting
<1>6. CASE at = 0
  BY <1>6 DEF CountFill
<1> QED
  BY <1>1, <1>4, <1>5, <1>6

FillsCounted(curve, fills) ==
    FoldLeft(LAMBDA state, fill : CountFill(curve, state, fill), NothingHeld, fills)
FillsCountedBy(F, curve, fills) ==
    /\ F[0] = NothingHeld
    /\ \A n \in 1 .. Len(fills) : F[n] = CountFill(curve, F[n - 1], fills[n])
    /\ FillsCounted(curve, fills) = F[Len(fills)]

LEMMA FillsCountedRun ==
    ASSUME NEW curve \in Seq(Point), NEW fills \in Seq(FilledOrder)
    PROVE  \E F : FillsCountedBy(F, curve, fills)
<1> DEFINE A == Counting
           E == FilledOrder
           D == DOMAIN fills
           first == NothingHeld
           op == [x \in A \X E |-> CountFill(curve, x[1], x[2])]
           iter == CHOOSE it : it = [T \in SUBSET D |->
                      IF T = {} THEN first
                      ELSE CountFill(curve, it[T \ {Max(T)}], fills[Max(T)])]
           F == [n \in 0 .. Len(fills) |-> iter[1 .. n]]
<1>1. first \in A /\ op \in [A \X E -> A]
  <2>1. ASSUME NEW state \in A, NEW fill \in E PROVE CountFill(curve, state, fill) \in A
    BY CountType
  <2> QED
    BY <2>1, NothingHeldType
<1>2. PICK f : FoldRecursion(f, A, first, fills, op)
  <2>1. fills \in Seq(E)
    OBVIOUS
  <2> HIDE DEF A, E, op, first
  <2> QED
    BY <1>1, <2>1, FoldExists
<1>3. D = 1 .. Len(fills) /\ Len(fills) \in Nat /\ \A i \in D : fills[i] \in E
  OBVIOUS
<1>4. ASSUME NEW T \in SUBSET D, T # {}
      PROVE  f[T] = CountFill(curve, f[T \ {Max(T)}], fills[Max(T)])
  <2> HIDE DEF A, E, first
  <2>1. f[T \ {Max(T)}] \in A /\ fills[Max(T)] \in E
        /\ f[T] = op[<<f[T \ {Max(T)}], fills[Max(T)]>>]
    <3> HIDE DEF op
    <3> QED
      BY <1>2, <1>3, <1>4 DEF FoldRecursion
  <2> QED
    BY <2>1
<1>5. f = [T \in SUBSET D |->
              IF T = {} THEN first ELSE CountFill(curve, f[T \ {Max(T)}], fills[Max(T)])]
  <2> HIDE DEF A, op, first
  <2> QED
    BY <1>2, <1>4 DEF FoldRecursion
<1>6. iter = [T \in SUBSET D |->
                 IF T = {} THEN first ELSE CountFill(curve, iter[T \ {Max(T)}], fills[Max(T)])]
  <2> HIDE DEF first
  <2> QED
    BY <1>5
<1>7. FillsCounted(curve, fills) = iter[D]
  BY DEF FillsCounted, FoldLeft, MapThenFoldSet
<1> HIDE DEF iter, first
<1>8. F[0] = first /\ FillsCounted(curve, fills) = F[Len(fills)]
  <2>1. 1 .. 0 = {}
    OBVIOUS
  <2> QED
    BY <1>3, <1>6, <1>7, <2>1
<1>9. ASSUME NEW n \in 1 .. Len(fills)
      PROVE  F[n] = CountFill(curve, F[n - 1], fills[n])
  <2>1. n \in Nat \ {0} /\ n - 1 \in 0 .. Len(fills) /\ n \in 0 .. Len(fills)
        /\ 1 .. n \in SUBSET D /\ n \in 1 .. n
    BY <1>3
  <2>2. Max(1 .. n) = n /\ (1 .. n) \ {Max(1 .. n)} = 1 .. n - 1
    BY <2>1, MaxOfPrefix
  <2>3. iter[1 .. n] = CountFill(curve, iter[(1 .. n) \ {Max(1 .. n)}], fills[Max(1 .. n)])
    BY <1>6, <2>1
  <2> QED
    BY <2>1, <2>2, <2>3
<1> HIDE DEF F
<1> QED
  BY <1>8, <1>9 DEF FillsCountedBy, first

LEMMA FillsCountedAppend ==
    ASSUME NEW curve \in Seq(Point), NEW fills \in Seq(FilledOrder), NEW fill \in FilledOrder
    PROVE  FillsCounted(curve, Append(fills, fill)) = CountFill(curve, FillsCounted(curve, fills), fill)
<1> DEFINE more == Append(fills, fill)
           m == Len(fills)
<1>1. /\ more \in Seq(FilledOrder) /\ Len(more) = m + 1 /\ more[m + 1] = fill
      /\ m \in Nat /\ \A n \in 1 .. m : more[n] = fills[n]
  OBVIOUS
<1>2. PICK F : FillsCountedBy(F, curve, fills)
  BY FillsCountedRun
<1> HIDE DEF more
<1>3. PICK G : FillsCountedBy(G, curve, more)
  BY <1>1, FillsCountedRun
<1>4. F[0] = G[0] /\ \A n \in 1 .. m : F[n - 1] = G[n - 1] => F[n] = G[n]
  <2>1. ASSUME NEW n \in 1 .. m, F[n - 1] = G[n - 1] PROVE F[n] = G[n]
    <3>1. n \in 1 .. Len(more)
      BY <1>1
    <3> QED
      BY <1>1, <1>2, <1>3, <2>1, <3>1 DEF FillsCountedBy
  <2> QED
    BY <1>2, <1>3, <2>1 DEF FillsCountedBy
<1>5. F[m] = G[m]
  <2> HIDE DEF m
  <2> QED
    BY <1>1, <1>4, RunsAgree
<1>6. m + 1 \in 1 .. Len(more) /\ (m + 1) - 1 = m
  BY <1>1
<1>7. G[m + 1] = CountFill(curve, G[m], fill)
  BY <1>1, <1>3, <1>6 DEF FillsCountedBy
<1> QED
  BY <1>1, <1>2, <1>3, <1>5, <1>7 DEF FillsCountedBy, more

LEMMA NoFillsCounted ==
    ASSUME NEW curve \in Seq(Point)
    PROVE  FillsCounted(curve, <<>>) = NothingHeld
<1>1. <<>> \in Seq(FilledOrder) /\ Len(<<>>) = 0
  OBVIOUS
<1>2. PICK F : FillsCountedBy(F, curve, <<>>)
  BY <1>1, FillsCountedRun
<1> QED
  BY <1>1, <1>2 DEF FillsCountedBy

-----------------------------------------------------------------------------
(* The bar that a fill is counted at                                        *)

\* A point for each bar.
OfBars(curve, bars) ==
    Len(curve) = Len(bars) /\ \A j \in 1 .. Len(bars) : curve[j].time = Time(bars[j])

LEMMA BarIndexIs ==
    ASSUME NEW bars \in Seq(ReplayBar), Prompt(bars), NEW curve \in Seq(Point), OfBars(curve, bars),
           NEW k \in 1 .. Len(bars), bars[k].fill # <<>>
    PROVE  BarIndex(curve, bars[k].fill[1].time) = k
<1> DEFINE m == Len(bars)
           T(j) == Time(bars[j])
           x == bars[k].fill[1].time
           exact == {i \in DOMAIN curve : curve[i].time = x}
           before == {i \in DOMAIN curve : curve[i].time < x}
<1>1. m \in Nat /\ DOMAIN bars = 1 .. m /\ DOMAIN curve = 1 .. m
  BY DEF OfBars
<1>2. \A j \in 1 .. m : T(j) \in Int /\ curve[j].time = T(j)
  <2>1. \A bar \in ReplayBar : Time(bar) \in Int
    BY DEF Time, ReplayBar
  <2> QED
    BY <2>1 DEF OfBars
<1>3. \A i, j \in 1 .. m : i < j => T(i) < T(j)
  BY <1>1 DEF Prompt
<1>4. T(k) <= x /\ \A j \in 1 .. m : k < j => x < T(j)
  BY <1>1 DEF Prompt
<1>5. x \in Int
  <2>1. bars[k] \in ReplayBar
    OBVIOUS
  <2>2. bars[k].fill[1] \in FilledOrder
    BY <2>1, FillOfBar
  <2> QED
    BY <2>2 DEF FilledOrder
<1>6. BarIndex(curve, x) = IF exact # {} THEN CHOOSE i \in exact : \A j \in exact : i <= j
                           ELSE Cardinality(before)
  BY DEF BarIndex
<1>7. exact = {j \in 1 .. m : T(j) = x} /\ before = {j \in 1 .. m : T(j) < x}
  BY <1>1, <1>2
<1> HIDE DEF m, T, x, exact, before
<1>8. k \in 1 .. m /\ \A j \in 1 .. m : j < k => T(j) < T(k)
  BY <1>3 DEF m
<1>9. CASE T(k) = x
  <2>1. exact = {k}
    BY <1>1, <1>2, <1>4, <1>5, <1>7, <1>8, <1>9
  <2> QED
    BY <1>1, <1>6, <1>8, <2>1 DEF x
<1>10. CASE T(k) # x
  <2>1. exact = {}
    BY <1>1, <1>2, <1>4, <1>5, <1>7, <1>8, <1>10
  <2>2. before = 1 .. k
    BY <1>1, <1>2, <1>4, <1>5, <1>7, <1>8, <1>10
  <2>3. Cardinality(1 .. k) = k
    <3>1. k \in Int /\ 1 \in Int /\ 1 <= k /\ k - 1 + 1 = k
      BY <1>1, <1>8
    <3> QED
      BY <3>1, FS_Interval
  <2> QED
    BY <1>6, <2>1, <2>2, <2>3 DEF x
<1> QED
  BY <1>9, <1>10

-----------------------------------------------------------------------------
(* What a bar does to the shares, the fills and the curve                   *)

LEMMA AppliedQty ==
    ASSUME NEW p \in LongRow, NEW fill \in FilledOrder,
           fill.side = "sell" => fill.qty <= Release(p, fill.day, fill.day).sellable
    PROVE  Applied(p, fill).qty = IF fill.side = "buy" THEN p.qty + fill.qty ELSE p.qty - fill.qty
<1>1. /\ fill.side \in {"buy", "sell"} /\ fill.qty \in Nat \ {0} /\ fill.day \in Int
  BY DEF FilledOrder
<1>2. PICK r : r = Release(p, fill.day, fill.day)
  OBVIOUS
<1>3. r \in LongRow /\ r.qty = p.qty
  BY <1>1, <1>2, RowReleased
<1>4. r.qty \in Nat /\ r.sellable \in Nat /\ r.sellable <= r.qty
  BY <1>3 DEF LongRow
<1>5. CASE fill.side = "buy"
  <2>1. Applied(p, fill) = Bought(r, fill)
    BY <1>2, <1>5 DEF Applied
  <2> QED
    BY <1>3, <1>5, <2>1 DEF Bought
<1>6. CASE fill.side = "sell"
  <2>1. Applied(p, fill) = Sold(r, fill)
    BY <1>2, <1>6 DEF Applied
  <2>2. CASE fill.qty = r.qty
    <3>1. Applied(p, fill) = [Flat EXCEPT !.updated = fill.day]
      BY <2>1, <2>2 DEF Sold
    <3>2. Applied(p, fill).qty = 0
      BY <3>1 DEF Flat
    <3> QED
      BY <1>3, <1>4, <1>6, <2>2, <3>2
  <2>3. CASE fill.qty # r.qty
    <3>1. PICK q, c : q = r.qty - fill.qty /\ c = r.sellable - fill.qty
      OBVIOUS
    <3>2. Applied(p, fill) = [r EXCEPT !.qty = q, !.sellable = c, !.mark = fill.price,
                                       !.updated = fill.day]
      BY <1>3, <2>1, <2>3, <3>1 DEF Sold, LongRow
    <3>3. Applied(p, fill).qty = q
      BY <1>3, <3>2 DEF LongRow
    <3> QED
      BY <1>3, <1>6, <3>1, <3>3
  <2> QED
    BY <2>2, <2>3
<1> QED
  BY <1>1, <1>5, <1>6

\* An account after a bar that the ledger took.
Stepped(a, bar, w) ==
    /\ w \in ReplayAccount
    /\ \E point \in Point : point.time = Time(bar) /\ w.curve = Append(a.curve, point)
    /\ w.fills = IF bar.fill = <<>> THEN a.fills ELSE Append(a.fills, bar.fill[1])
    /\ \A s \in Symbol : w.position[s].qty
                            = a.position[s].qty + Traded(bar, "buy", s) - Traded(bar, "sell", s)

\* An account with the point of a bar.
Pointed(a, bar, w) ==
    /\ w \in ReplayAccount /\ w.position = a.position /\ w.fills = a.fills
    /\ \E point \in Point : point.time = Time(bar) /\ w.curve = Append(a.curve, point)

LEMMA PointSteps ==
    ASSUME NEW a \in ReplayAccount, NEW bar \in ReplayBar, NEW w, w = WithPoint(a, bar)
    PROVE  Pointed(a, bar, w)
<1>1. PICK equity : equity = a.cash + Market(a)
  OBVIOUS
<1>2. PICK point : point = PointOf(a, bar, equity)
  OBVIOUS
<1>3. PointAdded(a, equity, point, w)
  BY <1>1, <1>2, PointFacts
<1>4. /\ point \in Point /\ w \in ReplayAccount
      /\ w = [a EXCEPT !.peak = Higher(a.peak, equity), !.curve = Append(a.curve, point)]
  BY <1>3 DEF PointAdded
<1>5. point.time = Time(bar)
  BY <1>2 DEF PointOf
<1>6. /\ w.position = a.position /\ w.fills = a.fills
      /\ w.curve = Append(a.curve, point)
  BY <1>4 DEF ReplayAccount
<1> QED
  BY <1>4, <1>5, <1>6 DEF Pointed

LEMMA BarDoes ==
    ASSUME NEW a \in ReplayAccount, ~a.raised, NEW bar \in ReplayBar,
           NEW w, w = AfterBar(a, bar), ~w.raised
    PROVE  Stepped(a, bar, w)
<1> DEFINE s == bar.symbol
           fill == bar.fill[1]
<1>1. s \in Symbol /\ (bar.fill # <<>> => fill \in FilledOrder /\ fill.symbol = s)
  BY DEF ReplayBar
<1>2. w = WithBar(a, bar)
  BY DEF AfterBar
<1>3. a.position \in [Symbol -> LongRow] /\ bar.day \in Int
  BY DEF ReplayAccount, ReplayBar
<1>4. PICK o : o = Opened(a.position[s], bar)
  OBVIOUS
<1>5. o \in LongRow /\ o.qty = a.position[s].qty
  <2>1. PICK r : r = Release(a.position[s], bar.day, bar.day)
    OBVIOUS
  <2>2. r \in LongRow /\ r.qty = a.position[s].qty
    BY <1>1, <1>3, <2>1, RowReleased
  <2>3. o = r \/ o = a.position[s]
    BY <1>4, <2>1 DEF Opened
  <2> QED
    BY <1>1, <1>3, <2>2, <2>3
<1>6. PICK q : q = Marked(o, bar)
  OBVIOUS
<1>7. q \in LongRow /\ q.qty = o.qty
  BY <1>5, <1>6, RowMarked
<1>8. PICK b : b = [a EXCEPT !.position[s] = q]
  OBVIOUS
<1>9. b \in ReplayAccount /\ b.fills = a.fills /\ b.curve = a.curve
      /\ b.position = [a.position EXCEPT ![s] = q]
  BY <1>1, <1>7, <1>8 DEF ReplayAccount
<1>10. b = [a EXCEPT !.position[s] = Marked(Opened(@, bar), bar)]
  BY <1>4, <1>6, <1>8
<1>11. \A t \in Symbol : b.position[t].qty = a.position[t].qty /\ a.position[t].qty \in Nat
  <2>1. \A t \in Symbol : b.position[t] = IF t = s THEN q ELSE a.position[t]
    BY <1>3, <1>9
  <2> QED
    BY <1>3, <1>5, <1>7, <2>1 DEF LongRow
<1>12. CASE bar.fill = <<>>
  <2>1. w = WithPoint(b, bar)
    BY <1>2, <1>10, <1>12 DEF WithBar
  <2>2. \A t \in Symbol : Traded(bar, "buy", t) = 0 /\ Traded(bar, "sell", t) = 0
    BY <1>12 DEF Traded
  <2>3. /\ w \in ReplayAccount /\ w.position = b.position /\ w.fills = b.fills
        /\ \E point \in Point : point.time = Time(bar) /\ w.curve = Append(b.curve, point)
    <3>1. Pointed(b, bar, w)
      BY <1>9, <2>1, PointSteps
    <3> QED
      BY <3>1 DEF Pointed
  <2>4. \A t \in Symbol : w.position[t].qty
                             = a.position[t].qty + Traded(bar, "buy", t) - Traded(bar, "sell", t)
    BY <1>11, <2>2, <2>3
  <2> QED
    BY <1>9, <1>12, <2>3, <2>4 DEF Stepped
<1>13. CASE bar.fill # <<>> /\ ~Accepts(b.position[s], b.cash, fill)
  <2>1. w = [a EXCEPT !.raised = TRUE]
    BY <1>2, <1>10, <1>13 DEF WithBar
  <2>2. w.raised = TRUE
    BY <2>1 DEF ReplayAccount
  <2> QED
    BY <2>2
<1>14. CASE bar.fill # <<>> /\ Accepts(b.position[s], b.cash, fill)
  <2>1. PICK c : c = WithFill(b, fill)
    OBVIOUS
  <2>2. PICK e : e = [c EXCEPT !.position[s] = Marked(@, bar)]
    OBVIOUS
  <2>3. w = WithPoint(e, bar)
    BY <1>2, <1>10, <1>14, <2>1, <2>2 DEF WithBar
  <2>4. fill \in FilledOrder /\ fill.symbol = s
    BY <1>1, <1>14
  <2>5. PICK delta : delta = RealizedDelta(Release(b.position[s], fill.day, fill.day), fill)
    OBVIOUS
  <2>6. FillBooked(b, fill, delta, c)
    <3> HIDE DEF s, fill
    <3> QED
      BY <1>9, <1>14, <2>1, <2>4, <2>5, FillFacts
  <2>7. PICK p : p = Applied(b.position[s], fill)
    OBVIOUS
  <2>8. /\ c \in ReplayAccount /\ c.fills = Append(b.fills, fill) /\ c.curve = b.curve
        /\ c.position = [b.position EXCEPT ![s] = p]
    <3> HIDE DEF fill, s
    <3>1. /\ c \in ReplayAccount
          /\ c = [b EXCEPT !.position[s] = p,
                           !.realized[s] = Plus(b.realized[s], delta),
                           !.cash = b.cash + CashFlow(fill),
                           !.fills = Append(b.fills, fill),
                           !.outcomes = IF fill.side = "sell" THEN Append(b.outcomes, delta)
                                        ELSE b.outcomes]
      BY <2>4, <2>6, <2>7 DEF FillBooked
    <3> QED
      BY <1>9, <3>1 DEF ReplayAccount
  <2>9. c.position[s] = p /\ p \in LongRow
    BY <1>1, <1>9, <2>8 DEF ReplayAccount
  <2>10. PICK n : n = Marked(p, bar)
    OBVIOUS
  <2>11. n \in LongRow /\ n.qty = p.qty
    BY <2>9, <2>10, RowMarked
  <2>12. /\ e \in ReplayAccount /\ e.fills = c.fills /\ e.curve = c.curve
         /\ e.position = [c.position EXCEPT ![s] = n]
    <3>1. e = [c EXCEPT !.position[s] = n]
      BY <2>2, <2>9, <2>10
    <3> HIDE DEF s
    <3> QED
      BY <1>1, <2>8, <2>11, <3>1 DEF ReplayAccount
  <2>13. /\ w \in ReplayAccount /\ w.position = e.position /\ w.fills = e.fills
         /\ \E point \in Point : point.time = Time(bar) /\ w.curve = Append(e.curve, point)
    <3>1. Pointed(e, bar, w)
      BY <2>3, <2>12, PointSteps
    <3> QED
      BY <3>1 DEF Pointed
  <2>14. p.qty = IF fill.side = "buy" THEN b.position[s].qty + fill.qty
                 ELSE b.position[s].qty - fill.qty
    <3>1. fill.side = "sell" => fill.qty <= Release(b.position[s], fill.day, fill.day).sellable
      BY <1>14 DEF Accepts
    <3>2. b.position[s] \in LongRow
      BY <1>1, <1>9 DEF ReplayAccount
    <3> HIDE DEF s, fill
    <3> QED
      BY <2>4, <2>7, <3>1, <3>2, AppliedQty
  <2>15. ASSUME NEW t \in Symbol
         PROVE  w.position[t].qty
                   = a.position[t].qty + Traded(bar, "buy", t) - Traded(bar, "sell", t)
    <3>1. fill.side \in {"buy", "sell"} /\ fill.qty \in Nat
      BY <2>4 DEF FilledOrder
    <3>2. /\ Traded(bar, "buy", t) = IF fill.side = "buy" /\ s = t THEN fill.qty ELSE 0
          /\ Traded(bar, "sell", t) = IF fill.side = "sell" /\ s = t THEN fill.qty ELSE 0
      BY <1>14, <2>4 DEF Traded
    <3>3. CASE t = s
      <4>1. w.position[t].qty = p.qty
        <5>1. e.position[s] = n
          BY <1>1, <2>8, <2>12 DEF ReplayAccount
        <5> QED
          BY <2>11, <2>13, <3>3, <5>1
      <4>2. b.position[s].qty = a.position[t].qty /\ a.position[t].qty \in Nat
        BY <1>11, <3>3
      <4> HIDE DEF s, fill
      <4> QED
        BY <2>14, <3>1, <3>2, <3>3, <4>1, <4>2
    <3>4. CASE t # s
      <4>1. e.position[t] = c.position[t] /\ c.position[t] = b.position[t]
        BY <1>9, <2>8, <2>12, <3>4 DEF ReplayAccount
      <4> HIDE DEF s, fill
      <4> QED
        BY <1>11, <2>13, <3>2, <3>4, <4>1
    <3> QED
      BY <3>3, <3>4
  <2>16. w.fills = Append(a.fills, fill) /\ e.curve = a.curve
    BY <1>9, <2>8, <2>12, <2>13
  <2> QED
    BY <1>14, <2>13, <2>15, <2>16 DEF Stepped
<1> QED
  BY <1>12, <1>13, <1>14

\* A replay of the bars that the ledger took to its end.
Completed(F, bars) ==
    /\ F[0] = FirstAccount
    /\ \A n \in 0 .. Len(bars) : F[n] \in ReplayAccount
    /\ \A n \in 1 .. Len(bars) : Stepped(F[n - 1], bars[n], F[n])
    /\ Rolled(FirstAccount, bars) = F[Len(bars)]

LEMMA CompletedRun ==
    ASSUME NEW bars \in Seq(ReplayBar), ~Rolled(FirstAccount, bars).raised
    PROVE  \E F : Completed(F, bars)
<1> DEFINE m == Len(bars)
<1>1. PICK F : RolledBy(F, bars, FirstAccount)
  BY FirstAccountType, RolledRun
<1>2. m \in Nat /\ \A n \in 1 .. m : bars[n] \in ReplayBar
  OBVIOUS
<1>3. \A n \in 1 .. m : F[n] = AfterBar(F[n - 1], bars[n])
  BY <1>1 DEF RolledBy
<1>4. ~F[m].raised
  BY <1>1 DEF RolledBy
<1> DEFINE Typed == {n \in Nat : n <= m => F[n] \in ReplayAccount}
           Unraised == {d \in Nat : d <= m => ~F[m - d].raised}
<1> HIDE DEF m
<1>5. Typed = Nat
  <2>1. 0 \in Typed
    BY <1>1, FirstAccountType DEF RolledBy
  <2>2. ASSUME NEW n \in Typed PROVE n + 1 \in Typed
    <3>1. n \in Nat /\ (n + 1) - 1 = n
      OBVIOUS
    <3>2. ASSUME n + 1 <= m PROVE F[n + 1] \in ReplayAccount
      <4>1. n + 1 \in 1 .. m /\ n <= m
        BY <1>2, <3>1, <3>2
      <4>2. F[n] \in ReplayAccount /\ bars[n + 1] \in ReplayBar
            /\ F[n + 1] = AfterBar(F[n], bars[n + 1])
        BY <1>2, <1>3, <2>2, <3>1, <4>1
      <4> QED
        BY <4>2, AccountsAreKept, BarKeeps
    <3> QED
      BY <3>1, <3>2
  <2>3. Typed \in SUBSET Nat
    OBVIOUS
  <2> HIDE DEF Typed
  <2> QED
    BY <2>1, <2>2, <2>3, SetInduction
<1>6. Unraised = Nat
  <2>1. 0 \in Unraised
    <3>1. m - 0 = m
      BY <1>2
    <3> QED
      BY <1>4, <3>1
  <2>2. ASSUME NEW d \in Unraised PROVE d + 1 \in Unraised
    <3>1. d \in Nat
      OBVIOUS
    <3>2. ASSUME d + 1 <= m PROVE ~F[m - (d + 1)].raised
      <4>1. m - d \in 1 .. m /\ (m - d) - 1 = m - (d + 1) /\ d <= m
        BY <1>2, <3>1, <3>2
      <4>2. ~F[m - d].raised /\ F[m - d] = AfterBar(F[m - (d + 1)], bars[m - d])
        BY <1>3, <2>2, <4>1
      <4> QED
        BY <4>2 DEF AfterBar
    <3> QED
      BY <3>1, <3>2
  <2>3. Unraised \in SUBSET Nat
    OBVIOUS
  <2> HIDE DEF Unraised
  <2> QED
    BY <2>1, <2>2, <2>3, SetInduction
<1>7. \A n \in 0 .. m : F[n] \in ReplayAccount /\ ~F[n].raised
  <2> SUFFICES ASSUME NEW n \in 0 .. m PROVE F[n] \in ReplayAccount /\ ~F[n].raised
    OBVIOUS
  <2>1. n \in Nat /\ n <= m /\ m - n \in Nat /\ m - n <= m /\ m - (m - n) = n
    BY <1>2
  <2>2. n \in Typed /\ m - n \in Unraised
    BY <1>5, <1>6, <2>1
  <2> QED
    BY <2>1, <2>2
<1>8. \A n \in 1 .. m : Stepped(F[n - 1], bars[n], F[n])
  <2> SUFFICES ASSUME NEW n \in 1 .. m PROVE Stepped(F[n - 1], bars[n], F[n])
    OBVIOUS
  <2>1. n - 1 \in 0 .. m /\ n \in 0 .. m
    BY <1>2
  <2> QED
    BY <1>2, <1>3, <1>7, <2>1, BarDoes
<1> QED
  BY <1>1, <1>7, <1>8 DEF Completed, RolledBy, m

\* It has a point for each bar.
LEMMA CompletedCurve ==
    ASSUME NEW bars \in Seq(ReplayBar), NEW F, Completed(F, bars)
    PROVE  OfBars(F[Len(bars)].curve, bars)
<1> DEFINE m == Len(bars)
           Good(n) == /\ Len(F[n].curve) = n
                      /\ \A j \in 1 .. n : F[n].curve[j].time = Time(bars[j])
           N == {n \in Nat : n <= m => Good(n)}
<1>1. m \in Nat
  OBVIOUS
<1> HIDE DEF m
<1>2. Good(0)
  <2>1. F[0].curve = <<>> /\ 1 .. 0 = {}
    BY DEF Completed, FirstAccount
  <2> QED
    BY <2>1
<1>3. ASSUME NEW n \in N PROVE n + 1 \in N
  <2>1. n \in Nat /\ (n + 1) - 1 = n
    OBVIOUS
  <2>2. ASSUME n + 1 <= m PROVE Good(n + 1)
    <3>1. n + 1 \in 1 .. m /\ n <= m /\ n \in 0 .. m
      BY <1>1, <2>1, <2>2
    <3>2. Good(n)
      <4> HIDE DEF Good
      <4> QED
        BY <1>3, <3>1
    <3>3. F[n] \in ReplayAccount /\ Stepped(F[n], bars[n + 1], F[n + 1])
      BY <2>1, <3>1 DEF Completed, m
    <3>4. PICK point \in Point : /\ point.time = Time(bars[n + 1])
                                 /\ F[n + 1].curve = Append(F[n].curve, point)
      BY <3>3 DEF Stepped
    <3>5. PICK c, d : c = F[n].curve /\ d = F[n + 1].curve
      OBVIOUS
    <3>6. c \in Seq(Point)
      BY <3>3, <3>5 DEF ReplayAccount
    <3>7. Len(d) = n + 1 /\ d[n + 1] = point /\ \A j \in 1 .. n : d[j] = c[j]
      BY <2>1, <3>2, <3>4, <3>5, <3>6
    <3> QED
      BY <2>1, <3>2, <3>4, <3>5, <3>7
  <2> HIDE DEF Good
  <2> QED
    BY <2>1, <2>2
<1>4. N = Nat
  <2>1. N \in SUBSET Nat
    OBVIOUS
  <2>2. 0 \in N
    <3> HIDE DEF Good
    <3> QED
      BY <1>2
  <2> HIDE DEF N
  <2> QED
    BY <1>3, <2>1, <2>2, SetInduction
<1>5. Good(m)
  <2> HIDE DEF Good
  <2> QED
    BY <1>1, <1>4
<1> QED
  BY <1>5 DEF OfBars, m

\* What it holds is what was bought and not sold.
LEMMA CompletedQty ==
    ASSUME NEW bars \in Seq(ReplayBar), NEW F, Completed(F, bars),
           NEW n \in 0 .. Len(bars), NEW s \in Symbol
    PROVE  Shares(bars, "sell", s, n) <= Shares(bars, "buy", s, n)
<1> DEFINE m == Len(bars)
           B(i) == Shares(bars, "buy", s, i)
           S(i) == Shares(bars, "sell", s, i)
           Good(i) == F[i].position[s].qty = B(i) - S(i)
           N == {i \in Nat : i <= m => Good(i)}
<1>1. m \in Nat /\ \A i \in 1 .. m : bars[i] \in ReplayBar
  OBVIOUS
<1>2. /\ B(0) = 0 /\ S(0) = 0 /\ \A i \in 0 .. m : B(i) \in Nat /\ S(i) \in Nat
      /\ \A i \in 1 .. m : /\ B(i) = B(i - 1) + Traded(bars[i], "buy", s)
                           /\ S(i) = S(i - 1) + Traded(bars[i], "sell", s)
  BY SharesFacts
<1>3. \A i \in 0 .. m : F[i] \in ReplayAccount
  BY DEF Completed
<1>4. \A i \in 1 .. m : F[i].position[s].qty = F[i - 1].position[s].qty
                           + Traded(bars[i], "buy", s) - Traded(bars[i], "sell", s)
  BY DEF Completed, Stepped
<1> HIDE DEF m, B, S
<1>5. Good(0)
  <2>1. F[0].position[s] = Flat
    BY DEF Completed, FirstAccount
  <2> QED
    BY <1>2, <2>1 DEF Flat
<1>6. ASSUME NEW i \in N PROVE i + 1 \in N
  <2>1. i \in Nat /\ (i + 1) - 1 = i
    OBVIOUS
  <2>2. ASSUME i + 1 <= m PROVE Good(i + 1)
    <3>1. i + 1 \in 1 .. m /\ i <= m /\ i \in 0 .. m
      BY <1>1, <2>1, <2>2
    <3>2. Good(i)
      <4> HIDE DEF Good
      <4> QED
        BY <1>6, <3>1
    <3>3. PICK b, c : b = Traded(bars[i + 1], "buy", s) /\ c = Traded(bars[i + 1], "sell", s)
      OBVIOUS
    <3>4. b \in Nat /\ c \in Nat
      BY <1>1, <3>1, <3>3, TradedIsNat
    <3>5. B(i + 1) = B(i) + b /\ S(i + 1) = S(i) + c /\ B(i) \in Nat /\ S(i) \in Nat
      BY <1>2, <2>1, <3>1, <3>3
    <3>6. F[i + 1].position[s].qty = (B(i) - S(i)) + b - c
      BY <1>4, <2>1, <3>1, <3>2, <3>3
    <3> QED
      BY <3>4, <3>5, <3>6
  <2> HIDE DEF Good
  <2> QED
    BY <2>1, <2>2
<1>7. N = Nat
  <2>1. N \in SUBSET Nat
    OBVIOUS
  <2>2. 0 \in N
    <3> HIDE DEF Good
    <3> QED
      BY <1>5
  <2> HIDE DEF N
  <2> QED
    BY <1>6, <2>1, <2>2, SetInduction
<1>8. n \in Nat /\ n <= m /\ n \in 0 .. m
  BY <1>1 DEF m
<1>9. Good(n)
  <2> HIDE DEF Good
  <2> QED
    BY <1>7, <1>8
<1>10. F[n].position[s].qty \in Nat
  <2>1. F[n].position \in [Symbol -> LongRow]
    BY <1>3, <1>8 DEF ReplayAccount
  <2> QED
    BY <2>1 DEF LongRow
<1>11. S(n) <= B(n)
  BY <1>2, <1>8, <1>9, <1>10
<1> QED
  BY <1>11 DEF B, S

\* How long the first c shares of s were held that are sold.
Age(bars, s, n) == BarOfShare(bars, "sell", s, n) - BarOfShare(bars, "buy", s, n)
HeldFirst(bars, s, c) == SumFunction([n \in 1 .. c |-> Age(bars, s, n)])

LEMMA HeldFirstFacts ==
    ASSUME NEW bars \in Seq(ReplayBar), NEW s, NEW i \in 0 .. Len(bars),
           Shares(bars, "sell", s, i) <= Shares(bars, "buy", s, i)
    PROVE  /\ HeldFirst(bars, s, 0) = 0
           /\ \A c \in 0 .. Shares(bars, "sell", s, i) : HeldFirst(bars, s, c) \in Int
           /\ \A c \in 1 .. Shares(bars, "sell", s, i) :
                 HeldFirst(bars, s, c) = HeldFirst(bars, s, c - 1) + Age(bars, s, c)
<1> DEFINE m == Shares(bars, "sell", s, i)
           g == [n \in 1 .. m |-> Age(bars, s, n)]
<1>1. m \in Nat /\ Shares(bars, "buy", s, i) \in Nat
  BY SharesFacts
<1>2. \A n \in 1 .. m : g[n] = Age(bars, s, n) /\ g[n] \in Int
  <2> SUFFICES ASSUME NEW n \in 1 .. m PROVE g[n] = Age(bars, s, n) /\ g[n] \in Int
    OBVIOUS
  <2>1. n \in 1 .. Shares(bars, "sell", s, i) /\ n \in 1 .. Shares(bars, "buy", s, i)
    BY <1>1
  <2>2. BarOfShare(bars, "sell", s, n) \in 1 .. i /\ BarOfShare(bars, "buy", s, n) \in 1 .. i
    BY <2>1, ShareHasBar
  <2>3. Age(bars, s, n) \in Int
    BY <2>2 DEF Age
  <2> QED
    BY <2>3
<1> HIDE DEF g, m
<1>3. ASSUME NEW c \in 0 .. m
      PROVE  HeldFirst(bars, s, c) = SumOver(g, 1 .. c)
  <2> DEFINE h == [n \in 1 .. c |-> Age(bars, s, n)]
  <2>1. IsFiniteSet(1 .. c)
    BY <1>1, FS_Interval
  <2>2. \A n \in 1 .. c : h[n] \in Int /\ h[n] = g[n]
    BY <1>1, <1>2
  <2>3. HeldFirst(bars, s, c) = SumOver(h, 1 .. c)
    <3>1. HeldFirst(bars, s, c) = SumFunction(h) /\ DOMAIN h = 1 .. c
      BY DEF HeldFirst
    <3> HIDE DEF h
    <3> QED
      BY <3>1, SumFunctionIs
  <2> HIDE DEF h
  <2> QED
    BY <2>1, <2>2, <2>3, SumOverSame
<1>4. ASSUME NEW c \in 1 .. m
      PROVE  /\ SumOver(g, 1 .. c) = SumOver(g, 1 .. c - 1) + Age(bars, s, c)
             /\ SumOver(g, 1 .. c) \in Int
  <2>1. c - 1 \in Nat /\ (c - 1) + 1 = c
    BY <1>1
  <2>2. \A j \in 1 .. (c - 1) + 1 : g[j] \in Int
    BY <1>1, <1>2, <2>1
  <2>3. /\ SumOver(g, 1 .. c - 1) \in Int
        /\ SumOver(g, 1 .. (c - 1) + 1) = SumOver(g, 1 .. c - 1) + g[(c - 1) + 1]
    BY <2>1, <2>2, SumNext
  <2>4. g[c] = Age(bars, s, c) /\ g[c] \in Int
    BY <1>2
  <2> QED
    BY <2>1, <2>3, <2>4
<1>5. SumOver(g, 1 .. 0) = 0
  BY SumOfNone
<1>6. 0 \in 0 .. m
  BY <1>1
<1>7. \A c \in 0 .. m : HeldFirst(bars, s, c) \in Int
  <2> SUFFICES ASSUME NEW c \in 0 .. m PROVE HeldFirst(bars, s, c) \in Int
    OBVIOUS
  <2>1. CASE c = 0
    BY <1>3, <1>5, <1>6, <2>1
  <2>2. CASE c # 0
    <3>1. c \in 1 .. m
      BY <1>1, <2>2
    <3> QED
      BY <1>3, <1>4, <3>1
  <2> QED
    BY <2>1, <2>2
<1>8. \A c \in 1 .. m : HeldFirst(bars, s, c) = HeldFirst(bars, s, c - 1) + Age(bars, s, c)
  <2> SUFFICES ASSUME NEW c \in 1 .. m
               PROVE  HeldFirst(bars, s, c) = HeldFirst(bars, s, c - 1) + Age(bars, s, c)
    OBVIOUS
  <2>1. c \in 0 .. m /\ c - 1 \in 0 .. m
    BY <1>1
  <2> QED
    BY <1>3, <1>4, <2>1
<1> QED
  BY <1>3, <1>5, <1>6, <1>7, <1>8 DEF m

-----------------------------------------------------------------------------
(* What is counted up to a bar                                              *)

BuyBar(bars, s) == [n \in Nat |-> BarOfShare(bars, "buy", s, n)]
SoldAt(bars, n) == [s \in Symbol |-> Shares(bars, "sell", s, n)]
HeldAt(bars, n) == [s \in Symbol |-> HeldFirst(bars, s, Shares(bars, "sell", s, n))]

\* The lots are of the shares bought and not sold, and the sold ones count.
CountedTo(bars, n, count) ==
    /\ count \in Counting
    /\ \A s \in Symbol : Fits(count.lots[s], BuyBar(bars, s),
                              Shares(bars, "sell", s, n), Shares(bars, "buy", s, n))
    /\ count.held = SumFunction(HeldAt(bars, n))
    /\ count.closed = SumFunction(SoldAt(bars, n))

\* A bar after which no symbol has sold more than it bought.
Covered(bars, n) ==
    \A s \in Symbol : Shares(bars, "sell", s, n) <= Shares(bars, "buy", s, n)

LEMMA AtTypes ==
    ASSUME NEW bars \in Seq(ReplayBar), NEW n \in 0 .. Len(bars), Covered(bars, n)
    PROVE  SoldAt(bars, n) \in [Symbol -> Int] /\ HeldAt(bars, n) \in [Symbol -> Int]
<1> SUFFICES ASSUME NEW s \in Symbol
             PROVE  /\ Shares(bars, "sell", s, n) \in Int
                    /\ HeldFirst(bars, s, Shares(bars, "sell", s, n)) \in Int
  BY DEF SoldAt, HeldAt
<1>1. Shares(bars, "sell", s, n) \in Nat
  BY SharesFacts
<1>2. Shares(bars, "sell", s, n) <= Shares(bars, "buy", s, n)
  BY DEF Covered
<1>3. PICK c : c = Shares(bars, "sell", s, n)
  OBVIOUS
<1>4. c \in 0 .. Shares(bars, "sell", s, n)
  BY <1>1, <1>3
<1>5. HeldFirst(bars, s, c) \in Int
  BY <1>2, <1>4, HeldFirstFacts
<1> QED
  BY <1>1, <1>3, <1>5

\* A bar without a fill changes none of it.
LEMMA QuietBar ==
    ASSUME NEW bars \in Seq(ReplayBar), NEW k \in 1 .. Len(bars), bars[k].fill = <<>>,
           NEW count, CountedTo(bars, k - 1, count)
    PROVE  CountedTo(bars, k, count)
<1>1. \A s, side : Traded(bars[k], side, s) = 0
  BY DEF Traded
<1>2. k - 1 \in 0 .. Len(bars)
  OBVIOUS
<1>3. ASSUME NEW s, NEW side PROVE Shares(bars, side, s, k) = Shares(bars, side, s, k - 1)
  <2>1. Shares(bars, side, s, k) = Shares(bars, side, s, k - 1) + Traded(bars[k], side, s)
        /\ Shares(bars, side, s, k - 1) \in Nat
    BY <1>2, SharesFacts
  <2> QED
    BY <1>1, <2>1
<1>4. SoldAt(bars, k) = SoldAt(bars, k - 1) /\ HeldAt(bars, k) = HeldAt(bars, k - 1)
  BY <1>3 DEF SoldAt, HeldAt
<1> QED
  BY <1>3, <1>4 DEF CountedTo

\* The shares of the symbols that a bar does not trade, and of the side that
\* it does not, and those that it does.
LEMMA FillShares ==
    ASSUME NEW bars \in Seq(ReplayBar), NEW k \in 1 .. Len(bars), bars[k].fill # <<>>,
           NEW fill, fill = bars[k].fill[1], NEW side, NEW s
    PROVE  Shares(bars, side, s, k)
              = Shares(bars, side, s, k - 1)
                + IF fill.side = side /\ fill.symbol = s THEN fill.qty ELSE 0
<1>1. Shares(bars, side, s, k) = Shares(bars, side, s, k - 1) + Traded(bars[k], side, s)
  BY SharesFacts
<1>2. Traded(bars[k], side, s) = IF fill.side = side /\ fill.symbol = s THEN fill.qty ELSE 0
  BY DEF Traded
<1> QED
  BY <1>1, <1>2

LEMMA OtherShares ==
    ASSUME NEW bars \in Seq(ReplayBar), NEW k \in 1 .. Len(bars), bars[k].fill # <<>>,
           NEW fill, fill = bars[k].fill[1], NEW side, NEW s,
           fill.side # side \/ fill.symbol # s
    PROVE  Shares(bars, side, s, k) = Shares(bars, side, s, k - 1)
<1>1. k - 1 \in 0 .. Len(bars)
  OBVIOUS
<1>2. Shares(bars, side, s, k - 1) \in Nat
  BY <1>1, SharesFacts
<1>3. Shares(bars, side, s, k) = Shares(bars, side, s, k - 1) + 0
  BY FillShares
<1> QED
  BY <1>2, <1>3

LEMMA BuyCounts ==
    ASSUME NEW bars \in Seq(ReplayBar), NEW k \in 1 .. Len(bars), bars[k].fill # <<>>,
           NEW fill \in FilledOrder, fill = bars[k].fill[1], fill.side = "buy",
           NEW curve \in Seq(Point), BarIndex(curve, fill.time) = k,
           NEW count, CountedTo(bars, k - 1, count)
    PROVE  CountedTo(bars, k, CountFill(curve, count, fill))
<1>1. PICK s, q : s = fill.symbol /\ q = fill.qty
  OBVIOUS
<1>2. s \in Symbol /\ q \in Nat \ {0} /\ k - 1 \in 0 .. Len(bars) /\ k \in 0 .. Len(bars)
  BY <1>1 DEF FilledOrder
<1>3. PICK lot : lot = [qty |-> q, at |-> k]
  OBVIOUS
<1>4. lot \in Lot /\ lot.qty = q /\ lot.at = k
  BY <1>2, <1>3 DEF Lot
<1>5. /\ count \in Counting /\ count.lots \in [Symbol -> Seq(Lot)]
  BY DEF CountedTo, Counting
<1>6. PICK next : next = CountFill(curve, count, fill)
  OBVIOUS
<1>7. next \in Counting
  BY <1>5, <1>6, CountType
<1>8. /\ next.lots = [count.lots EXCEPT ![s] = Append(count.lots[s], lot)]
      /\ next.held = count.held /\ next.closed = count.closed
  <2>1. next = [count EXCEPT !.lots[s] = Append(@, lot)]
    <3>1. k # 0
      OBVIOUS
    <3> QED
      BY <1>1, <1>3, <1>6, <3>1 DEF CountFill
  <2> QED
    BY <1>5, <2>1 DEF Counting
<1>9. \A t : Shares(bars, "sell", t, k) = Shares(bars, "sell", t, k - 1)
  <2> SUFFICES ASSUME NEW t PROVE Shares(bars, "sell", t, k) = Shares(bars, "sell", t, k - 1)
    OBVIOUS
  <2>1. fill.side # "sell"
    OBVIOUS
  <2> QED
    BY <2>1, OtherShares
<1>10. SoldAt(bars, k) = SoldAt(bars, k - 1) /\ HeldAt(bars, k) = HeldAt(bars, k - 1)
  BY <1>9 DEF SoldAt, HeldAt
<1>11. ASSUME NEW t \in Symbol
       PROVE  Fits(next.lots[t], BuyBar(bars, t), Shares(bars, "sell", t, k), Shares(bars, "buy", t, k))
  <2>1. Fits(count.lots[t], BuyBar(bars, t), Shares(bars, "sell", t, k - 1), Shares(bars, "buy", t, k - 1))
    BY DEF CountedTo
  <2>2. CASE t # s
    <3>1. next.lots[t] = count.lots[t]
      BY <1>5, <1>8, <2>2
    <3>2. Shares(bars, "buy", t, k) = Shares(bars, "buy", t, k - 1)
      BY <1>1, <2>2, OtherShares
    <3> QED
      BY <1>9, <2>1, <3>1, <3>2
  <2>3. CASE t = s
    <3>1. PICK from, to : from = Shares(bars, "sell", s, k - 1) /\ to = Shares(bars, "buy", s, k - 1)
      OBVIOUS
    <3>2. from \in Nat /\ to \in Nat
      BY <1>2, <3>1, SharesFacts
    <3>3. Shares(bars, "buy", s, k) = to + q
      BY <1>1, <3>1, FillShares
    <3>4. \A n \in to + 1 .. to + lot.qty : BuyBar(bars, s)[n] = lot.at
      <4> SUFFICES ASSUME NEW n \in to + 1 .. to + lot.qty PROVE BuyBar(bars, s)[n] = lot.at
        OBVIOUS
      <4>1. n \in Nat /\ to < n /\ n <= to + q
        BY <1>2, <1>4, <3>2
      <4>2. Shares(bars, "buy", s, k - 1) < n /\ n <= Shares(bars, "buy", s, k) /\ n \in Int
        BY <3>1, <3>3, <4>1
      <4>3. BarOfShare(bars, "buy", s, n) = k
        BY <4>2, ShareOfBar
      <4> QED
        BY <1>4, <4>1, <4>3 DEF BuyBar
    <3>5. PICK lots : lots = count.lots[s]
      OBVIOUS
    <3>6. lots \in Seq(Lot) /\ Fits(lots, BuyBar(bars, s), from, to)
      BY <1>2, <1>5, <2>1, <2>3, <3>1, <3>5
    <3>7. Fits(Append(lots, lot), BuyBar(bars, s), from, to + lot.qty)
      BY <1>4, <3>2, <3>4, <3>6, FitsAppend
    <3>8. next.lots[s] = Append(lots, lot)
      BY <1>2, <1>5, <1>8, <3>5
    <3> QED
      BY <1>4, <1>9, <2>3, <3>1, <3>3, <3>7, <3>8
  <2> QED
    BY <2>2, <2>3
<1>12. next.held = SumFunction(HeldAt(bars, k)) /\ next.closed = SumFunction(SoldAt(bars, k))
  BY <1>8, <1>10 DEF CountedTo
<1>13. CountedTo(bars, k, next)
  BY <1>7, <1>11, <1>12 DEF CountedTo
<1> QED
  BY <1>6, <1>13

LEMMA SaleCounts ==
    ASSUME NEW bars \in Seq(ReplayBar), NEW k \in 1 .. Len(bars), bars[k].fill # <<>>,
           NEW fill \in FilledOrder, fill = bars[k].fill[1], fill.side = "sell",
           NEW curve \in Seq(Point), BarIndex(curve, fill.time) = k,
           Covered(bars, k - 1), Covered(bars, k),
           NEW count, CountedTo(bars, k - 1, count)
    PROVE  CountedTo(bars, k, CountFill(curve, count, fill))
<1>1. PICK s, q : s = fill.symbol /\ q = fill.qty
  OBVIOUS
<1>2. s \in Symbol /\ q \in Nat \ {0} /\ k - 1 \in 0 .. Len(bars) /\ k \in 0 .. Len(bars)
      /\ k \in Nat
  BY <1>1 DEF FilledOrder
<1>3. /\ count \in Counting /\ count.lots \in [Symbol -> Seq(Lot)] /\ count.closed \in Int
      /\ count.held \in Nat
  BY DEF CountedTo, Counting
<1>4. PICK next : next = CountFill(curve, count, fill)
  OBVIOUS
<1>5. next \in Counting
  BY <1>3, <1>4, CountType
<1>6. PICK lots : lots = count.lots[s]
  OBVIOUS
<1> DEFINE sold == SoldFromLots(lots, q, k)
<1>7. /\ next.lots = [count.lots EXCEPT ![s] = sold.lots]
      /\ next.held = count.held + sold.held /\ next.closed = count.closed + q - sold.left
  <2>1. next = [lots |-> [count.lots EXCEPT ![s] = sold.lots],
                held |-> count.held + sold.held, closed |-> count.closed + q - sold.left]
    <3>1. k # 0 /\ fill.side # "buy"
      OBVIOUS
    <3> QED
      BY <1>1, <1>4, <1>6, <3>1 DEF CountFill
  <2> QED
    BY <2>1
<1>8. \A t : Shares(bars, "buy", t, k) = Shares(bars, "buy", t, k - 1)
  <2> SUFFICES ASSUME NEW t PROVE Shares(bars, "buy", t, k) = Shares(bars, "buy", t, k - 1)
    OBVIOUS
  <2>1. fill.side # "buy"
    OBVIOUS
  <2> QED
    BY <2>1, OtherShares
<1>9. \A t : t # s => Shares(bars, "sell", t, k) = Shares(bars, "sell", t, k - 1)
  <2> SUFFICES ASSUME NEW t, t # s
               PROVE  Shares(bars, "sell", t, k) = Shares(bars, "sell", t, k - 1)
    OBVIOUS
  <2> QED
    BY <1>1, OtherShares
<1>10. PICK from, to : from = Shares(bars, "sell", s, k - 1) /\ to = Shares(bars, "buy", s, k - 1)
  OBVIOUS
<1>11. from \in Nat /\ to \in Nat
  BY <1>2, <1>10, SharesFacts
<1>12. Shares(bars, "sell", s, k) = from + q
  BY <1>1, <1>10, FillShares
<1>13. from + q <= to
  BY <1>2, <1>8, <1>10, <1>12 DEF Covered
<1> DEFINE H == [c \in Nat |-> HeldFirst(bars, s, c)]
           f == BuyBar(bars, s)
<1>14. HeldUntil(H, f, from, q, k)
  <2>1. Shares(bars, "sell", s, k) <= Shares(bars, "buy", s, k)
    BY <1>2 DEF Covered
  <2>2. /\ \A c \in 0 .. from + q : HeldFirst(bars, s, c) \in Int
        /\ \A c \in 1 .. from + q :
              HeldFirst(bars, s, c) = HeldFirst(bars, s, c - 1) + Age(bars, s, c)
    BY <1>2, <1>12, <2>1, HeldFirstFacts
  <2>3. \A n \in from .. from + q : H[n] \in Int
    BY <1>2, <1>11, <2>2
  <2>4. ASSUME NEW n \in from + 1 .. from + q PROVE H[n] = H[n - 1] + (k - f[n])
    <3>1. n \in Nat /\ n - 1 \in Nat /\ n \in 1 .. from + q /\ from < n /\ n <= from + q /\ n \in Int
      BY <1>2, <1>11
    <3>2. BarOfShare(bars, "sell", s, n) = k
      <4>1. Shares(bars, "sell", s, k - 1) < n /\ n <= Shares(bars, "sell", s, k)
        BY <1>10, <1>12, <3>1
      <4> QED
        BY <3>1, <4>1, ShareOfBar
    <3>3. Age(bars, s, n) = k - f[n]
      BY <3>1, <3>2 DEF Age, BuyBar
    <3>4. H[n] = HeldFirst(bars, s, n) /\ H[n - 1] = HeldFirst(bars, s, n - 1)
      BY <3>1
    <3> HIDE DEF H, f
    <3> QED
      BY <2>2, <3>1, <3>3, <3>4
  <2> HIDE DEF H, f
  <2> QED
    BY <2>3, <2>4 DEF HeldUntil
<1>15. BoughtUntil(f, from, to, k)
  <2> SUFFICES ASSUME NEW n \in from + 1 .. to PROVE f[n] <= k
    BY DEF BoughtUntil
  <2>1. n \in Nat /\ n \in 1 .. Shares(bars, "buy", s, k)
    BY <1>8, <1>10, <1>11
  <2>2. BarOfShare(bars, "buy", s, n) \in 1 .. k
    BY <1>2, <2>1, ShareHasBar
  <2> QED
    BY <1>2, <2>1, <2>2 DEF BuyBar
<1>16. lots \in Seq(Lot) /\ Fits(lots, f, from, to)
  BY <1>2, <1>3, <1>6, <1>10 DEF CountedTo
<1>17. /\ sold \in Matching /\ sold.left = 0 /\ sold.held = H[from + q] - H[from]
       /\ Fits(sold.lots, f, from + q, to)
  <2> HIDE DEF H, f
  <2>1. q \in Nat
    BY <1>2
  <2>2. OldestSold(sold, f, H, from, q, to)
    BY <1>2, <1>11, <1>13, <1>14, <1>15, <1>16, <2>1, SoldFacts
  <2> QED
    BY <2>2 DEF OldestSold
<1>18. ASSUME NEW t \in Symbol
       PROVE  Fits(next.lots[t], BuyBar(bars, t), Shares(bars, "sell", t, k), Shares(bars, "buy", t, k))
  <2>1. CASE t = s
    <3>1. next.lots[s] = sold.lots
      BY <1>2, <1>3, <1>7
    <3> QED
      BY <1>8, <1>10, <1>12, <1>17, <2>1, <3>1
  <2>2. CASE t # s
    <3>1. next.lots[t] = count.lots[t]
      BY <1>3, <1>7, <2>2
    <3>2. Fits(count.lots[t], BuyBar(bars, t), Shares(bars, "sell", t, k - 1), Shares(bars, "buy", t, k - 1))
      BY DEF CountedTo
    <3> QED
      BY <1>8, <1>9, <2>2, <3>1, <3>2
  <2> QED
    BY <2>1, <2>2
<1>19. PICK g, h, a, b : /\ g = HeldAt(bars, k - 1) /\ h = HeldAt(bars, k)
                         /\ a = SoldAt(bars, k - 1) /\ b = SoldAt(bars, k)
  OBVIOUS
<1>20. /\ g \in [Symbol -> Int] /\ h \in [Symbol -> Int]
       /\ a \in [Symbol -> Int] /\ b \in [Symbol -> Int]
  BY <1>2, <1>19, AtTypes
<1>21. /\ \A t \in Symbol : t # s => h[t] = g[t] /\ b[t] = a[t]
       /\ g[s] = H[from] /\ h[s] = H[from + q] /\ a[s] = from /\ b[s] = from + q
  <2>1. \A t \in Symbol : t # s => h[t] = g[t] /\ b[t] = a[t]
    BY <1>9, <1>19 DEF HeldAt, SoldAt
  <2>2. H[from] = HeldFirst(bars, s, from) /\ H[from + q] = HeldFirst(bars, s, from + q)
    BY <1>2, <1>11
  <2> HIDE DEF H
  <2>3. g[s] = H[from] /\ h[s] = H[from + q] /\ a[s] = from /\ b[s] = from + q
    BY <1>2, <1>10, <1>12, <1>19, <2>2 DEF HeldAt, SoldAt
  <2> QED
    BY <2>1, <2>3
<1> HIDE DEF H, f, sold
<1>22. next.held = SumFunction(h)
  <2>1. SumFunction(g) \in Int /\ SumFunction(h) = SumFunction(g) + (h[s] - g[s])
    <3>1. ButFor(g, h, Symbol, s)
      BY <1>2, <1>20, <1>21 DEF ButFor
    <3> QED
      BY <3>1, ReplayAssumption, SumMoves
  <2>2. count.held = SumFunction(g)
    BY <1>19 DEF CountedTo
  <2> QED
    BY <1>7, <1>17, <1>21, <2>1, <2>2
<1>23. next.closed = SumFunction(b)
  <2>1. SumFunction(a) \in Int /\ SumFunction(b) = SumFunction(a) + (b[s] - a[s])
    <3>1. ButFor(a, b, Symbol, s)
      BY <1>2, <1>20, <1>21 DEF ButFor
    <3> QED
      BY <3>1, ReplayAssumption, SumMoves
  <2>2. count.closed = SumFunction(a)
    BY <1>19 DEF CountedTo
  <2>3. b[s] - a[s] = q
    BY <1>2, <1>11, <1>21
  <2>4. next.closed = count.closed + q - 0
    BY <1>7, <1>17
  <2> QED
    BY <1>2, <1>3, <2>1, <2>2, <2>3, <2>4
<1>24. CountedTo(bars, k, next)
  BY <1>5, <1>18, <1>19, <1>22, <1>23 DEF CountedTo
<1> QED
  BY <1>4, <1>24

\* Every fill of a completed replay is counted as its share of the bars.
LEMMA CompletedCounts ==
    ASSUME NEW bars \in Seq(ReplayBar), Prompt(bars), NEW F, Completed(F, bars),
           NEW curve, curve = F[Len(bars)].curve
    PROVE  CountedTo(bars, Len(bars), FillsCounted(curve, F[Len(bars)].fills))
<1> DEFINE m == Len(bars)
           Good(n) == CountedTo(bars, n, FillsCounted(curve, F[n].fills))
           N == {n \in Nat : n <= m => Good(n)}
<1>1. m \in Nat /\ m \in 0 .. m /\ \A n \in 1 .. m : bars[n] \in ReplayBar
  OBVIOUS
<1>2. curve \in Seq(Point) /\ OfBars(curve, bars)
  <2>1. F[m] \in ReplayAccount
    BY <1>1 DEF Completed
  <2> QED
    BY <2>1, CompletedCurve DEF ReplayAccount
<1>3. \A n \in 0 .. m : Covered(bars, n)
  BY CompletedQty DEF Covered
<1>4. /\ \A n \in 0 .. m : F[n] \in ReplayAccount
      /\ \A n \in 1 .. m : Stepped(F[n - 1], bars[n], F[n])
  BY DEF Completed
<1>5. Good(0)
  <2>1. F[0].fills = <<>>
    BY DEF Completed, FirstAccount
  <2>2. FillsCounted(curve, F[0].fills) = NothingHeld
    BY <1>2, <2>1, NoFillsCounted
  <2>3. \A s, side : Shares(bars, side, s, 0) = 0
    BY SharesFacts
  <2>4. \A s \in Symbol : Fits(NothingHeld.lots[s], BuyBar(bars, s), 0, 0)
    BY FitsNothing DEF NothingHeld
  <2>5. 0 \in 0 .. m
    BY <1>1
  <2>6. SumFunction(HeldAt(bars, 0)) = 0 /\ SumFunction(SoldAt(bars, 0)) = 0
    <3>1. PICK g, h : g = HeldAt(bars, 0) /\ h = SoldAt(bars, 0)
      OBVIOUS
    <3>2. g \in [Symbol -> Int] /\ h \in [Symbol -> Int]
      BY <1>3, <2>5, <3>1, AtTypes
    <3>3. \A s \in Symbol : HeldFirst(bars, s, 0) = 0
      BY <1>3, <2>5, HeldFirstFacts DEF Covered
    <3>4. \A s \in Symbol : g[s] = 0 /\ h[s] = 0
      BY <2>3, <3>1, <3>3 DEF HeldAt, SoldAt
    <3> QED
      BY <3>1, <3>2, <3>4, SumOfZeros, ReplayAssumption
  <2> QED
    BY <2>2, <2>3, <2>4, <2>6, NothingHeldType DEF CountedTo, NothingHeld
<1>6. ASSUME NEW n \in N PROVE n + 1 \in N
  <2>1. n \in Nat /\ (n + 1) - 1 = n
    OBVIOUS
  <2>2. ASSUME n + 1 <= m PROVE Good(n + 1)
    <3>1. n + 1 \in 1 .. m /\ n <= m /\ n \in 0 .. m /\ n + 1 \in 0 .. m
      BY <1>1, <2>1, <2>2
    <3>2. PICK k, fills, count : /\ k = n + 1 /\ fills = F[n].fills
                                 /\ count = FillsCounted(curve, fills)
      OBVIOUS
    <3>3. k \in 1 .. m /\ k - 1 = n /\ fills \in Seq(FilledOrder) /\ bars[k] \in ReplayBar
      BY <1>1, <1>4, <2>1, <3>1, <3>2 DEF ReplayAccount
    <3>4. CountedTo(bars, k - 1, count)
      <4> HIDE DEF Good
      <4>1. Good(n)
        BY <1>6, <3>1
      <4> QED
        BY <3>2, <3>3, <4>1 DEF Good
    <3>5. Stepped(F[n], bars[k], F[k])
      BY <1>4, <3>3
    <3>6. CASE bars[k].fill = <<>>
      <4>1. F[k].fills = fills
        BY <3>2, <3>5, <3>6 DEF Stepped
      <4>2. CountedTo(bars, k, count)
        BY <3>3, <3>4, <3>6, QuietBar
      <4> QED
        BY <3>2, <4>1, <4>2
    <3>7. CASE bars[k].fill # <<>>
      <4>1. PICK fill : fill = bars[k].fill[1]
        OBVIOUS
      <4>2. fill \in FilledOrder /\ fill.side \in {"buy", "sell"}
        <5>1. fill \in FilledOrder
          BY <3>3, <3>7, <4>1, FillOfBar
        <5> QED
          BY <5>1 DEF FilledOrder
      <4>3. F[k].fills = Append(fills, fill)
        BY <3>2, <3>5, <3>7, <4>1 DEF Stepped
      <4>4. FillsCounted(curve, F[k].fills) = CountFill(curve, count, fill)
        BY <1>2, <3>2, <3>3, <4>2, <4>3, FillsCountedAppend
      <4>5. BarIndex(curve, fill.time) = k
        BY <1>2, <3>3, <3>7, <4>1, BarIndexIs
      <4>6. Covered(bars, k - 1) /\ Covered(bars, k)
        BY <1>3, <3>1, <3>2, <3>3
      <4>7. CASE fill.side = "buy"
        <5>1. CountedTo(bars, k, CountFill(curve, count, fill))
          BY <1>2, <3>3, <3>4, <3>7, <4>1, <4>2, <4>5, <4>7, BuyCounts
        <5> QED
          BY <3>2, <4>4, <5>1
      <4>8. CASE fill.side = "sell"
        <5>1. CountedTo(bars, k, CountFill(curve, count, fill))
          BY <1>2, <3>3, <3>4, <3>7, <4>1, <4>2, <4>5, <4>6, <4>8, SaleCounts
        <5> QED
          BY <3>2, <4>4, <5>1
      <4> QED
        BY <4>2, <4>7, <4>8
    <3> QED
      BY <3>6, <3>7
  <2> HIDE DEF Good
  <2> QED
    BY <2>1, <2>2
<1>7. N = Nat
  <2>1. N \in SUBSET Nat
    OBVIOUS
  <2>2. 0 \in N
    <3> HIDE DEF Good
    <3> QED
      BY <1>5
  <2> HIDE DEF N
  <2> QED
    BY <1>6, <2>1, <2>2, SetInduction
<1>8. Good(m)
  <2> HIDE DEF Good
  <2> QED
    BY <1>1, <1>7
<1> QED
  BY <1>8

-----------------------------------------------------------------------------
(* Theorems                                                                 *)

\* Every variable keeps its type; in particular the cash of a replay is never
\* negative, since the ledger refuses what it cannot pay.
THEOREM TypeCorrect == Spec => []TypeOK
<1>1. Init => TypeOK /\ GridInv
  BY GridInit
<1>2. TypeOK /\ GridInv /\ [Next]_vars => TypeOK' /\ GridInv'
  BY GridStep
<1> QED
  BY <1>1, <1>2, PTL DEF Spec

\* What T+1 and the exits rest on: positions are in whole steps, and what may
\* be sold today follows what was held when the day began.
THEOREM ReplayInvariant ==
    ASSUME IngestedAtOnce
    PROVE  Spec => [](TypeOK /\ GridInv /\ DayInv)
<1>1. Init => TypeOK /\ GridInv /\ DayInv
  BY GridInit, DayInit
<1>2. TypeOK /\ GridInv /\ DayInv /\ [Next]_vars => TypeOK' /\ GridInv' /\ DayInv'
  BY GridStep, DayStep
<1> QED
  BY <1>1, <1>2, PTL DEF Spec

\* T+1 in a replay, whatever the strategy, the rules of the symbol and the
\* bars, as long as bars are ingested on the day they close: what is sold of a
\* symbol on a day was held when the day began.
THEOREM SameDayKeptHolds ==
    ASSUME IngestedAtOnce
    PROVE  Spec => []SameDayKept
<1>1. TypeOK /\ GridInv /\ DayInv => SameDayKept
  <2> SUFFICES ASSUME TypeOK, GridInv, DayInv, NEW s \in Symbol
               PROVE  today[s].sold <= today[s].held
    BY DEF SameDayKept
  <2>1. position[s].sellable + today[s].sold <= today[s].held
    BY DEF DayInv, KeptOn
  <2>2. position[s].sellable \in Nat /\ today[s].sold \in Nat /\ today[s].held \in Nat
    BY DEF TypeOK, Holding
  <2> QED
    BY <2>1, <2>2
<1> QED
  BY <1>1, ReplayInvariant, PTL

\* The baseline strategy's trailing stop, for every setting of it and every
\* sequence of bars: while it believes in a position, the last close is above
\* the stop under the highest close since it entered.
THEOREM StopHonouredHolds == Spec => []StopHonoured
<1>1. Init => StopInv
  BY StopInit
<1>2. TypeOK /\ StopInv /\ [Next]_vars => StopInv'
  BY StopStep
<1>3. StopInv => StopHonoured
  BY DEF StopInv, StopHonoured
<1> QED
  BY <1>1, <1>2, <1>3, TypeCorrect, PTL DEF Spec

\* An exit leaves nothing but what T+1, the venue or missing market state kept
\* it from selling, for every strategy setting and set of bars, when the
\* smallest order is one lot.
THEOREM ExitsReachHolds ==
    ASSUME IngestedAtOnce, MinQty = LotSize
    PROVE  Spec => []ExitsReach
<1>1. Init => ExitsReach
  BY DEF Init, ExitsReach, Flat
<1>2. TypeOK /\ GridInv /\ DayInv /\ ExitsReach /\ [Next]_vars => ExitsReach'
  BY ExitsStep
<1> QED
  BY <1>1, <1>2, ReplayInvariant, PTL DEF Spec

\* A fill of the replay never beats the close of its bar and never leaves its
\* price limits, for every slippage, model of it, limit and price.
THEOREM FillsAreFair ==
    ASSUME NEW bar \in Bar, NEW side \in {"buy", "sell"}, VenueTakes(bar)
    PROVE  FairFill(side, bar)
  BY SlippedFacts

LEMMA OpeningHolds == Spec => []OpeningInv
<1>1. Init => OpeningInv
  BY DEF Init, OpeningInv
<1>2. TypeOK /\ OpeningInv /\ [Next]_vars => OpeningInv'
  <2> SUFFICES ASSUME TypeOK, OpeningInv, [Next]_vars PROVE OpeningInv'
    OBVIOUS
  <2>1. ASSUME NEW bar \in Bar, Arrives(bar) PROVE OpeningInv'
    <3>1. Time(bar) # 0
      <4>1. Time(bar) \div 1440 = bar.day /\ bar.day \in 1 .. MaxDay
        BY BarFacts
      <4>2. 0 \div 1440 = 0 /\ bar.day # 0
        BY <4>1, BacktestAssumption
      <4> QED
        BY <4>1, <4>2
    <3> QED
      BY <2>1, <3>1 DEF Arrives, OpeningInv
  <2>2. ASSUME NEW bar \in Bar, LedgerRaises(bar) \/ OutOfOrder(bar) PROVE OpeningInv'
    BY <2>2 DEF LedgerRaises, OutOfOrder, OpeningInv
  <2>3. CASE UNCHANGED vars
    BY <2>3 DEF vars, OpeningInv
  <2> QED
    BY <2>1, <2>2, <2>3 DEF Next, Step, Silent, Asked, Late, BarSkipped, BarNotTraded, BarTraded
<1> QED
  BY <1>1, <1>2, TypeCorrect, PTL DEF Spec

\* The drawdown that a replay reports is the worst fall of its equity, for
\* every number of bars, symbols and fills, whatever the prices: the peak from
\* which each point falls is the highest equity so far or the initial cash.
THEOREM DrawdownIsWorstHolds == Spec => []DrawdownIsWorst
<1>1. OpeningInv => DrawdownIsWorst
  <2> SUFFICES ASSUME OpeningInv, NEW bars \in Reported
               PROVE  FallsWithin(Account(bars).curve, Summary(Account(bars)).drawdown)
    BY DEF DrawdownIsWorst, FallsWithin
  <2>1. PICK account : account = Rolled(FirstAccount, bars)
    OBVIOUS
  <2>2. /\ bars \in Seq(ReplayBar) \ {<<>>} /\ Account(bars) = account /\ ~account.raised
    BY <2>1, ReportedFacts
  <2>3. FirstAccount \in PeakedAccount
    <3>1. FirstAccount.peak = InitialCash /\ FirstAccount.curve = <<>>
      BY DEF FirstAccount
    <3>2. Peaks(InitialCash, <<>>)
      BY BacktestAssumption DEF Peaks, PeakOf
    <3> QED
      BY <3>1, <3>2, FirstAccountType DEF PeakedAccount
  <2>4. account \in PeakedAccount
    <3>1. PeakedAccount \in SUBSET ReplayAccount
      BY DEF PeakedAccount
    <3> QED
      BY <2>1, <2>2, <2>3, <3>1, PeaksAreKept, RolledKeeps
  <2>5. PICK w : w = Worst(account.curve)
    OBVIOUS
  <2>6. FallsWithin(account.curve, w)
    BY <2>4, <2>5, PeaksTellTheWorst DEF PeakedAccount, ReplayAccount
  <2>7. Summary(account).drawdown = w
    BY <2>5 DEF Summary
  <2> QED
    BY <2>2, <2>6, <2>7
<1> QED
  BY <1>1, OpeningHolds, PTL

\* The figures of a replay add up, for every number of bars, symbols and fills:
\* at each point the change of equity is the realized and the unrealized
\* profit, and the result is that of the trades, less the fees of purchases.
THEOREM FiguresAddUpHolds == Spec => []FiguresAddUp
<1>1. OpeningInv => FiguresAddUp
  <2> SUFFICES ASSUME OpeningInv, NEW bars \in Reported PROVE AddsUp(Account(bars))
    BY DEF FiguresAddUp, AddsUp
  <2>1. PICK account : account = Rolled(FirstAccount, bars)
    OBVIOUS
  <2>2. /\ bars \in Seq(ReplayBar) \ {<<>>} /\ Account(bars) = account /\ ~account.raised
    BY <2>1, ReportedFacts
  <2>3. ExplainedAccount \in SUBSET ReplayAccount
    BY DEF ExplainedAccount
  <2>4. account \in ExplainedAccount
        /\ \E b \in ExplainedAccount, bar \in ReplayBar : account = WithPoint(b, bar)
    BY <2>1, <2>2, <2>3, FirstExplained, ExplainedIsKept, RolledKeeps
  <2>5. AddsUp(account)
    BY <2>3, <2>4, ExplainedAddsUp
  <2> QED
    BY <2>2, <2>5
<1> QED
  BY <1>1, OpeningHolds, PTL

\* The holding that a replay reports is that of the single shares, for every
\* number of bars, symbols and fills: the lots that the summary keeps are the
\* shares that were bought and not sold, in their order.  The bars have
\* different times, and each fill is made before the next bar closes.
THEOREM HoldingIsFifoHolds ==
    ASSUME PromptReplay
    PROVE  Spec => []HoldingIsFifo
<1>1. OpeningInv => HoldingIsFifo
  <2> SUFFICES ASSUME OpeningInv, NEW bars \in Reported
               PROVE  Summary(Account(bars)).holding
                         = <<SumFunction(HeldAt(bars, Len(bars))),
                             SumFunction(SoldAt(bars, Len(bars)))>>
    BY DEF HoldingIsFifo, HeldAt, SoldAt, HeldFirst, Age
  <2>1. PICK account : account = Rolled(FirstAccount, bars)
    OBVIOUS
  <2>2. bars \in Seq(ReplayBar) /\ Account(bars) = account /\ ~account.raised
    BY <2>1, ReportedFacts
  <2>3. PICK F : Completed(F, bars)
    BY <2>1, <2>2, CompletedRun
  <2>4. account = F[Len(bars)]
    BY <2>1, <2>3 DEF Completed
  <2>5. Prompt(bars)
    BY DEF PromptReplay, Reported
  <2>6. PICK count : count = FillsCounted(account.curve, account.fills)
    OBVIOUS
  <2>7. CountedTo(bars, Len(bars), count)
    BY <2>2, <2>3, <2>4, <2>5, <2>6, CompletedCounts
  <2>8. Summary(account).holding = <<count.held, count.closed>>
    BY <2>6 DEF Summary, Holdings, FillsCounted
  <2> QED
    BY <2>2, <2>7, <2>8 DEF CountedTo
<1> QED
  BY <1>1, OpeningHolds, PTL

=============================================================================
