------------------------------ MODULE Research ------------------------------
(***************************************************************************)
(* How the research reports cut their bars, and which result they call the *)
(* best: apps/research/experiments.py and apps/research/analysis.py.  The  *)
(* bars of a sample are 1 .. n, in order of time; a slice of them is       *)
(* replayed by a BacktestService of its own, from the initial cash.        *)
(***************************************************************************)
EXTENDS Integers, Sequences

DefaultWindowCount == 3     \* DEFAULT_WALK_FORWARD_WINDOW_COUNT
MinWindowBars == 6          \* MIN_RESEARCH_WALK_FORWARD_WINDOW_BARS
DefaultSegmentCount == 3    \* DEFAULT_RESEARCH_SEGMENT_COUNT
MinSegmentedBars == 12      \* MIN_BARS_FOR_SEGMENTED_EVALUATION

Least(a, b) == IF a < b THEN a ELSE b
Most(a, b) == IF a > b THEN a ELSE b

Slice(first, last) == [first |-> first, last |-> last]
Bars(slice) == slice.first .. slice.last

-----------------------------------------------------------------------------
(* Walk-forward evaluation *)

\* resolve_walk_forward_window_config
WindowBars(n) ==
    IF n >= MinWindowBars THEN Least(Most(MinWindowBars, n \div DefaultWindowCount), n)
    ELSE Most(2, n)
StepBars(n) == Most(1, WindowBars(n) \div 2)

\* run_walk_forward_evaluation raises no ValueError.
Evaluated(n, window, step) == window >= 2 /\ step >= 1 /\ n >= window

\* _rolling_windows: from the first bar on, while a whole window is left.
Windows(n, window, step) ==
    [k \in 1 .. ((n - window) \div step) + 1 |->
        Slice((k - 1) * step + 1, (k - 1) * step + window)]

-----------------------------------------------------------------------------
(* Segments of an evaluation sample *)

\* supports_time_segmentation
Segmented(purpose, n) == purpose = "evaluation" /\ n >= MinSegmentedBars

\* _split_bars: the first n % count segments are one bar longer.
Split(n, count) ==
    LET size == n \div count
        longer == n % count
        End(i) == i * size + Least(i, longer)
    IN  [i \in 1 .. count |-> Slice(End(i - 1) + 1, End(i))]

\* build_segment_analyses
Segments(purpose, n) ==
    IF Segmented(purpose, n) THEN Split(n, Least(DefaultSegmentCount, n)) ELSE <<>>

-----------------------------------------------------------------------------
(* Ranking *)

\* The key of a result: sharpe_ratio, net_pnl, total_return_pct.  A ratio that
\* cannot be computed counts as this one.
NoSharpe == -999999
RankedAbove(a, b) ==
    \/ a.sharpe > b.sharpe
    \/ a.sharpe = b.sharpe /\ a.net > b.net
    \/ a.sharpe = b.sharpe /\ a.net = b.net /\ a.return > b.return

\* best_variant_label, best_window_label: the sort is stable.
Best(results) ==
    CHOOSE i \in DOMAIN results :
        \A j \in DOMAIN results :
            /\ ~RankedAbove(results[j], results[i])
            /\ j < i => RankedAbove(results[i], results[j])
=============================================================================
