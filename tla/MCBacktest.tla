----------------------------- MODULE MCBacktest -----------------------------
(* Small instances of Backtest for TLC.                                      *)
EXTENDS Performance
CONSTANTS s1
MCOne == {s1}
MCCloses == {97, 100, 104}
MCExit == -100
MCPrevs == {97, 100}
MCMinutes == {600, 840, 900}
\* Four bars on four days, each with or without a fill, made at once or a
\* little later.
MCTrade == {[side |-> "none", qty |-> 0]} \union [side : {"buy", "sell"}, qty : {4, 6}]
MCFill(trade, close, day, delay) ==
    IF trade.side = "none" THEN <<>>
    ELSE <<[symbol |-> s1, side |-> trade.side, qty |-> trade.qty,
            price |-> IF trade.side = "buy" THEN close + 1 ELSE close - 1,
            day |-> day, time |-> day * 1440 + 600 + delay]>>
MCReplay ==
    {[i \in 1 .. 4 |->
        [symbol |-> s1, day |-> i, minute |-> 600, close |-> closes[i], state |-> TRUE,
         fill |-> MCFill(trades[i], closes[i], i, delay)]] :
     closes \in [1 .. 4 -> {97, 104}], trades \in [1 .. 4 -> MCTrade], delay \in {0, 1}}
\* The holding of shares needs this of them.
ASSUME MCReplayIsPrompt == PromptReplay

\* A failed request, with and without a return that the heuristic likes; more
\* than the cash pays for, and 0, which is no target; an exit, and one that is
\* not sure.
Says(action, sure, target, rose) == [action |-> action, sure |-> sure, target |-> target, rose |-> rose]
MCAnswers ==
    {Says("failed", FALSE, 0, TRUE), Says("failed", FALSE, 0, FALSE),
     Says("rebalance", TRUE, 12, FALSE), Says("rebalance", TRUE, 0, FALSE),
     Says("exit", TRUE, NoTarget, FALSE), Says("exit", FALSE, 0, FALSE)}
MCMorning == {600, 630, 660, 680}
=============================================================================
