------------------------------- MODULE Ratios -------------------------------
(***************************************************************************)
(* The Decimals that a replay adds up: src/services/backtest/service.py.   *)
(*                                                                         *)
(* A ratio is a pair <<n, d>>, d > 0, that stands for n / d.  It is not    *)
(* rounded.                                                                *)
(***************************************************************************)
EXTENDS Integers, SequencesExt

Plus(a, b) == <<a[1] * b[2] + b[1] * a[2], a[2] * b[2]>>
Zero == <<0, 1>>
Same(a, b) == a[1] * b[2] = b[1] * a[2]
SumOf(ratios) == FoldFunction(Plus, Zero, ratios)
=============================================================================
