--------------------------- MODULE MCTraderService ---------------------------
(* Small instances of TraderService for TLC.                                 *)
EXTENDS TraderService
CONSTANTS b1, b2, b3
MCBar == {b1, b2, b3}
MCTwoBars == {b1, b2}
=============================================================================
