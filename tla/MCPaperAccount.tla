--------------------------- MODULE MCPaperAccount ---------------------------
(* Small instances of PaperAccount for TLC.                                  *)
EXTENDS PaperAccount
CONSTANTS s1, s2
MCOne == {s1}
MCTwo == {s1, s2}
MCTargets == {0, 6, 11}
MCPrices == {2, 3}
MCOnePrice == {2}
=============================================================================
