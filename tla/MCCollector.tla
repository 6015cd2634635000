----------------------------- MODULE MCCollector -----------------------------
(* Small instances of Collector for TLC.                                     *)
EXTENDS Collector
CONSTANTS s1, s2
MCTwo == <<s1, s2>>
MCAll == Kinds
MCFetch == {"live", "backfill", "partial"}
=============================================================================
