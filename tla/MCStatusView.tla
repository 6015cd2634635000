---------------------------- MODULE MCStatusView ----------------------------
(* A small instance of StatusView for TLC. *)
EXTENDS StatusView, TLC
CONSTANTS i1, i2

MCInstance == {i1, i2}
\* a bar that has just closed, and one that is stale when it arrives and has
\* no market state
MCBars == {[age |-> 0, phase |-> TRUE], [age |-> Stale + 1, phase |-> FALSE]}
Symmetry == Permutations(MCInstance)
=============================================================================
