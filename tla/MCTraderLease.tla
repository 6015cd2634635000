---------------------------- MODULE MCTraderLease ----------------------------
(* Two traders that compete for one account; the constants of the runs. *)
EXTENDS TraderLease, TLC

CONSTANTS a, b

SameHost == (a :> "h1") @@ (b :> "h1")
OtherHosts == (a :> "h1") @@ (b :> "h2")

Symmetric == Permutations(Instance)
=============================================================================
