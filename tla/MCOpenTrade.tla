---------------------------- MODULE MCOpenTrade ----------------------------
(* Instances of OpenTrade for TLC. *)
EXTENDS OpenTrade, TLC

Trades == Permutations(Trade)
=============================================================================
