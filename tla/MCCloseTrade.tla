---------------------------- MODULE MCCloseTrade ----------------------------
EXTENDS CloseTrade, TLC

Trades == Permutations(Trade)
=============================================================================
