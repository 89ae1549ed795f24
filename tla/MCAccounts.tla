----------------------------- MODULE MCAccounts -----------------------------
EXTENDS Accounts, TLC

Clients == Permutations(Client)
=============================================================================
