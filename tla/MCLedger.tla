------------------------------- MODULE MCLedger -------------------------------
EXTENDS Ledger, TLC

Symmetry == Permutations(Objects)
==============================================================================
