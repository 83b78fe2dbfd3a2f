---------------------------- MODULE MCSettlement ----------------------------
EXTENDS Settlement, TLC

MCAmounts == {1, 2, 3, 5, 10, 49, 99}
MCSymmetry == Permutations(CustomerIds)
=============================================================================
