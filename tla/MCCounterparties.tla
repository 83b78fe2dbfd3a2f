-------------------------- MODULE MCCounterparties --------------------------
EXTENDS Counterparties, TLC
CONSTANTS e1, e2, e3, w1, w2, t1, t2
MCSymmetry == UNION {Permutations(S) : S \in {Endpoints, Values, Editors}}
=============================================================================
