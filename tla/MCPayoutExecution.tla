------------------------- MODULE MCPayoutExecution -------------------------
(* Small instances of PayoutExecution for TLC. *)
EXTENDS PayoutExecution, TLC

CONSTANTS b1, b2, e1, e2, a1, a2, r1, p1, p2

MCSymmetry == Permutations({e1, e2}) \cup Permutations({p1, p2})
=============================================================================
