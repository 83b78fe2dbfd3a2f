----------------------------- MODULE MCTreasury -----------------------------
EXTENDS Treasury

Pol(limit, payer, max) == [limit |-> limit, feePayer |-> payer, maxItems |-> max]
MCBothPayers == {Pol(0, "OPERATOR", 2), Pol(6, "CUSTOMER", 2)}
MCOperatorPays == {Pol(6, "OPERATOR", 2)}
MCSmallBatches == {Pol(6, "CUSTOMER", 1)}
=============================================================================
