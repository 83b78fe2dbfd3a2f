--------------------------- MODULE MCGatewayAccess ---------------------------
EXTENDS GatewayAccess, TLC
CONSTANTS a, b, c
\* The customer of c's user name is too short: it is stored with a suffix.
MCIpOf == [s \in Sockets |-> IF s = c THEN "ip2" ELSE "ip1"]
MCCustomerOf == [n \in Names |-> CASE n = "m_.rig" -> "m_" [] n = "m-0.rig" -> "m-0" [] OTHER -> "m-1"]
MCNameOf == [s \in Sockets |-> IF s = c THEN "m_.rig" ELSE "m-0.rig"]
MCPassword == [s \in Sockets |-> IF s = c THEN "p2" ELSE "p1"]
MCSlugsOf == [n \in Names |-> IF n = "m_.rig" THEN {"m-0.rig", "m-1.rig"} ELSE {n}]
MCSymmetry == Permutations({a, b})
=============================================================================
