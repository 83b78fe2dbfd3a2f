----------------------------- MODULE MCUpstreams -----------------------------
EXTENDS Upstreams, TLC
CONSTANTS t1, t2, p1, p2

Dto(on, mode, system, type, upload) ==
  [enabled |-> on, mode |-> mode, gateway |-> TRUE, system |-> system, type |-> type, config |-> upload]
MCDtos == {Dto(TRUE, "FAILOVER", TRUE, "OPENVPN", "OPENVPN"), Dto(TRUE, "FAILOVER", FALSE, "NONE", Unset),
           Dto(TRUE, "ALWAYS_ON", TRUE, "OPENVPN", Unset), Dto(TRUE, "ALWAYS_ON", TRUE, "WIREGUARD", Unset),
           Dto(FALSE, "FAILOVER", FALSE, "OPENVPN", Unset)}
Budget(ticks, n, k) == [ticks |-> ticks, updates |-> n, faults |-> k]
MCBudgets == {Budget({t1}, 2, 2), Budget({t1, t2}, 1, 1)}

MCPriority == (p1 :> 1) @@ (p2 :> 2)
Start(up, ok, tests, k) ==
  [reachable |-> [p \in Pools |-> up], health |-> [p \in Pools |-> ok], tests |-> tests, faults |-> k]
MCStarts == {Start(TRUE, "null", TRUE, 1), Start(FALSE, "bad", FALSE, 0)}
==============================================================================
