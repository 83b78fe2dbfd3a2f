-------------------------- MODULE MCGatewaySession --------------------------
EXTENDS GatewaySession
CONSTANTS l1, l2, s1, r1
Of(protocol, messages, n) == [protocol |-> protocol, messages |-> messages, faults |-> n]
MCTraffic == {Of("bitcoin", {l1, s1}, 2), Of("bitcoin", {l1, s1, r1}, 1), Of("monero", {l1, l2, s1}, 0),
              Of("monero", {l1, s1, r1}, 0), Of("monero", {l1, s1}, 1)}
=============================================================================
