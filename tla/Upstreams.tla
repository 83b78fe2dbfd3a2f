------------------------------ MODULE Upstreams ------------------------------
(***************************************************************************)
(* What the server connects to: how it gets out (EgressProxy), which pool  *)
(* a miner is given (PoolFailover), and the wallets (RpcClient).           *)
(*                                                                         *)
(* A dial of PoolFailover succeeds when its pool is reachable; EgressProxy *)
(* says when it can be.  Beyond that the three share nothing, so that a    *)
(* behaviour moves one of them, its part, and reaches every state of it.   *)
(***************************************************************************)
EXTENDS EgressProxy

CONSTANTS
  Parts,                                \* that a behaviour may be about
  Pools, Priority, Sessions, Starts,    \* see PoolFailover
  RpcCalls, NoCall, RpcFaults           \* see RpcClient

ASSUME UpstreamsAssumption == NoCall \notin RpcCalls /\ Parts \subseteq {"egress", "pools", "wallet"}

VARIABLES
  part,
  cooling, health, open, session, probed, reachable, poolFaults, start,
  wallet, digestTail, rpc, challenge, performed, unread, lost, lostCount

Failover == INSTANCE PoolFailover WITH faults <- poolFaults

poolVars == <<cooling, health, open, session, probed, reachable, poolFaults, start>>
Wallet == INSTANCE RpcClient

walletVars == <<wallet, digestTail, rpc, challenge, performed, unread, lost, lostCount>>
allVars == <<part, egressVars, poolVars, walletVars>>

\* The parts that do not move begin in one of their initial states.
UpstreamsInit ==
  /\ part \in Parts
  /\ EgressInit /\ (part = "egress" \/ budget = CHOOSE b \in Budgets : TRUE)
  /\ Failover!Init /\ (part = "pools" \/ start = CHOOSE s \in Starts : TRUE)
  /\ Wallet!Init /\ (part = "wallet" \/ wallet = [auth |-> "basic", takes |-> "ok"])

InEgress(step) == part = "egress" /\ step /\ UNCHANGED <<part, poolVars, walletVars>>
InPools(step) == part = "pools" /\ step /\ UNCHANGED <<part, egressVars, walletVars>>
InWallet(step) == part = "wallet" /\ step /\ UNCHANGED <<part, egressVars, poolVars>>

UpstreamsNext == InEgress(EgressNext) \/ InPools(Failover!Next) \/ InWallet(Wallet!Next)

\* EgressProxy, PoolFailover and RpcClient have the reasons.
UpstreamsSpec ==
  /\ UpstreamsInit /\ [][UpstreamsNext]_allVars
  /\ WF_egressVars(InEgress(UpdateStep)) /\ WF_egressVars(InEgress(DialStep)) /\ WF_egressVars(InEgress(AgentStep))
  /\ WF_egressVars(InEgress(IntervalPasses)) /\ WF_egressVars(InEgress(RetryPasses))
  /\ \A t \in Ticks : WF_egressVars(InEgress(TickStep(t)))
  /\ \A s \in Sessions : WF_poolVars(InPools(Failover!SessionStep(s)))
  /\ \A p \in Pools : WF_poolVars(InPools(Failover!CooldownEnds(p)))
  /\ \A c \in RpcCalls : WF_walletVars(InWallet(Wallet!CallStep(c)))

-----------------------------------------------------------------------------
\* See EgressProxy: the server leaves by another way only with what that needs,
\* a configuration for the tunnel and enough failed probes.
EgressIsEarned == SystemHasConfig /\ FailoverIsEarned

\* See EgressProxy: what the setting asks for comes true in the end, whatever
\* stale ticks wrote: the tunnel, the return to the direct path, connections.
EgressSettles == AlwaysOnComesUp /\ FailoverReturns /\ FailoverServes

\* See PoolFailover: miners return to the first pool and its alerts are closed.
FailsBack == Failover!FailsBack

\* See RpcClient: each call to a wallet ends and is performed once at most,
\* over the failures of the calls that it waits for.
CallsEndOnce == Wallet!CallsEndOnce
==============================================================================
