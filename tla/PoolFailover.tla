---------------------------- MODULE PoolFailover ----------------------------
(***************************************************************************)
(* Which pool a miner gets: ensureUpstream and connectPool of the sessions, *)
(* upstream-runtime.service.ts, candidates and test of                     *)
(* upstreams.service.ts, and the alerts of alerts.service.ts.              *)
(*                                                                         *)
(* The pools are the enabled ones of one asset.  The sessions share the    *)
(* map of cooling pools, the health in the rows and the alerts; one step   *)
(* is the code from one await to the next.                                 *)
(***************************************************************************)
EXTENDS Naturals, Sequences, FiniteSets

CONSTANTS
  Pools,
  Priority,    \* of a pool, lowest first
  Sessions,    \* sessions that may look for a pool at the same time
  Starts       \* what a behaviour begins with, [reachable, health], and may contain:
               \* [tests, faults], failures of pools, calls and the process

VARIABLES
  cooling,     \* pools in unhealthyUntil whose time has not come
  health,      \* lastHealthOk: "null", "ok" or "bad"
  open,        \* alerts of a pool that are OPEN
  session,     \* of a session: [step, list]
  probed,      \* what a test in progress has found of a pool
  reachable,   \* a pool answers and accepts the credentials
  faults,
  start        \* the element of Starts that this behaviour is about

vars == <<cooling, health, open, session, probed, reachable, faults, start>>

Idle == [step |-> "idle", list |-> <<>>]

Init ==
  /\ start \in Starts
  /\ cooling = {} /\ health = start.health /\ open = [p \in Pools |-> 0]
  /\ session = [s \in Sessions |-> Idle]
  /\ probed = {}
  /\ reachable = start.reachable /\ faults = 0

Fault == faults < start.faults /\ faults' = faults + 1

\* The pool a session is at.
Pool(s) == Head(session[s].list)
At(s, step) == session' = [session EXCEPT ![s].step = step]

-----------------------------------------------------------------------------
(* AlertsService *)

\* raise: an alert is created only if none was found; an update leaves the
\* status of the one that was found alone.
Create(p) == open' = [open EXCEPT ![p] = @ + 1]

\* resolveByDedupe: all that are open.  (Mutant: none.)
ResolveNone(p) == UNCHANGED open
ResolveByDedupe(p) == open' = [open EXCEPT ![p] = 0]

\* An administrator resolves one.
ResolveAlert(p) ==
  /\ open[p] > 0
  /\ open' = [open EXCEPT ![p] = @ - 1]
  /\ UNCHANGED <<cooling, health, session, probed, reachable, faults, start>>

-----------------------------------------------------------------------------
(* Candidates *)

HealthRank == [null |-> 0, ok |-> 1, bad |-> 2]

\* The database orders by priority and health, candidates() by cooldown and
\* priority, and its sort is stable.
Down(p) == IF p \in cooling THEN 1 ELSE 0
Before(p, q) ==
  \/ Down(p) < Down(q)
  \/ /\ Down(p) = Down(q)
     /\ \/ Priority[p] < Priority[q]
        \/ Priority[p] = Priority[q] /\ HealthRank[health[p]] <= HealthRank[health[q]]

Candidates(s) ==
  /\ session[s].step = "idle"
  /\ \E list \in [1..Cardinality(Pools) -> Pools] :
       /\ \A i, j \in DOMAIN list : i < j => list[i] # list[j] /\ Before(list[i], list[j])
       /\ session' = [session EXCEPT ![s] = [step |-> "dial", list |-> list]]
  /\ UNCHANGED <<cooling, health, open, probed, reachable, faults, start>>

-----------------------------------------------------------------------------
(* runtime.success and runtime.failure in the loop over the candidates *)

Connected(s) ==
  /\ session[s].step = "dial" /\ reachable[Pool(s)]
  /\ cooling' = cooling \ {Pool(s)}
  /\ At(s, "success")
  /\ UNCHANGED <<health, open, probed, reachable, faults, start>>

SuccessRow(s) ==
  /\ session[s].step = "success"
  /\ health' = [health EXCEPT ![Pool(s)] = "ok"]
  /\ At(s, "resolve")
  /\ UNCHANGED <<cooling, open, probed, reachable, faults, start>>

SuccessAlert(s) ==
  /\ session[s].step = "resolve"
  /\ ResolveByDedupe(Pool(s))
  /\ At(s, "connected")
  /\ UNCHANGED <<cooling, health, probed, reachable, faults, start>>

\* failure up to its first await.
Cooled(p) == cooling \cup {p}

DialFails(s) ==
  /\ session[s].step = "dial" /\ ~reachable[Pool(s)]
  /\ cooling' = Cooled(Pool(s))
  /\ At(s, "failure")
  /\ UNCHANGED <<health, open, probed, reachable, faults, start>>

\* A call of success fails: the pool counts as failed.
SuccessFails(s) ==
  /\ session[s].step \in {"success", "resolve"} /\ Fault
  /\ cooling' = Cooled(Pool(s))
  /\ At(s, "failure")
  /\ UNCHANGED <<health, open, probed, reachable, start>>

\* The error of a failed update is dropped.
FailureRow(s) ==
  /\ session[s].step = "failure"
  /\ \/ health' = [health EXCEPT ![Pool(s)] = "bad"] /\ UNCHANGED faults
     \/ Fault /\ UNCHANGED health
  /\ At(s, "raise")
  /\ UNCHANGED <<cooling, open, probed, reachable, start>>

Find(s) ==
  /\ session[s].step = "raise"
  /\ At(s, IF open[Pool(s)] = 0 THEN "create" ELSE "update")
  /\ UNCHANGED <<cooling, health, open, probed, reachable, faults, start>>

\* The next candidate; after the last one the session is closed.
NextCandidate(s) ==
  session' = [session EXCEPT ![s] = IF Len(@.list) = 1 THEN Idle ELSE [step |-> "dial", list |-> Tail(@.list)]]

Raise(s) ==
  /\ session[s].step \in {"create", "update"}
  /\ IF session[s].step = "create" THEN Create(Pool(s)) ELSE UNCHANGED open
  /\ NextCandidate(s)
  /\ UNCHANGED <<cooling, health, probed, reachable, faults, start>>

\* The alert cannot be written: the session is closed.
RaiseFails(s) ==
  /\ session[s].step \in {"raise", "create", "update"} /\ Fault
  /\ session' = [session EXCEPT ![s] = Idle]
  /\ UNCHANGED <<cooling, health, open, probed, reachable, start>>

\* The miner leaves, or the pool does: then close() calls failure.  (A pool that
\* leaves during success does so too: the steps of another session's failed dial.)
MinerLeaves(s) ==
  /\ session[s].step = "connected"
  /\ session' = [session EXCEPT ![s] = Idle]
  /\ UNCHANGED <<cooling, health, open, probed, reachable, faults, start>>

UpstreamFailed(s) ==
  /\ session[s].step = "connected" /\ ~reachable[Pool(s)]
  /\ cooling' = Cooled(Pool(s))
  /\ session' = [session EXCEPT ![s] = [step |-> "failure", list |-> <<Pool(s)>>]]
  /\ UNCHANGED <<health, open, probed, reachable, faults, start>>

-----------------------------------------------------------------------------
(* The test button, time, and failures *)

\* protocolProbe: a connection, subscribe and authorize (or login).
ProtocolProbe(p) ==
  /\ start.tests /\ probed = {}
  /\ probed' = {<<p, IF reachable[p] THEN "ok" ELSE "bad">>}
  /\ UNCHANGED <<cooling, health, open, session, reachable, faults, start>>

TestRow ==
  /\ \E result \in probed : health' = [health EXCEPT ![result[1]] = result[2]]
  /\ probed' = {}
  /\ UNCHANGED <<cooling, open, session, reachable, faults, start>>

\* (Mutant: a pool is shut out for good.)
CooldownStays(p) == FALSE
CooldownEnds(p) ==
  /\ p \in cooling
  /\ cooling' = cooling \ {p}
  /\ UNCHANGED <<health, open, session, probed, reachable, faults, start>>

\* A pool fails; it may come back.
PoolChanges(p) ==
  /\ IF reachable[p] THEN Fault ELSE UNCHANGED faults
  /\ reachable' = [reachable EXCEPT ![p] = ~@]
  /\ UNCHANGED <<cooling, health, open, session, probed, start>>

Restart ==
  /\ Fault
  /\ cooling' = {} /\ session' = [s \in Sessions |-> Idle] /\ probed' = {}
  /\ UNCHANGED <<health, open, reachable, start>>

SessionStep(s) ==
  \/ Connected(s) \/ SuccessRow(s) \/ SuccessAlert(s)
  \/ DialFails(s) \/ FailureRow(s) \/ Find(s) \/ Raise(s)

Next ==
  \/ \E s \in Sessions : \/ Candidates(s) \/ SessionStep(s) \/ SuccessFails(s) \/ RaiseFails(s)
                         \/ MinerLeaves(s) \/ UpstreamFailed(s)
  \/ \E p \in Pools : ResolveAlert(p) \/ ProtocolProbe(p) \/ CooldownEnds(p) \/ PoolChanges(p)
  \/ TestRow \/ Restart

Spec == Init /\ [][Next]_vars

\* Awaited calls end and time passes.
FairSpec ==
  /\ Spec
  /\ \A s \in Sessions : WF_vars(SessionStep(s))
  /\ \A p \in Pools : WF_vars(CooldownEnds(p))

-----------------------------------------------------------------------------
First(p) == \A q \in Pools \ {p} : Priority[p] < Priority[q]
Dialling(p) == \E s \in Sessions : session[s].step = "dial" /\ Pool(s) = p

\* Failback: once the pool of the first priority answers for good, miners are
\* sent to no other, and if miners come at all its alerts, duplicates included,
\* are closed and stay so.
FailsBack ==
  \A p \in {q \in Pools : First(q)} :
    <>[]reachable[p] =>
      /\ <>[](\A q \in Pools \ {p} : ~Dialling(q))
      /\ []<>Dialling(p) => <>[](open[p] = 0)

\* Not kept: two sessions that find no alert create one each.
OneAlert == \A p \in Pools : open[p] <= 1

\* Not kept: a success that is under way when the pool fails closes the alert.
CoolingIsAlerted ==
  \A p \in cooling : open[p] > 0 \/ \E s \in Sessions : session[s].step # "idle" /\ Pool(s) = p
=============================================================================
