----------------------------- MODULE EgressProxy -----------------------------
(***************************************************************************)
(* The way out of the server: the proxy setting (proxy-settings.service),  *)
(* the check of the direct path (proxy-health.service), the connections of *)
(* the gateway (socket-connect) and the agent that starts the tunnel of    *)
(* the whole system (netproxy-agent.sh).                                   *)
(*                                                                         *)
(* The application and the agent share two files.  Host, port, user and    *)
(* password of the proxy are left out: they are saved and used together.   *)
(***************************************************************************)
EXTENDS Naturals

CONSTANTS
  Ticks,       \* overlapping calls of tick()
  Dtos,        \* settings the administrator may save
  Threshold,   \* healthCheckFailureThreshold
  Unset,
  Budgets      \* what a behaviour may contain: the calls of tick() that overlap, how
               \* many saves, and how many failures of the path, of calls and processes

VpnTypes == {"OPENVPN", "WIREGUARD"}
Setting ==
  [enabled : BOOLEAN, mode : {"FAILOVER", "ALWAYS_ON"}, gateway : BOOLEAN, system : BOOLEAN,
   type : VpnTypes \cup {"NONE"}, config : VpnTypes \cup {"NONE", Unset}]

\* What is uploaded is a configuration of the type it comes with.
ASSUME EgressAssumption ==
  Threshold \in Nat /\ Dtos \subseteq Setting /\ \A dto \in Dtos : dto.config \in {Unset, dto.type}

VARIABLES
  setting,     \* systemSetting network.proxy
  update,      \* the call of update(): [step, dto, before]
  updates,     \* saves so far
  directUp,    \* fields of ProxyHealthService
  failures,
  due,         \* the check interval has passed since lastCheckedAt
  tick,        \* of a call: [step, setting]
  dial,        \* a connection of the gateway: its path, or how it ended
  file,        \* state.json: applyToSystem, active, vpnConfigType
  config,      \* vpn-config.conf: the type it was made for
  agent,       \* step of the agent's loop and the fields it has read
  retry,       \* min_retry_seconds have passed since the last start
  tunnel,      \* type of the tunnel that is up
  direct,      \* the direct path works
  failedRun,   \* probes that failed since the last one that did not (history)
  faults,
  budget       \* the element of Budgets that this behaviour is about

appVars == <<update, directUp, failures, due, tick, dial>>
agentVars == <<agent, retry, tunnel>>
egressVars == <<setting, updates, appVars, file, config, agentVars, direct, failedRun, faults, budget>>

Default == [enabled |-> FALSE, mode |-> "FAILOVER", gateway |-> TRUE, system |-> FALSE,
            type |-> "NONE", config |-> Unset]
NoUpdate == [step |-> "idle", dto |-> Unset, before |-> Default]
NoTick == [step |-> "idle", setting |-> Default]
Poll == [step |-> "apply", apply |-> FALSE, active |-> FALSE]

EgressInit ==
  /\ setting = Default /\ update = NoUpdate /\ updates = 0
  /\ directUp = TRUE /\ failures = 0 /\ due = TRUE
  /\ tick = [t \in Ticks |-> NoTick] /\ dial = "idle"
  /\ file = [apply |-> FALSE, active |-> FALSE, type |-> "NONE"] /\ config = Unset
  /\ agent = Poll /\ retry = TRUE /\ tunnel = Unset
  /\ direct = TRUE /\ failedRun = 0 /\ faults = 0 /\ budget \in Budgets

Fault == faults < budget.faults /\ faults' = faults + 1

-----------------------------------------------------------------------------
(* ProxySettingsService *)

\* writeState: the decision, then the tunnel's configuration if there is one.
WriteState(s, mode) ==
  LET useProxy == mode = "PROXY" \/ (mode = Unset /\ s.mode = "ALWAYS_ON") IN
  /\ file' = [apply |-> s.system /\ s.enabled, active |-> s.system /\ s.enabled /\ useProxy, type |-> s.type]
  /\ config' = IF s.config # Unset /\ s.type # "NONE" THEN s.config ELSE config

\* update: the current setting is read.
UpdateReads(dto) ==
  /\ update.step = "idle" /\ updates < budget.updates
  /\ ~(dto.system /\ dto.type = "NONE")
  /\ updates' = updates + 1
  /\ update' = [step |-> "read", dto |-> dto, before |-> setting]
  /\ UNCHANGED <<setting, directUp, failures, due, tick, dial, file, config, agentVars, direct, failedRun,
                 faults, budget>>

\* "Upload a VPN configuration before enabling this mode."
Uploaded(dto, before) ==
  dto.system /\ dto.config = Unset => before.type = dto.type /\ before.config # Unset

\* A configuration that is not sent is kept for the same type.  (Mutant: for
\* any type.)
NextConfigAny(dto, before) == IF dto.config # Unset THEN dto.config ELSE before.config
NextConfig(dto, before) ==
  IF dto.config # Unset THEN dto.config ELSE IF before.type = dto.type THEN before.config ELSE Unset

UpdateSaves ==
  /\ update.step = "read"
  /\ IF Uploaded(update.dto, update.before)
     THEN /\ setting' = [update.dto EXCEPT !.config = NextConfig(update.dto, update.before)]
          /\ update' = [step |-> "saved", dto |-> setting', before |-> Default]
     ELSE setting' = setting /\ update' = NoUpdate
  /\ UNCHANGED <<updates, directUp, failures, due, tick, dial, file, config, agentVars, direct, failedRun,
                 faults, budget>>

\* After the audit record.
UpdateWrites ==
  /\ update.step = "saved"
  /\ WriteState(update.dto, Unset)
  /\ update' = NoUpdate
  /\ UNCHANGED <<setting, updates, directUp, failures, due, tick, dial, agentVars, direct, failedRun, faults, budget>>

\* The audit record fails: the files stay as they were.
UpdateFails ==
  /\ update.step = "saved" /\ Fault
  /\ update' = NoUpdate
  /\ UNCHANGED <<setting, updates, directUp, failures, due, tick, dial, file, config, agentVars, direct,
                 failedRun, budget>>

-----------------------------------------------------------------------------
(* ProxyHealthService *)

TickReads(t) ==
  /\ tick[t].step = "idle" /\ t \in budget.ticks
  /\ tick' = [tick EXCEPT ![t] = [step |-> "read", setting |-> setting]]
  /\ UNCHANGED <<setting, update, updates, directUp, failures, due, dial, file, config, agentVars, direct,
                 failedRun, faults, budget>>

\* The call goes on with the setting it has read, up to the probe.
TickDisabled(t) ==
  /\ tick[t].step = "read" /\ ~tick[t].setting.enabled
  /\ directUp' = TRUE /\ failures' = 0
  /\ tick' = [tick EXCEPT ![t] = NoTick]
  /\ UNCHANGED <<setting, update, updates, due, dial, file, config, agentVars, direct, failedRun, faults, budget>>

TickAlwaysOn(t) ==
  /\ tick[t].step = "read" /\ tick[t].setting.enabled /\ tick[t].setting.mode = "ALWAYS_ON"
  /\ WriteState(tick[t].setting, "PROXY")
  /\ tick' = [tick EXCEPT ![t] = NoTick]
  /\ UNCHANGED <<setting, update, updates, directUp, failures, due, dial, agentVars, direct, failedRun, faults,
                 budget>>

TickFailover(t) ==
  /\ tick[t].step = "read" /\ tick[t].setting.enabled /\ tick[t].setting.mode = "FAILOVER"
  /\ due' = FALSE
  /\ tick' = IF due THEN [tick EXCEPT ![t].step = "probe"] ELSE [tick EXCEPT ![t] = NoTick]
  /\ UNCHANGED <<setting, update, updates, directUp, failures, dial, file, config, agentVars, direct, failedRun,
                 faults, budget>>

\* The probe takes the default route: the tunnel's while that is up.
Reachable == direct \/ tunnel # Unset

\* (Mutant: the path is given up at the failure before.)
GivesUpEarly(n) == n + 1 >= Threshold
GivesUp(n) == n >= Threshold

Probed(t) ==
  /\ tick[t].step = "probe"
  /\ IF Reachable
     THEN directUp' = TRUE /\ failures' = 0 /\ failedRun' = 0
     ELSE /\ failures' = IF failures < Threshold THEN failures + 1 ELSE failures
          /\ directUp' = (directUp /\ ~GivesUp(failures + 1))
          /\ failedRun' = IF failedRun < Threshold THEN failedRun + 1 ELSE failedRun
  /\ WriteState(tick[t].setting, IF directUp' THEN "DIRECT" ELSE "PROXY")
  /\ tick' = [tick EXCEPT ![t] = NoTick]
  /\ UNCHANGED <<setting, update, updates, due, dial, agentVars, direct, faults, budget>>

IntervalPasses ==
  /\ ~due /\ due' = TRUE
  /\ UNCHANGED <<setting, update, updates, directUp, failures, tick, dial, file, config, agentVars, direct,
                 failedRun, faults, budget>>

-----------------------------------------------------------------------------
(* connectUpstream, for a pool that answers whoever reaches it *)

\* resolveGatewayProxy.  (Mutant: the mode is not looked at.)
PathAlways == IF setting.enabled /\ setting.gateway THEN "proxy" ELSE "direct"
Path ==
  IF setting.enabled /\ setting.gateway /\ ~(setting.mode = "FAILOVER" /\ directUp) THEN "proxy" ELSE "direct"

Dial ==
  /\ dial \in {"idle", "connected", "failed"}
  /\ dial' = Path
  /\ UNCHANGED <<setting, update, updates, directUp, failures, due, tick, file, config, agentVars, direct,
                 failedRun, faults, budget>>

\* connectDirect ends with the socket, its error or its timeout.
ConnectDirect ==
  /\ dial = "direct"
  /\ dial' = IF Reachable THEN "connected" ELSE "failed"
  /\ UNCHANGED <<setting, update, updates, directUp, failures, due, tick, file, config, agentVars, direct,
                 failedRun, faults, budget>>

\* connectViaProxy: the tunnel (SOCKS5 or CONNECT), then the socket on top of
\* it.  The proxy is near and has a way out of its own.
DialTunnel ==
  /\ dial = "proxy"
  /\ dial' = "tunnel"
  /\ UNCHANGED <<setting, update, updates, directUp, failures, due, tick, file, config, agentVars, direct,
                 failedRun, faults, budget>>

FinalizeSocket ==
  /\ dial = "tunnel"
  /\ dial' = "connected"
  /\ UNCHANGED <<setting, update, updates, directUp, failures, due, tick, file, config, agentVars, direct,
                 failedRun, faults, budget>>

\* The proxy refuses, or one of the two timeouts passes.
ProxyFails ==
  /\ dial \in {"proxy", "tunnel"} /\ Fault
  /\ dial' = "failed"
  /\ UNCHANGED <<setting, update, updates, directUp, failures, due, tick, file, config, agentVars, direct,
                 failedRun, budget>>

-----------------------------------------------------------------------------
(* netproxy-agent.sh: three reads of the file, then the tunnel *)

ReadApply ==
  /\ agent.step = "apply"
  /\ agent' = [agent EXCEPT !.step = "active", !.apply = file.apply]
  /\ UNCHANGED <<setting, updates, appVars, file, config, retry, tunnel, direct, failedRun, faults, budget>>

ReadActive ==
  /\ agent.step = "active"
  /\ agent' = [agent EXCEPT !.step = "type", !.active = file.active]
  /\ UNCHANGED <<setting, updates, appVars, file, config, retry, tunnel, direct, failedRun, faults, budget>>

\* start_openvpn and start_wireguard: a configuration of the other kind fails.
Started(type) == IF type \in VpnTypes /\ config = type THEN type ELSE Unset

\* The type is read and ensure_up or ensure_down follows.
EnsureUp ==
  /\ agent.step = "type" /\ agent.apply /\ agent.active
  /\ IF tunnel # Unset \/ ~retry THEN UNCHANGED <<tunnel, retry>>
     ELSE tunnel' = Started(file.type) /\ retry' = FALSE
  /\ agent' = Poll
  /\ UNCHANGED <<setting, updates, appVars, file, config, direct, failedRun, faults, budget>>

EnsureDown ==
  /\ agent.step = "type" /\ ~(agent.apply /\ agent.active)
  /\ tunnel' = Unset
  /\ agent' = Poll
  /\ UNCHANGED <<setting, updates, appVars, file, config, retry, direct, failedRun, faults, budget>>

RetryPasses ==
  /\ ~retry /\ retry' = TRUE
  /\ UNCHANGED <<setting, updates, appVars, file, config, agent, tunnel, direct, failedRun, faults, budget>>

\* A field is missing from a file that is being written: the script ends, its
\* trap takes the tunnel down and systemd starts it again.
AgentRestarts ==
  /\ Fault
  /\ agent' = Poll /\ retry' = TRUE /\ tunnel' = Unset
  /\ UNCHANGED <<setting, updates, appVars, file, config, direct, failedRun, budget>>

-----------------------------------------------------------------------------
(* The environment *)

PathChanges ==
  /\ Fault /\ direct' = ~direct
  /\ UNCHANGED <<setting, updates, appVars, file, config, agentVars, failedRun, budget>>

\* The application stops and starts again.
Restart ==
  /\ Fault
  /\ update' = NoUpdate /\ directUp' = TRUE /\ failures' = 0 /\ due' = TRUE
  /\ tick' = [t \in Ticks |-> NoTick] /\ dial' = "idle"
  /\ UNCHANGED <<setting, updates, file, config, agentVars, direct, failedRun, budget>>

TickStep(t) == TickReads(t) \/ TickDisabled(t) \/ TickAlwaysOn(t) \/ TickFailover(t) \/ Probed(t)
DialStep == Dial \/ ConnectDirect \/ DialTunnel \/ FinalizeSocket
AgentStep == ReadApply \/ ReadActive \/ EnsureUp \/ EnsureDown
UpdateStep == UpdateSaves \/ UpdateWrites

EgressNext ==
  \/ \E dto \in Dtos : UpdateReads(dto)
  \/ UpdateStep \/ UpdateFails
  \/ \E t \in Ticks : TickStep(t)
  \/ DialStep \/ ProxyFails
  \/ AgentStep \/ AgentRestarts
  \/ IntervalPasses \/ RetryPasses
  \/ PathChanges \/ Restart

EgressSpec == EgressInit /\ [][EgressNext]_egressVars

\* The timers fire, awaited calls end and the agent polls.
EgressFairSpec ==
  /\ EgressSpec
  /\ WF_egressVars(UpdateStep) /\ WF_egressVars(DialStep) /\ WF_egressVars(AgentStep)
  /\ WF_egressVars(IntervalPasses) /\ WF_egressVars(RetryPasses)
  /\ \A t \in Ticks : WF_egressVars(TickStep(t))

-----------------------------------------------------------------------------
\* The whole system is sent through a tunnel only with a configuration, and that
\* is one for the chosen type, although a save keeps what earlier ones uploaded.
SystemHasConfig ==
  /\ setting.config \in {Unset, setting.type}
  /\ setting.system => setting.config # Unset

\* "FAILOVER": the proxy is not used before Threshold probes have failed one
\* after the other, whichever calls of tick() made them.
FailoverIsEarned == ~directUp => failedRun = Threshold

Enabled(mode) == setting.enabled /\ setting.mode = mode

\* "ALWAYS_ON": the tunnel comes up and stays, whatever files stale ticks wrote.
AlwaysOnComesUp == <>[](Enabled("ALWAYS_ON") /\ setting.system) => <>[](tunnel # Unset)

\* "... and with the first success it returns to the direct path": once that
\* path works for good, connections take it and the tunnel is down.
FailoverReturns == <>[](Enabled("FAILOVER") /\ direct) => <>[](Path = "direct" /\ tunnel = Unset)

\* "... the system switches to the proxy": with a proxy for the gateway alone,
\* connections stop failing, whatever happens to the direct path.
FailoverServes ==
  <>[](Enabled("FAILOVER") /\ setting.gateway /\ ~setting.system) => <>[](dial # "failed")

\* Not kept: the probe goes through the tunnel, so a tunnel that is up for want
\* of the direct path is taken down again.
FailoverStays == <>[](Enabled("FAILOVER") /\ setting.system /\ ~direct) => <>[](tunnel # Unset)

\* Not kept: a tick that read the old setting writes its state after update
\* did, and disabled ticks write none.
DisabledTakesDown == <>[](~setting.enabled) => <>[](tunnel = Unset)
==============================================================================
