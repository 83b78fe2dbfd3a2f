--------------------------- MODULE GatewaySession ---------------------------
(***************************************************************************)
(* One miner's connection: gateway/bitcoin-gateway.session.ts and          *)
(* gateway/monero-gateway.session.ts with the share journal behind them.   *)
(*                                                                         *)
(* The messages of the miner are handled one after the other, and so are   *)
(* those of the pool, but the two handlers, close() and the heartbeat run  *)
(* between each other's awaits.  One step is the code from one await to    *)
(* the next.                                                               *)
(***************************************************************************)
EXTENDS Naturals, FiniteSets

CONSTANTS
  Logins,      \* mining.authorize (login) messages the miner may send
  Shares,      \* mining.submit messages the miner may send
  Requests,    \* mining.subscribe and the like (keepalived)
  None,
  Traffic      \* what a behaviour may contain: the protocol, the messages, and
               \* how many calls may fail and keys be lost

ASSUME MessagesAssumption ==
  /\ Traffic \subseteq [protocol : {"bitcoin", "monero"},
                       messages : SUBSET (Logins \cup Shares \cup Requests), faults : Nat]
  /\ Logins \cap Shares = {} /\ Logins \cap Requests = {} /\ Shares \cap Requests = {}
  /\ None \notin Logins \cup Shares \cup Requests

Messages == Logins \cup Shares \cup Requests

VARIABLES
  socket,       \* the miner's socket is open
  inbox,        \* messages received and not yet handled
  unsent,       \* messages the miner may still send
  down,         \* the handler of the miner's messages: [at, msg]
  up,           \* answers being handled: [share, verdict], one per pool socket
  pending,      \* the map of forwarded requests
  authorized,   \* the login whose worker and lease the session holds
  connectionId, \* the login whose ConnectionSession row the session uses
  upstream,     \* the pool socket in use, 0 for none
  closing,      \* progress of close()
  snapshot,     \* shares that close() found pending
  timers,       \* heartbeat intervals that run
  ups,          \* open sockets to pools
  connects,     \* pool sockets opened so far
  lease,        \* logins whose lease is in Redis
  row,          \* ConnectionSession: "none", "open" or "closed"
  share,        \* status of ShareEvent; "none": no row, "PRUNED": deleted
  resolutions,  \* resolve transactions of a share
  credited,     \* shares with an allocation batch
  sent,         \* pool socket a share was written to, 0 for none
  verdict,      \* what the pool decided
  answers,      \* shares whose answer is under way
  told,         \* what the miner was told of a share
  traffic,      \* the element of Traffic that this behaviour is about
  faults

sessionVars == <<inbox, down, up, pending, authorized, connectionId, upstream>>
closeVars == <<closing, snapshot, timers>>
netVars == <<socket, unsent, ups, connects, traffic>>
redisVars == <<lease>>
shareVars == <<share, resolutions, credited>>
poolVars == <<sent, verdict, answers, told>>
vars == <<sessionVars, closeVars, netVars, redisVars, row, shareVars, poolVars, faults>>

Idle == [at |-> "idle", msg |-> None]

Init ==
  /\ traffic \in Traffic
  /\ socket = TRUE /\ inbox = {} /\ unsent = traffic.messages
  /\ down = Idle /\ up = {} /\ pending = {}
  /\ authorized = None /\ connectionId = None /\ upstream = 0
  /\ closing = "no" /\ snapshot = {} /\ timers = 0
  /\ ups = {} /\ connects = 0
  /\ lease = {} /\ row = [l \in Logins |-> "none"]
  /\ share = [s \in Shares |-> "none"] /\ resolutions = [s \in Shares |-> 0] /\ credited = {}
  /\ sent = [s \in Shares |-> 0] /\ verdict = [s \in Shares |-> "none"]
  /\ answers = {} /\ told = [s \in Shares |-> "none"]
  /\ faults = 0

Fault == faults < traffic.faults /\ faults' = faults + 1

-----------------------------------------------------------------------------
(* close() *)

PendingShares == pending \cap Shares

\* Up to the first await; a second call returns at once.  Only the interval
\* that was started last is cleared.
StartClose ==
  IF closing = "no"
  THEN /\ closing' = "unknown"
       /\ snapshot' = PendingShares
       /\ timers' = IF timers > 0 THEN timers - 1 ELSE 0
  ELSE UNCHANGED closeVars

\* The miner leaves, is idle for too long or is late to log in, or one of the
\* two sends what is not a message.
Close ==
  /\ closing = "no"
  /\ StartClose
  /\ socket' \in {socket, FALSE}
  /\ UNCHANGED <<sessionVars, unsent, ups, connects, traffic, redisVars, row, shareVars, poolVars,
                 faults>>

\* A pool ends its connection.
UpstreamFailed(u) ==
  /\ u \in ups
  /\ ups' = ups \ {u}
  /\ StartClose
  /\ UNCHANGED <<sessionVars, socket, unsent, connects, traffic, redisVars, row, shareVars, poolVars, faults>>

\* journal.unknown: only PENDING rows; an error is dropped.  (Mutant: rejected ones too.)
MarkedRejected(S) ==
  [s \in Shares |-> IF s \in S /\ share[s] \in {"PENDING", "REJECTED"} THEN "UNKNOWN" ELSE share[s]]
Marked(S) == [s \in Shares |-> IF s \in S /\ share[s] = "PENDING" THEN "UNKNOWN" ELSE share[s]]

CloseUnknown ==
  /\ closing = "unknown"
  /\ \/ share' = Marked(snapshot) /\ UNCHANGED faults
     \/ Fault /\ UNCHANGED share
  /\ closing' = "clear"
  /\ UNCHANGED <<sessionVars, snapshot, timers, netVars, redisVars, row, resolutions, credited, poolVars>>

CloseClear ==
  /\ closing = "clear"
  /\ pending' = {}
  /\ closing' = "teardown"
  /\ UNCHANGED <<inbox, down, up, authorized, connectionId, upstream, snapshot, timers, netVars, redisVars,
                 row, shareVars, poolVars, faults>>

LeaseOrDone == IF authorized # None THEN "lease" ELSE "done"

\* After runtime.failure, for codes of the pool: the sockets are destroyed.
CloseTeardown ==
  /\ closing = "teardown"
  /\ ups' = ups \ {upstream}
  /\ socket' = FALSE
  /\ closing' = IF connectionId # None THEN "row" ELSE LeaseOrDone
  /\ UNCHANGED <<sessionVars, snapshot, timers, unsent, connects, traffic, redisVars, row, shareVars, poolVars,
                 faults>>

CloseRow ==
  /\ closing = "row"
  /\ \/ row' = [row EXCEPT ![connectionId] = "closed"] /\ UNCHANGED faults
     \/ Fault /\ UNCHANGED row
  /\ closing' = LeaseOrDone
  /\ UNCHANGED <<sessionVars, snapshot, timers, netVars, redisVars, shareVars, poolVars>>

\* connectionClosed.
CloseLease ==
  /\ closing = "lease"
  /\ \/ lease' = lease \ {authorized} /\ UNCHANGED faults
     \/ Fault /\ UNCHANGED lease
  /\ closing' = "done"
  /\ UNCHANGED <<sessionVars, snapshot, timers, netVars, row, shareVars, poolVars>>

CloseStep == CloseUnknown \/ CloseClear \/ CloseTeardown \/ CloseRow \/ CloseLease

-----------------------------------------------------------------------------
(* The miner's messages. *)

MinerSends(m) ==
  /\ socket /\ m \in unsent
  /\ unsent' = unsent \ {m}
  /\ inbox' = inbox \cup {m}
  /\ UNCHANGED <<down, up, pending, authorized, connectionId, upstream, closeVars, socket, ups, connects,
                 traffic, redisVars, row, shareVars, poolVars, faults>>

\* A handler that throws is a protocol error and closes the session.
Throws ==
  /\ Fault
  /\ down' = Idle
  /\ StartClose

\* authorize and login: authenticate is called.
Login(l) ==
  /\ down = Idle /\ l \in inbox
  /\ inbox' = inbox \ {l}
  /\ down' = [at |-> "auth", msg |-> l]
  /\ UNCHANGED <<up, pending, authorized, connectionId, upstream, closeVars, netVars, redisVars, row, shareVars,
                 poolVars, faults>>

\* What follows ensureUpstream and connectPool.
AfterUpstream(m) == [at |-> IF m \in Logins THEN "row" ELSE "send", msg |-> m]

\* ensureUpstream returns when there is an upstream, connectPool always opens one.
EnsureUpstream(m) ==
  IF traffic.protocol = "bitcoin" /\ upstream # 0 THEN AfterUpstream(m) ELSE [at |-> "connect", msg |-> m]

\* Other requests: mining.subscribe may be the first to need the pool,
\* keepalived is refused without it.
Request(m) ==
  /\ down = Idle /\ m \in inbox
  /\ inbox' = inbox \ {m}
  /\ down' = IF traffic.protocol = "bitcoin" THEN EnsureUpstream(m)
             ELSE IF upstream # 0 THEN AfterUpstream(m) ELSE Idle
  /\ UNCHANGED <<up, pending, authorized, connectionId, upstream, closeVars, netVars, redisVars, row, shareVars,
                 poolVars, faults>>

\* authenticate has reserved a lease; the heartbeat starts.
Authenticated ==
  /\ down.at = "auth"
  /\ lease' = lease \cup {down.msg}
  /\ authorized' = down.msg
  /\ timers' = timers + 1
  /\ down' = EnsureUpstream(down.msg)
  /\ UNCHANGED <<inbox, up, pending, connectionId, upstream, closing, snapshot, netVars, row, shareVars, poolVars,
                 faults>>

\* Wrong credentials, no policy, or no lease left.
LoginRefused ==
  /\ down.at = "auth"
  /\ down' = Idle
  /\ StartClose
  /\ UNCHANGED <<inbox, up, pending, authorized, connectionId, upstream, netVars, redisVars, row, shareVars,
                 poolVars, faults>>

\* connectUpstream succeeds; runtime.success is called.
Connected ==
  /\ down.at = "connect"
  /\ connects' = connects + 1
  /\ ups' = ups \cup {connects + 1}
  /\ upstream' = connects + 1
  /\ down' = [down EXCEPT !.at = "success"]
  /\ UNCHANGED <<inbox, up, pending, authorized, connectionId, closeVars, socket, unsent, traffic, redisVars, row,
                 shareVars, poolVars, faults>>

\* runtime.success; when it fails the next candidate is tried.
Success ==
  /\ down.at = "success"
  /\ \/ down' = AfterUpstream(down.msg) /\ UNCHANGED faults
     \/ Fault /\ down' = [down EXCEPT !.at = "connect"]
  /\ UNCHANGED <<inbox, up, pending, authorized, connectionId, upstream, closeVars, netVars, redisVars, row,
                 shareVars, poolVars>>

\* createConnection.
RowCreated ==
  /\ down.at = "row"
  /\ row' = [row EXCEPT ![down.msg] = "open"]
  /\ connectionId' = down.msg
  /\ down' = [down EXCEPT !.at = "seen"]
  /\ UNCHANGED <<inbox, up, pending, authorized, upstream, closeVars, netVars, redisVars, shareVars, poolVars, faults>>

\* forward: the request enters the map before it is written to the pool.
Forward(m) == pending' = pending \cup {m}

\* The request goes to the pool, a login after worker.update.
Forwarded ==
  /\ down.at \in {"seen", "send"}
  /\ Forward(down.msg)
  /\ down' = Idle
  /\ UNCHANGED <<inbox, up, authorized, connectionId, upstream, closeVars, netVars, redisVars, row, shareVars,
                 poolVars, faults>>

\* No candidate is left, or the database fails.
LoginFails ==
  /\ down.at \in {"connect", "row", "seen"}
  /\ Throws
  /\ UNCHANGED <<inbox, up, pending, authorized, connectionId, upstream, netVars, redisVars, row, shareVars,
                 poolVars>>

\* submit: before a login it is answered with an error.
Submit(s) ==
  /\ down = Idle /\ s \in inbox
  /\ inbox' = inbox \ {s}
  /\ down' = IF authorized # None /\ connectionId # None /\ upstream # 0
             THEN [at |-> "share", msg |-> s] ELSE Idle
  /\ UNCHANGED <<up, pending, authorized, connectionId, upstream, closeVars, netVars, redisVars, row, shareVars,
                 poolVars, faults>>

Inserted(s) == share' = [share EXCEPT ![s] = "PENDING"]

\* journal.pending, and the share goes to the pool if its socket is open.
ShareForwarded ==
  /\ down.at = "share"
  /\ Inserted(down.msg)
  /\ Forward(down.msg)
  /\ sent' = [sent EXCEPT ![down.msg] = IF upstream \in ups THEN upstream ELSE 0]
  /\ down' = Idle
  /\ UNCHANGED <<inbox, up, authorized, connectionId, upstream, closeVars, netVars, redisVars, row, resolutions,
                 credited, verdict, answers, told, faults>>

ShareFails ==
  /\ down.at = "share"
  /\ Throws
  /\ UNCHANGED <<inbox, up, pending, authorized, connectionId, upstream, netVars, redisVars, row, shareVars,
                 poolVars>>

-----------------------------------------------------------------------------
(* The pool and its answers. *)

PoolDecides(s) ==
  /\ sent[s] \in ups /\ verdict[s] = "none"
  /\ \E v \in {"ACCEPTED", "REJECTED"} : verdict' = [verdict EXCEPT ![s] = v]
  /\ answers' = answers \cup {s}
  /\ UNCHANGED <<sessionVars, closeVars, netVars, redisVars, row, shareVars, sent, told, faults>>

\* A pool may repeat itself.
PoolRepeats(s) ==
  /\ sent[s] \in ups /\ verdict[s] # "none" /\ Fault
  /\ answers' = answers \cup {s}
  /\ UNCHANGED <<sessionVars, closeVars, netVars, redisVars, row, shareVars, sent, verdict, told>>

\* Messages of one socket are handled one after the other.
HandlerFree(u) == \A a \in up : sent[a.share] # u

\* onUpstream: the request leaves the map before resolve is called; an answer
\* to nothing is dropped.  (Mutant: the request stays until it is resolved.)
TakenLate(s) == pending
Taken(s) == pending \ {s}
ShareAnswered(s) ==
  /\ s \in answers /\ HandlerFree(sent[s])
  /\ answers' = answers \ {s}
  /\ pending' = Taken(s)
  /\ up' = IF s \in pending THEN up \cup {[share |-> s, verdict |-> verdict[s]]} ELSE up
  /\ UNCHANGED <<inbox, down, authorized, connectionId, upstream, closeVars, netVars, redisVars, row, shareVars,
                 sent, verdict, told, faults>>

\* journal.resolve and the answer to the miner.  (Mutant: any answer is good.)
ResolveAccepted(a) == share' = [share EXCEPT ![a.share] = "ACCEPTED"]
Resolve(a) == share' = [share EXCEPT ![a.share] = a.verdict]
Resolved ==
  /\ \E a \in up :
       /\ share[a.share] # "PRUNED"
       /\ Resolve(a)
       /\ resolutions' = [resolutions EXCEPT ![a.share] = @ + 1]
       /\ told' = [told EXCEPT ![a.share] = IF socket THEN a.verdict ELSE @]
       /\ up' = up \ {a}
  /\ UNCHANGED <<inbox, down, pending, authorized, connectionId, upstream, closeVars, netVars, redisVars, row,
                 credited, sent, verdict, answers, faults>>

\* The database fails, or the row is gone: the session is closed.
ResolveFails ==
  /\ \E a \in up :
       /\ IF share[a.share] = "PRUNED" THEN UNCHANGED faults ELSE Fault
       /\ up' = up \ {a}
  /\ StartClose
  /\ UNCHANGED <<inbox, down, pending, authorized, connectionId, upstream, netVars, redisVars, row, shareVars,
                 poolVars>>

\* The answer to another request; the refusal of a login closes the session.
RequestAnswered(m) ==
  /\ m \in pending /\ upstream \in ups /\ HandlerFree(upstream)
  /\ pending' = pending \ {m}
  /\ (m \in Logins /\ StartClose) \/ UNCHANGED closeVars
  /\ UNCHANGED <<inbox, down, up, authorized, connectionId, upstream, netVars, redisVars, row, shareVars, poolVars,
                 faults>>

-----------------------------------------------------------------------------
(* Time, the other services, and failures of the process. *)

\* The heartbeat finds its lease gone.
HeartbeatFails ==
  /\ timers > 0 /\ authorized \notin lease
  /\ closing = "no"
  /\ StartClose
  /\ UNCHANGED <<sessionVars, netVars, redisVars, row, shareVars, poolVars, faults>>

\* A lease that no heartbeat renews.  (Mutant: leases without an expiry.)
LeaseStays(l) == FALSE
LeaseExpires(l) ==
  /\ l \in lease
  /\ l # authorized \/ timers = 0
  /\ lease' = lease \ {l}
  /\ UNCHANGED <<sessionVars, closeVars, netVars, row, shareVars, poolVars, faults>>

\* Redis loses a lease.
LeaseLost(l) ==
  /\ l \in lease /\ Fault
  /\ lease' = lease \ {l}
  /\ UNCHANGED <<sessionVars, closeVars, netVars, row, shareVars, poolVars>>

\* reconcilePending: rows that are PENDING for ten minutes.  (Mutant: only
\* those that did not reach the pool.)
StaleUnsent == {s \in Shares : share[s] = "PENDING" /\ sent[s] = 0}
Stale == {s \in Shares : share[s] = "PENDING"}
ReconcilePending ==
  /\ \E S \in SUBSET Stale : S # {} /\ share' = Marked(S)
  /\ UNCHANGED <<sessionVars, closeVars, netVars, redisVars, row, resolutions, credited, poolVars, faults>>

\* (Mutant: every row past the retention period.)
PrunableAny(s) == share[s] \notin {"none", "PENDING", "PRUNED"}
Prunable(s) == share[s] \in {"REJECTED", "UNKNOWN"} \/ (share[s] = "ACCEPTED" /\ s \in credited)
PruneRawShares(s) ==
  /\ Prunable(s)
  /\ share' = [share EXCEPT ![s] = "PRUNED"]
  /\ UNCHANGED <<sessionVars, closeVars, netVars, redisVars, row, resolutions, credited, poolVars, faults>>

\* allocateDeposit takes an accepted share into a batch.
Allocated(s) ==
  /\ share[s] = "ACCEPTED" /\ s \notin credited
  /\ credited' = credited \cup {s}
  /\ UNCHANGED <<sessionVars, closeVars, netVars, redisVars, row, share, resolutions, poolVars, faults>>

\* The process stops: everything in memory and all sockets are gone.
Crash ==
  /\ Fault
  /\ socket' = FALSE /\ unsent' = {} /\ inbox' = {}
  /\ down' = Idle /\ up' = {} /\ pending' = {}
  /\ authorized' = None /\ connectionId' = None /\ upstream' = 0
  /\ closing' = "done" /\ snapshot' = {} /\ timers' = 0 /\ ups' = {}
  /\ answers' = {}
  /\ UNCHANGED <<connects, traffic, redisVars, row, shareVars, sent, verdict, told>>

DownStep ==
  \/ Authenticated \/ LoginRefused \/ Connected \/ Success \/ RowCreated \/ Forwarded \/ LoginFails
  \/ ShareForwarded \/ ShareFails
  \/ \E l \in Logins : Login(l)
  \/ \E s \in Shares : Submit(s)
  \/ \E m \in Requests : Request(m)

Next ==
  \/ Close \/ CloseStep \/ DownStep
  \/ \E m \in Messages : MinerSends(m)
  \/ \E s \in Shares : PoolDecides(s) \/ PoolRepeats(s) \/ ShareAnswered(s) \/ PruneRawShares(s) \/ Allocated(s)
  \/ \E u \in ups : UpstreamFailed(u)
  \/ Resolved \/ ResolveFails \/ ReconcilePending \/ HeartbeatFails \/ Crash
  \/ \E m \in Logins \cup Requests : RequestAnswered(m)
  \/ \E l \in Logins : LeaseExpires(l) \/ LeaseLost(l)

Spec == Init /\ [][Next]_vars

\* Awaited calls end, time passes, and the hourly job runs.
FairSpec ==
  /\ Spec
  /\ WF_vars(CloseStep) /\ WF_vars(DownStep) /\ WF_vars(ReconcilePending)
  /\ \A l \in Logins : WF_vars(LeaseExpires(l))

-----------------------------------------------------------------------------
(* Properties. *)

ShareStatus == {"none", "PENDING", "ACCEPTED", "REJECTED", "UNKNOWN", "PRUNED"}
Verdict == {"none", "ACCEPTED", "REJECTED"}

TypeOK ==
  /\ traffic \in Traffic
  /\ socket \in BOOLEAN /\ inbox \subseteq Messages /\ unsent \subseteq Messages
  /\ down \in [at: {"idle", "auth", "connect", "success", "row", "seen", "send", "share"}, msg: Messages \cup {None}]
  /\ down.at \in {"auth", "row", "seen"} => down.msg \in Logins
  /\ down.at = "share" => down.msg \in Shares
  /\ up \subseteq [share: Shares, verdict: {"ACCEPTED", "REJECTED"}]
  /\ pending \subseteq Messages
  /\ authorized \in Logins \cup {None} /\ connectionId \in Logins \cup {None}
  /\ upstream \in 0..connects /\ ups \subseteq 1..connects
  /\ closing \in {"no", "unknown", "clear", "teardown", "row", "lease", "done"}
  /\ snapshot \subseteq Shares /\ timers \in Nat /\ connects \in Nat
  /\ lease \subseteq Logins /\ row \in [Logins -> {"none", "open", "closed"}]
  /\ share \in [Shares -> ShareStatus] /\ resolutions \in [Shares -> Nat] /\ credited \subseteq Shares
  /\ sent \in [Shares -> Nat] /\ verdict \in [Shares -> Verdict]
  /\ answers \subseteq Shares /\ told \in [Shares -> Verdict]
  /\ faults \in Nat

\* "The gateway never fabricates an accepted share": what the journal calls
\* accepted or rejected is what the pool decided, whatever close(), late
\* answers, the hourly job and crashes do in between.
NeverFabricated == \A s \in Shares : share[s] \in {"ACCEPTED", "REJECTED"} => verdict[s] = share[s]

\* "A share is inserted as PENDING before upstream submission."
JournaledBeforeForwarded == \A s \in Shares : sent[s] # 0 => share[s] # "none"

\* A share the miner was told is accepted is in the journal as accepted work
\* until a deposit has paid for it.
ToldIsKept == \A s \in Shares : told[s] = "ACCEPTED" => share[s] = "ACCEPTED" \/ s \in credited

\* A share is resolved once, so the counters of its connection are right.
ResolvedOnce == \A s \in Shares : resolutions[s] <= 1

\* The life of a share in one invariant: rows are well formed, a share is in the
\* journal before it is forwarded, it is resolved once, and accepted work that a
\* miner was told of is kept until it is paid for.
ShareLifecycle == TypeOK /\ JournaledBeforeForwarded /\ ResolvedOnce /\ ToldIsKept

\* What is resolved stays so until it is pruned: neither close() nor the
\* hourly job turns it into UNKNOWN, and accepted work is pruned only after a
\* deposit has paid for it.
ResolutionIsFinal ==
  [][\A s \in Shares :
       /\ share[s] = "REJECTED" => share'[s] \in {"REJECTED", "PRUNED"}
       /\ share[s] = "ACCEPTED" => \/ share'[s] = "ACCEPTED"
                                   \/ share'[s] = "PRUNED" /\ s \in credited]_vars

\* Every share leaves PENDING: the pool answers, close() or the hourly job
\* marks it.
EveryShareSettles == \A s \in Shares : share[s] = "PENDING" ~> share[s] # "PENDING"

\* A session that closes when its logins were complete (no heartbeat is left, no
\* login is under way) gives its leases and its pool connection back, also when
\* calls of close() fail.
LoginsAreDone == down = Idle /\ (inbox \cup unsent) \cap Logins = {} /\ timers = 0
ClosedIsReleased ==
  closing = "unknown" /\ connectionId # None /\ LoginsAreDone ~> lease = {} /\ upstream \notin ups

\* "... reserves a bounded, expiring lease": the lease of a session that has
\* ended is released or expires.
LeaseOfClosedEnds == \A l \in Logins : closing = "done" /\ l \in lease ~> l \notin lease

\* "Each downstream miner gets a dedicated upstream TCP/TLS connection": one,
\* and only while the miner is there.
DedicatedUpstream == Cardinality(ups) <= 1 /\ (closing = "done" => ups = {})
=============================================================================
