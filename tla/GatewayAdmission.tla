-------------------------- MODULE GatewayAdmission --------------------------
(***************************************************************************)
(* Which miners may connect: the socket limits of gateway.service.ts       *)
(* (accept) and the leases of one worker in gateway-auth.service.ts.       *)
(*                                                                         *)
(* A socket's events and the end of authenticate, which it waits for, come *)
(* in any order: a login may end when its socket is gone.                  *)
(***************************************************************************)
EXTENDS Integers, FiniteSets

CONSTANTS
  Sockets,             \* connections that miners open
  Ips,
  IpOf,                \* remote address of a socket
  MaxConnections,      \* GATEWAY_MAX_CONNECTIONS
  MaxPerIp,            \* GATEWAY_MAX_CONNECTIONS_PER_IP
  MaxUnauthenticated,  \* GATEWAY_MAX_UNAUTHENTICATED_PER_IP
  MaxLeases            \* worker.maxConnections

ASSUME AdmissionAssumption ==
  /\ IsFiniteSet(Sockets) /\ IpOf \in [Sockets -> Ips]
  /\ MaxConnections \in Nat /\ MaxPerIp \in Nat /\ MaxUnauthenticated \in Nat /\ MaxLeases \in Nat

VARIABLES
  conn,                 \* "none", "refused", "open" or "closed"
  login,                \* "no", "checking", "leased", "authorized", "late" or "refused"
  authenticated,        \* the flag of a socket's handlers
  activeSockets,
  socketsByIp,
  unauthenticatedByIp,
  lease,                \* members of gateway:connections:<worker>
  expired               \* those with a score in the past

countVars == <<activeSockets, socketsByIp, unauthenticatedByIp>>
vars == <<conn, login, authenticated, countVars, lease, expired>>

Init ==
  /\ conn = [s \in Sockets |-> "none"]
  /\ login = [s \in Sockets |-> "no"]
  /\ authenticated = [s \in Sockets |-> FALSE]
  /\ activeSockets = 0
  /\ socketsByIp = [i \in Ips |-> 0]
  /\ unauthenticatedByIp = [i \in Ips |-> 0]
  /\ lease = {} /\ expired = {}

\* decrementIpCounter; a counter without an entry is 0 and stays so.
Decremented(counter, i) == [counter EXCEPT ![i] = IF @ > 0 THEN @ - 1 ELSE 0]

\* (Mutant: one more than the limit.)
AdmittedOver(i) ==
  /\ activeSockets <= MaxConnections
  /\ socketsByIp[i] <= MaxPerIp
  /\ unauthenticatedByIp[i] < MaxUnauthenticated
Admitted(i) ==
  /\ activeSockets < MaxConnections
  /\ socketsByIp[i] < MaxPerIp
  /\ unauthenticatedByIp[i] < MaxUnauthenticated

Accept(s) ==
  /\ conn[s] = "none"
  /\ Admitted(IpOf[s])
  /\ conn' = [conn EXCEPT ![s] = "open"]
  /\ activeSockets' = activeSockets + 1
  /\ socketsByIp' = [socketsByIp EXCEPT ![IpOf[s]] = @ + 1]
  /\ unauthenticatedByIp' = [unauthenticatedByIp EXCEPT ![IpOf[s]] = @ + 1]
  /\ UNCHANGED <<login, authenticated, lease, expired>>

Refuse(s) ==
  /\ conn[s] = "none"
  /\ ~Admitted(IpOf[s])
  /\ conn' = [conn EXCEPT ![s] = "refused"]
  /\ UNCHANGED <<login, authenticated, countVars, lease, expired>>

\* authenticate begins.
Login(s) ==
  /\ conn[s] = "open" /\ login[s] = "no"
  /\ login' = [login EXCEPT ![s] = "checking"]
  /\ UNCHANGED <<conn, authenticated, countVars, lease, expired>>

\* finalize: what has expired is removed, then the limit is tested.
\* (Mutant: the test comes one too late.)
LeaseFreeOver == Cardinality(lease \ expired) <= MaxLeases
LeaseFree == Cardinality(lease \ expired) < MaxLeases

Reserve(s) ==
  /\ login[s] = "checking"
  /\ LeaseFree
  /\ lease' = (lease \ expired) \cup {s} /\ expired' = {}
  /\ login' = [login EXCEPT ![s] = "leased"]
  /\ UNCHANGED <<conn, authenticated, countVars>>

\* finalize of another worker, which has its own leases.
ReserveOther(s) ==
  /\ login[s] = "checking"
  /\ login' = [login EXCEPT ![s] = "leased"]
  /\ UNCHANGED <<conn, authenticated, countVars, lease, expired>>

\* (Mutant: a login does not reach the handlers of the socket.)
AuthorizedUnheard(s) == UNCHANGED <<authenticated, unauthenticatedByIp>>
\* The event 'gateway:authorized', which a closed socket still handles.
Authorized(s) ==
  /\ authenticated' = [authenticated EXCEPT ![s] = TRUE]
  /\ unauthenticatedByIp' = Decremented(unauthenticatedByIp, IpOf[s])

\* The session goes on with the answer; it may be closed by then ("late").
LoginAccepted(s) ==
  /\ login[s] = "leased"
  /\ login' = [login EXCEPT ![s] = IF conn[s] = "open" THEN "authorized" ELSE "late"]
  /\ Authorized(s)
  /\ UNCHANGED <<conn, activeSockets, socketsByIp, lease, expired>>

\* Bad credentials end before finalize, a full worker after its first call.
LoginRefused(s) ==
  /\ login[s] = "checking"
  /\ login' = [login EXCEPT ![s] = "refused"]
  /\ \/ UNCHANGED <<lease, expired>>
     \/ ~LeaseFree /\ lease' = lease \ expired /\ expired' = {}
  /\ UNCHANGED <<conn, authenticated, countVars>>

\* The socket's 'close'.
SocketClosed(s) ==
  /\ conn[s] = "open"
  /\ conn' = [conn EXCEPT ![s] = "closed"]
  /\ activeSockets' = IF activeSockets > 0 THEN activeSockets - 1 ELSE 0
  /\ socketsByIp' = Decremented(socketsByIp, IpOf[s])
  /\ unauthenticatedByIp' = IF authenticated[s] THEN unauthenticatedByIp
                            ELSE Decremented(unauthenticatedByIp, IpOf[s])
  /\ UNCHANGED <<login, authenticated, lease, expired>>

\* connectionClosed, called by the close() of a session that knows its lease.
ConnectionClosed(s) ==
  /\ login[s] = "authorized" /\ s \in lease
  /\ lease' = lease \ {s} /\ expired' = expired \ {s}
  /\ UNCHANGED <<conn, login, authenticated, countVars>>

\* renewConnection: a member of the set gets a new score, even a late one.
RenewConnection(s) ==
  /\ login[s] \in {"authorized", "late"} /\ s \in lease
  /\ expired' = expired \ {s}
  /\ UNCHANGED <<conn, login, authenticated, countVars, lease>>

\* Three minutes without a heartbeat.
Expire(s) ==
  /\ s \in lease \ expired
  /\ expired' = expired \cup {s}
  /\ UNCHANGED <<conn, login, authenticated, countVars, lease>>

Next ==
  \E s \in Sockets :
    \/ Accept(s) \/ Refuse(s) \/ Login(s) \/ Reserve(s) \/ ReserveOther(s) \/ LoginAccepted(s)
    \/ LoginRefused(s) \/ SocketClosed(s) \/ ConnectionClosed(s) \/ RenewConnection(s) \/ Expire(s)

Spec == Init /\ [][Next]_vars

-----------------------------------------------------------------------------
Open == {s \in Sockets : conn[s] = "open"}
OpenFrom(i) == {s \in Open : IpOf[s] = i}
Unauthenticated(i) == {s \in OpenFrom(i) : login[s] # "authorized"}

TypeOK ==
  /\ conn \in [Sockets -> {"none", "refused", "open", "closed"}]
  /\ login \in [Sockets -> {"no", "checking", "leased", "authorized", "late", "refused"}]
  /\ authenticated \in [Sockets -> BOOLEAN]
  /\ activeSockets \in Nat /\ socketsByIp \in [Ips -> Nat] /\ unauthenticatedByIp \in [Ips -> Nat]
  /\ lease \subseteq Sockets /\ expired \subseteq lease

\* accept counts open sockets exactly, in all and by address, so its two limits
\* hold of the sockets themselves.
OpenWithinLimits ==
  /\ activeSockets = Cardinality(Open) /\ Cardinality(Open) <= MaxConnections
  /\ \A i \in Ips : /\ socketsByIp[i] = Cardinality(OpenFrom(i))
                    /\ Cardinality(OpenFrom(i)) <= MaxPerIp

\* The count of unauthenticated sockets is never too high: an address is not
\* shut out when its sockets have logged in or are gone.
NeverShutOut == \A i \in Ips : unauthenticatedByIp[i] <= Cardinality(Unauthenticated(i))

\* The Lua script of finalize keeps a worker within its connections, however
\* expiries, late heartbeats and releases interleave.
LeasesWithinLimit == Cardinality(lease) <= MaxLeases

\* The limits of accept and of finalize hold together.
WithinLimits == OpenWithinLimits /\ LeasesWithinLimit

\* "rejects excess unauthenticated sockets from one IP"
UnauthenticatedWithinLimit == \A i \in Ips : Cardinality(Unauthenticated(i)) <= MaxUnauthenticated
=============================================================================
