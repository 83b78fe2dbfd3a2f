---------------------------- MODULE GatewayAccess ----------------------------
(***************************************************************************)
(* The way of a miner into the gateway: accept admits its socket,          *)
(* authenticate finds or creates its identity (AutoProvision), finalize    *)
(* reserves a lease of its worker, and the socket's handlers hear of it    *)
(* (GatewayAdmission, whose leases are those of one worker).               *)
(***************************************************************************)
EXTENDS GatewayAdmission

CONSTANTS
  Names, CustomerOf, NameOf, Password, SlugsOf, Disableable, Limit, None, \* see AutoProvision
  Worker  \* the worker with the leases

ASSUME AccessAssumption ==
  /\ \A s \in Sockets : NameOf[s] \in Names /\ Password[s] # None
  /\ Worker \in Names /\ None \notin Names
  /\ Limit \in Nat

VARIABLES worker, disabled, attempts, ttl, step, result, identity

provisionVars == <<worker, disabled, attempts, ttl, step, result, identity>>

Provisioning == INSTANCE AutoProvision WITH Miners <- Sockets

AccessInit == Init /\ Provisioning!Init

AccessLogin(s) == Login(s) /\ Provisioning!Authenticate(s)

\* finalize is reached by those who were let in.
Finalize(s) ==
  /\ result[s] = "ok"
  /\ IF identity[s] = Worker THEN Reserve(s) ELSE ReserveOther(s)

\* A refusal before finalize touches no lease.
AccessRefused(s) ==
  /\ LoginRefused(s)
  /\ \/ result[s] = "refused" /\ UNCHANGED <<lease, expired>>
     \/ result[s] = "ok" /\ (identity[s] # Worker => UNCHANGED <<lease, expired>>)

AccessNext ==
  \/ \E s \in Sockets :
       \/ AccessLogin(s)
       \/ /\ \/ Finalize(s) \/ AccessRefused(s) \/ Accept(s) \/ Refuse(s) \/ LoginAccepted(s)
             \/ SocketClosed(s) \/ ConnectionClosed(s) \/ RenewConnection(s) \/ Expire(s)
          /\ UNCHANGED provisionVars
  \/ Provisioning!Next /\ UNCHANGED vars

AccessSpec == AccessInit /\ [][AccessNext]_<<vars, provisionVars>>

-----------------------------------------------------------------------------
\* "the identity is then protected by that same password for all later
\* connections": a socket that is authorized, or holds a lease, proved the
\* password of the identity it mines for, also when several miners claim a new
\* identity at once; and the records of logins are well formed.
ProtectedByPassword ==
  /\ Provisioning!TypeOK /\ Provisioning!ProtectedByPassword
  /\ \A s \in Sockets : login[s] \in {"leased", "authorized", "late"} => identity[s] # None
  /\ \A s \in lease : Password[s] = worker[Worker]
=============================================================================
