---------------------------- MODULE AutoProvision ----------------------------
(***************************************************************************)
(* How a miner proves who it is with GATEWAY_AUTO_PROVISION_ENABLED:       *)
(* authenticate up to finalize, and autoProvision, of                      *)
(* gateway-auth.service.ts, for one asset.                                 *)
(*                                                                         *)
(* A user name is looked up as it is sent, and a new identity is stored    *)
(* under the sanitized name.  Names that are too short get a random suffix.*)
(***************************************************************************)
EXTENDS Naturals

CONSTANTS
  Miners,      \* logins
  Ips, IpOf,   \* remote address of a login
  Names,       \* customer.worker names, as sent or as stored
  CustomerOf,  \* customer of a name
  NameOf,      \* user name of a login
  Password,    \* password of a login
  SlugsOf,     \* names under which sanitize may store a user name
  Disableable, \* (bound) workers and customers whose status changes
  Limit,       \* GATEWAY_AUTO_PROVISION_MAX_PER_IP_PER_HOUR
  None

VARIABLES
  worker,    \* password that protects an identity, or None
  disabled,  \* workers and customers that an administrator has disabled
  attempts,  \* gateway:autoprovision:<ip>
  ttl,       \* whether that key expires
  step,      \* of a login: idle, find, incr, expire or create
  result,    \* none, ok or refused
  identity   \* identity that a login was let in as, or None

vars == <<worker, disabled, attempts, ttl, step, result, identity>>

Init ==
  /\ worker = [n \in Names |-> None] /\ disabled = {}
  /\ attempts = [i \in Ips |-> 0] /\ ttl = [i \in Ips |-> FALSE]
  /\ step = [m \in Miners |-> "idle"]
  /\ result = [m \in Miners |-> "none"]
  /\ identity = [m \in Miners |-> None]

\* authenticate begins and parses the user name.
Authenticate(m) ==
  /\ step' = [step EXCEPT ![m] = "find"]
  /\ UNCHANGED <<worker, disabled, attempts, ttl, result, identity>>

Goto(m, s) == step' = [step EXCEPT ![m] = s] /\ UNCHANGED result

Ends(m, r) ==
  /\ step' = [step EXCEPT ![m] = "idle"]
  /\ result' = [result EXCEPT ![m] = r]

\* findActiveWorker finds none: worker and customer must be active.
Unknown(n) == worker[n] = None \/ n \in disabled \/ CustomerOf[n] \in disabled

\* verifySecret of the credential.
Verified(m) == worker[NameOf[m]] = Password[m]

FindActiveWorker(m) ==
  /\ step[m] = "find"
  /\ IF Unknown(NameOf[m]) THEN Goto(m, "incr") /\ UNCHANGED identity
     ELSE IF Verified(m) THEN Ends(m, "ok") /\ identity' = [identity EXCEPT ![m] = NameOf[m]]
     ELSE Ends(m, "refused") /\ UNCHANGED identity
  /\ UNCHANGED <<worker, disabled, attempts, ttl>>

\* autoProvisionRateOk: INCR, and EXPIRE for the first one.
Incr(m) ==
  LET i == IpOf[m] IN
  /\ step[m] = "incr"
  /\ attempts' = [attempts EXCEPT ![i] = @ + 1]
  /\ IF attempts[i] = 0 THEN Goto(m, "expire")
     ELSE IF attempts[i] < Limit THEN Goto(m, "create")
     ELSE Ends(m, "refused")
  /\ UNCHANGED <<worker, disabled, ttl, identity>>

SetExpiry(m) ==
  /\ step[m] = "expire"
  /\ ttl' = [ttl EXCEPT ![IpOf[m]] = attempts[IpOf[m]] > 0]
  /\ IF 1 <= Limit THEN Goto(m, "create") ELSE Ends(m, "refused")
  /\ UNCHANGED <<worker, disabled, attempts, identity>>

\* The hour is over.
WindowEnds(i) ==
  /\ ttl[i]
  /\ attempts' = [attempts EXCEPT ![i] = 0] /\ ttl' = [ttl EXCEPT ![i] = FALSE]
  /\ UNCHANGED <<worker, disabled, step, result, identity>>

\* The transaction of autoProvision.  A worker that exists, disabled or not, is
\* denied, by a test or by the unique constraint, and so is a customer that is
\* disabled.  The audit record that follows may fail when the worker is stored.
\* (Mutant: a worker that exists is claimed again.)
DeniedNever(slug) == CustomerOf[slug] \in disabled
Denied(slug) == worker[slug] # None \/ CustomerOf[slug] \in disabled

Provision(m, slug) ==
  /\ step[m] = "create" /\ slug \in SlugsOf[NameOf[m]]
  /\ \/ /\ Denied(slug)
        /\ Ends(m, "refused") /\ UNCHANGED <<worker, identity>>
     \/ /\ ~Denied(slug)
        /\ worker' = [worker EXCEPT ![slug] = Password[m]]
        /\ \/ Ends(m, "ok") /\ identity' = [identity EXCEPT ![m] = slug]
           \/ Ends(m, "refused") /\ UNCHANGED identity
  /\ UNCHANGED <<disabled, attempts, ttl>>

\* The address is not among the worker's, a call of the database or of Redis
\* fails, or another login creates the same customer first.
LoginFails(m) ==
  /\ step[m] # "idle"
  /\ Ends(m, "refused")
  /\ UNCHANGED <<worker, disabled, attempts, ttl, identity>>

\* setStatus of a worker, or of a customer.
SetStatus(x) ==
  /\ \E n \in Names : worker[n] # None /\ x \in {n, CustomerOf[n]}
  /\ disabled' = IF x \in disabled THEN disabled \ {x} ELSE disabled \cup {x}
  /\ UNCHANGED <<worker, attempts, ttl, step, result, identity>>

Next ==
  \/ \E m \in Miners : \/ FindActiveWorker(m) \/ Incr(m) \/ SetExpiry(m) \/ LoginFails(m)
                       \/ \E slug \in Names : Provision(m, slug)
  \/ \E x \in Disableable : SetStatus(x)
  \/ \E i \in Ips : WindowEnds(i)

-----------------------------------------------------------------------------
TypeOK ==
  /\ worker \in [Names -> {Password[m] : m \in Miners} \cup {None}]
  /\ disabled \subseteq Names \cup {CustomerOf[n] : n \in Names}
  /\ attempts \in [Ips -> Nat] /\ ttl \in [Ips -> BOOLEAN]
  /\ step \in [Miners -> {"idle", "find", "incr", "expire", "create"}]
  /\ result \in [Miners -> {"none", "ok", "refused"}]
  /\ identity \in [Miners -> Names \cup {None}]

\* "the identity is then protected by that same password for all later
\* connections": whoever was let in under an identity has its password, also
\* when several miners claim it at once.
ProtectedByPassword == \A m \in Miners : identity[m] # None => worker[identity[m]] = Password[m]

\* "MAX_PER_IP_PER_HOUR": a counter that has begun will end.
CounterHasEnd == \A i \in Ips : attempts[i] > 0 => ttl[i] \/ \E m \in Miners : IpOf[m] = i /\ step[m] = "expire"
=============================================================================
