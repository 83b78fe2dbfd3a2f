--------------------------- MODULE CustomerAccess ---------------------------
(***************************************************************************)
(* The secrets that a customer is given: the tokens of a worker            *)
(* (createWorker, rotateCredential and revokeCredential of                 *)
(* customers.service.ts) and the access code of the portal                 *)
(* (rotatePortalAccess, and authenticate of public-portal.service.ts).     *)
(*                                                                         *)
(* Secrets are numbered as they are made and known by their number.        *)
(***************************************************************************)
EXTENDS Naturals

CONSTANTS
  Admins,      \* requests of administrators that may overlap
  Visitors,    \* calls of the portal
  Grace,       \* graceMinutes
  PortalLimit, \* portal requests of an address in a minute
  Never,       \* expiresAt: null
  MaxSecrets,  \* bound on the tokens, and on the access codes
  MaxTime,     \* bound on the clock
  MaxCalls     \* bound on the portal's calls

Secrets == 1..MaxSecrets

VARIABLES
  now,
  token,      \* rows of WorkerCredential: [expires, revoked]
  rotation,   \* of an administrator: [step, expires, seen]
  replaced,   \* when a token was first replaced by a rotation (history)
  code,       \* the row of CustomerPortalCredential
  issued,     \* access codes made so far (history)
  attempts,   \* portal:attempt:<ip>
  ttl,        \* whether that key expires
  visit,      \* of a portal call: [step, code, old]
  calls       \* portal calls so far

workerVars == <<token, rotation, replaced>>
portalVars == <<code, issued, attempts, ttl, visit, calls>>
vars == <<now, workerVars, portalVars>>

NoRotation == [step |-> "idle", expires |-> Never, seen |-> {}]
NoVisit == [step |-> "idle", code |-> 0, old |-> FALSE]
Tokens == DOMAIN token
Unissued == Secrets \ Tokens

\* createWorker has made the first token, and there is no access code yet.
Init ==
  /\ now = 0
  /\ token = [c \in {1} |-> [expires |-> Never, revoked |-> FALSE]]
  /\ rotation = [a \in Admins |-> NoRotation]
  /\ replaced = [c \in Secrets |-> Never]
  /\ code = 0 /\ issued = 0 /\ attempts = 0 /\ ttl = FALSE
  /\ visit = [v \in Visitors |-> NoVisit] /\ calls = 0

Tick ==
  /\ now < MaxTime
  /\ now' = now + 1
  /\ UNCHANGED <<workerVars, portalVars>>

-----------------------------------------------------------------------------
(* Tokens of a worker *)

\* What findActiveWorker takes for a login.
Usable(c) == ~token[c].revoked /\ (token[c].expires = Never \/ token[c].expires > now)

\* The end of the grace period is computed, and updateMany finds the tokens that
\* it is for.  (Mutant: those that have an end already get a new one.)
LastingAny == {c \in Tokens : ~token[c].revoked}
Lasting == {c \in Tokens : ~token[c].revoked /\ token[c].expires = Never}

RotateCredential(a) ==
  /\ rotation[a].step = "idle"
  /\ rotation' = [rotation EXCEPT ![a] = [step |-> "update", expires |-> now + Grace, seen |-> Lasting]]
  /\ UNCHANGED <<now, token, replaced, portalVars>>

\* The transaction, which looks again at rows that it had to wait for.
RotationCommits(a) ==
  /\ rotation[a].step = "update"
  /\ \E new \in Unissued :
       /\ \A c \in Unissued : new <= c
       /\ token' = [c \in Tokens \cup {new} |->
                      IF c = new THEN [expires |-> Never, revoked |-> FALSE]
                      ELSE IF c \in rotation[a].seen \cap Lasting THEN [token[c] EXCEPT !.expires = rotation[a].expires]
                      ELSE token[c]]
  /\ replaced' = [c \in Secrets |-> IF c \in rotation[a].seen /\ replaced[c] = Never THEN now ELSE replaced[c]]
  /\ rotation' = [rotation EXCEPT ![a] = NoRotation]
  /\ UNCHANGED <<now, portalVars>>

\* A call fails, and with it the transaction.
RotationFails(a) ==
  /\ rotation[a].step = "update"
  /\ rotation' = [rotation EXCEPT ![a] = NoRotation]
  /\ UNCHANGED <<now, token, replaced, portalVars>>

RevokeCredential(c) ==
  /\ c \in Tokens
  /\ token' = [token EXCEPT ![c].revoked = TRUE]
  /\ UNCHANGED <<now, rotation, replaced, portalVars>>

-----------------------------------------------------------------------------
(* The portal *)

\* The customer's one row is written over.  (Mutant: only created.)
UpsertedOnce == IF code = 0 THEN issued + 1 ELSE code
Upserted == issued + 1
RotatePortalAccess ==
  /\ issued < MaxSecrets
  /\ issued' = issued + 1
  /\ code' = Upserted
  /\ UNCHANGED <<now, workerVars, attempts, ttl, visit, calls>>

Visit(v, step) == visit' = [visit EXCEPT ![v].step = step]

\* A call with an access code that was issued at some time: INCR.
PortalCall(v, c) ==
  /\ visit[v].step = "idle" /\ calls < MaxCalls
  /\ calls' = calls + 1
  /\ attempts' = attempts + 1
  /\ visit' = [visit EXCEPT ![v] = [step |-> IF attempts = 0 THEN "expire"
                                             ELSE IF attempts < PortalLimit THEN "find" ELSE "idle",
                                    code |-> c, old |-> c # issued]]
  /\ UNCHANGED <<now, workerVars, code, issued, ttl>>

PortalExpire(v) ==
  /\ visit[v].step = "expire"
  /\ ttl' = (attempts > 0)
  /\ Visit(v, "find")
  /\ UNCHANGED <<now, workerVars, code, issued, attempts, calls>>

\* authenticate finds the row and verifies the code.
PortalAuthenticate(v) ==
  /\ visit[v].step = "find"
  /\ Visit(v, IF code # 0 /\ visit[v].code = code THEN "in" ELSE "idle")
  /\ UNCHANGED <<now, workerVars, code, issued, attempts, ttl, calls>>

\* The answer is sent, or a call fails.
PortalEnds(v) ==
  /\ visit[v].step # "idle"
  /\ Visit(v, "idle")
  /\ UNCHANGED <<now, workerVars, code, issued, attempts, ttl, calls>>

MinuteEnds ==
  /\ ttl
  /\ attempts' = 0 /\ ttl' = FALSE
  /\ UNCHANGED <<now, workerVars, code, issued, visit, calls>>

WorkerNext ==
  \/ Tick
  \/ \E a \in Admins : RotateCredential(a) \/ RotationCommits(a) \/ RotationFails(a)
  \/ \E c \in Secrets : RevokeCredential(c)

PortalNext ==
  \/ RotatePortalAccess \/ MinuteEnds
  \/ \E v \in Visitors : \/ \E c \in 1..issued : PortalCall(v, c)
                         \/ PortalExpire(v) \/ PortalAuthenticate(v) \/ PortalEnds(v)

Next == WorkerNext \/ PortalNext

-----------------------------------------------------------------------------
\* "Rotation overlaps for a bounded grace period": a token that was replaced is
\* of no use Grace later, however many rotations follow.
GraceIsBounded ==
  \A c \in Tokens : replaced[c] # Never /\ now >= replaced[c] + Grace => ~Usable(c)

\* A rotation, however it overlaps others or fails, leaves the worker a token.
NeverLockedOut == (\E c \in Tokens : Usable(c)) \/ (\E c \in Tokens : token[c].revoked)

\* An access code that was replaced before a call of the portal began does not
\* open the portal.
OldCodesEnd == \A v \in Visitors : visit[v].step = "in" => ~visit[v].old

\* Not kept: rotations that overlap do not see each other's tokens.
OneLasts == \A c, d \in Lasting : c = d
=============================================================================
