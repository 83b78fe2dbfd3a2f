------------------------- MODULE PayoutDestinations -------------------------
(***************************************************************************)
(* The payout addresses of one customer and asset: createDestination and   *)
(* activateDueDestinations of customers.service.ts, and requestDestination *)
(* of the customer portal.                                                 *)
(*                                                                         *)
(* Every plan() activates what is due, and an administrator may plan while *)
(* the scheduler does.  A transaction of an activation runs at READ        *)
(* COMMITTED: its first UPDATE sees the rows that are ACTIVE when it       *)
(* begins, waits for those that another transaction holds, and skips them  *)
(* if they are no longer ACTIVE then.                                      *)
(***************************************************************************)
EXTENDS Naturals, Sequences, FiniteSets

CONSTANTS
  Dests,    \* rows of PayoutDestination
  Runs,     \* concurrent calls of activateDueDestinations
  Portal,   \* whether the customer uses the portal
  NoDest

ASSUME DestinationAssumption == IsFiniteSet(Dests) /\ NoDest \notin Dests /\ Portal \in BOOLEAN

VARIABLES
  status,   \* "none", PENDING, ACTIVE or REVOKED: what is committed
  order,    \* destinations in the order in which they were requested
  cooled,   \* those whose effectiveAt has come
  run,      \* of an activation: step, due (left to do), dest, seen and held (rows)
  raced     \* whether two activations have overlapped (history)

vars == <<status, order, cooled, run, raced>>

Idle == [step |-> "idle", due |-> {}, dest |-> NoDest, seen |-> {}, held |-> {}]
WithStatus(st) == {d \in Dests : status[d] = st}

Init ==
  /\ status = [d \in Dests |-> "none"]
  /\ order = <<>> /\ cooled = {}
  /\ run = [r \in Runs |-> Idle]
  /\ raced = FALSE

\* createDestination of the administrator: earlier requests stay.
CreateDestination(d) ==
  /\ status[d] = "none"
  /\ status' = [status EXCEPT ![d] = "PENDING"]
  /\ order' = Append(order, d)
  /\ UNCHANGED <<cooled, run, raced>>

\* requestDestination of the portal replaces what is PENDING.
RequestDestination(d) ==
  /\ Portal /\ status[d] = "none"
  /\ status' = [e \in Dests |-> CASE e = d -> "PENDING"
                                  [] e # d /\ status[e] = "PENDING" -> "REVOKED"
                                  [] OTHER -> status[e]]
  /\ order' = Append(order, d)
  /\ UNCHANGED <<cooled, run, raced>>

\* A day has passed since the request.
Cool(d) ==
  /\ \E i \in 1..Len(order) : order[i] = d /\ \A j \in 1..(i - 1) : order[j] \in cooled
  /\ d \notin cooled
  /\ cooled' = cooled \cup {d}
  /\ UNCHANGED <<status, order, run, raced>>

\* (Mutant: what waits is due at once.)
DueAny == WithStatus("PENDING")
Due == WithStatus("PENDING") \cap cooled

FindDue(r) ==
  /\ run[r].step = "idle" /\ Due # {}
  /\ run' = [run EXCEPT ![r] = [Idle EXCEPT !.step = "loop", !.due = Due]]
  /\ raced' = (raced \/ \E q \in Runs : run[q].step # "idle")
  /\ UNCHANGED <<status, order, cooled>>

\* The UPDATE of the ACTIVE rows begins.
Seen == WithStatus("ACTIVE")

BeginTransaction(r, d) ==
  /\ run[r].step = "loop" /\ d \in run[r].due
  /\ run' = [run EXCEPT ![r].step = "update", ![r].due = @ \ {d}, ![r].dest = d, ![r].seen = Seen]
  /\ UNCHANGED <<status, order, cooled, raced>>

HeldByOthers(r) == UNION {run[q].held : q \in Runs \ {r}}

\* It has the locks that it waited for.  (Mutant: each UPDATE commits alone.)
RevokeActiveAlone(r) ==
  /\ run[r].step = "update" /\ run[r].seen \cap HeldByOthers(r) = {}
  /\ run' = [run EXCEPT ![r].step = "activate"]
  /\ status' = [d \in Dests |-> IF d \in run[r].seen \cap WithStatus("ACTIVE") THEN "REVOKED" ELSE status[d]]
  /\ UNCHANGED <<order, cooled, raced>>
RevokeActive(r) ==
  /\ run[r].step = "update" /\ run[r].seen \cap HeldByOthers(r) = {}
  /\ run' = [run EXCEPT ![r].step = "activate", ![r].held = run[r].seen \cap WithStatus("ACTIVE")]
  /\ UNCHANGED <<status, order, cooled, raced>>

\* The second UPDATE, by id and whatever the row's status, and the commit.
Activated(r) ==
  [d \in Dests |-> CASE d = run[r].dest -> "ACTIVE"
                     [] d # run[r].dest /\ d \in run[r].held -> "REVOKED"
                     [] OTHER -> status[d]]

Activate(r) ==
  /\ run[r].step = "activate" /\ run[r].dest \notin HeldByOthers(r)
  /\ status' = Activated(r)
  /\ run' = [run EXCEPT ![r] = IF run[r].due = {} THEN Idle ELSE [Idle EXCEPT !.step = "loop", !.due = run[r].due]]
  /\ UNCHANGED <<order, cooled, raced>>

\* A call fails or the process stops: an open transaction is rolled back.
Abort(r) ==
  /\ run[r].step # "idle"
  /\ run' = [run EXCEPT ![r] = Idle]
  /\ UNCHANGED <<status, order, cooled, raced>>

Next ==
  \/ \E d \in Dests : CreateDestination(d) \/ RequestDestination(d) \/ Cool(d)
  \/ \E r \in Runs : FindDue(r) \/ RevokeActive(r) \/ Activate(r) \/ Abort(r)
  \/ \E r \in Runs, d \in Dests : BeginTransaction(r, d)

Spec == Init /\ [][Next]_vars

-----------------------------------------------------------------------------
TypeOK ==
  /\ raced \in BOOLEAN
  /\ status \in [Dests -> {"none", "PENDING", "ACTIVE", "REVOKED"}]
  /\ cooled \subseteq Dests
  /\ run \in [Runs -> [step : {"idle", "loop", "update", "activate"}, due : SUBSET Dests,
                       dest : Dests \cup {NoDest}, seen : SUBSET Dests, held : SUBSET Dests]]
  /\ \A r \in Runs : run[r].step # "activate" => run[r].held = {}

\* No address is paid before the day that an operator has to object, whatever
\* activations, requests and rollbacks come between.
CooledBeforeUse == WithStatus("ACTIVE") \subseteq cooled

\* The new address takes the place of the active one, over failures and
\* rollbacks: there is one at most, unless two activations have overlapped.
\* plan() makes one payout item per active address.
OneActive == ~raced => \A d, e \in WithStatus("ACTIVE") : d = e

\* And a customer who has an active address does not lose it to a change that
\* fails half way or races another one.
ActiveIsReplaced == [][OneActive' /\ (WithStatus("ACTIVE") # {} => WithStatus("ACTIVE")' # {})]_vars

-----------------------------------------------------------------------------
(* Two statements that this code does not keep; the README has the runs that *)
(* refute them.                                                              *)

\* "replaces an older pending request": an address that was revoked stays so.
RevokedIsFinal == [][WithStatus("REVOKED") \subseteq WithStatus("REVOKED")']_vars

\* The place of an active address is not taken by one that was requested earlier.
Before(d, e) == \E i, j \in 1..Len(order) : i < j /\ order[i] = d /\ order[j] = e
NewestStays ==
  [][\A d, e \in Dests : /\ Before(d, e) /\ status[e] = "ACTIVE"
                         /\ status[d] # "ACTIVE" /\ status'[d] = "ACTIVE"
                         => FALSE]_vars
=============================================================================
