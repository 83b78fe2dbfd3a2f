-------------------------- MODULE PayoutExecution --------------------------
(***************************************************************************)
(* payouts/payouts.service.ts: approval, execution under the Redis wallet  *)
(* lock, and reconciliation of payout batches, with every await of the     *)
(* code a point where other calls, a crash or a failure may intervene.     *)
(*                                                                         *)
(* Amounts are left out (Treasury has them): what matters here is    *)
(* which payload a batch is bound to, which transactions the network has   *)
(* seen and whether the ledger was debited.  The items of a batch are      *)
(* signed and journalled in one database transaction, so a batch stands    *)
(* for its items.                                                          *)
(***************************************************************************)
EXTENDS Naturals, PayoutStates

CONSTANTS
  Batches,       \* ids of payout batches
  Executors,     \* concurrent calls of execute()
  Approvers,     \* concurrent calls of approve()
  Reconcilers,   \* concurrent calls of reconcile()
  Payloads,      \* distinct signed payloads the wallet can prepare per batch
  NoPayload,     \* null signedPayload / transactionIds
  NParts,        \* transactions per payload: 1 for Bitcoin, >= 1 for Monero
  Free,          \* the Redis lock key does not exist
  Orphan,        \* the key holds the token of a call that is gone
  LockCanLapse   \* may the key vanish while its holder still runs?

ASSUME BatchesAssumption == Batches # {}
ASSUME PayloadAssumption == NoPayload \notin Payloads
ASSUME PartsAssumption == NParts \in Nat \ {0}
ASSUME LockAssumption == /\ Free \notin Executors /\ Orphan \notin Executors
                         /\ Free # Orphan
                         /\ LockCanLapse \in BOOLEAN

VARIABLES
  state, signedPayload, transactionIds,  \* columns of PayoutBatch
  thresholdHit, approved,                \* approvalThresholdHit, approvedAt # null
  postings,                              \* journal transactions of the batch's items
  onChain,                               \* transactions the network has accepted
  inFlight,                              \* relays that failed here and may still get through
  lock,                                  \* Redis key payout:execute:wallets
  lockLost,                              \* lockLost[e]: e's lockLost flag
  pc, local,                             \* where call e is, and what it has read
  approving,                             \* approve() calls between read and write
  reconciling,                           \* batches a reconcile() call still has to visit
  reorged                                \* some deposit has status REORGED

batchVars == <<state, signedPayload, transactionIds, thresholdHit, approved, postings>>
lockVars  == <<lock, lockLost>>
execVars  == <<pc, local>>
envVars   == <<onChain, inFlight, reorged>>
callVars  == <<approving, reconciling>>
vars == <<batchVars, lockVars, execVars, envVars, callVars>>

Parts == 1..NParts

Steps == {"idle", "halt", "read", "prepare", "persist", "reread", "query",
          "relay", "commit", "result", "catch", "release"}

\* The columns executeUnderLock keeps in its variable batch, the payload
\* the wallet returned to it, and the next transaction to relay.
Local == [batch: Batches, state: RowState, payload: Payloads \cup {NoPayload},
          txids: Payloads \cup {NoPayload}, journaled: BOOLEAN,
          prepared: Payloads \cup {NoPayload}, part: Parts]

Row(b) == [batch |-> b, state |-> state[b], payload |-> signedPayload[b],
           txids |-> transactionIds[b], journaled |-> postings[b] > 0,
           prepared |-> NoPayload, part |-> 1]

\* A call of execute that has read nothing (yet, or any more).
NewCall(b) == [batch |-> b, state |-> "NONE", payload |-> NoPayload, txids |-> NoPayload,
               journaled |-> FALSE, prepared |-> NoPayload, part |-> 1]

\* No call in progress.
Blank == NewCall(CHOOSE b \in Batches : TRUE)

\* (Mutant: one known transaction is enough.)
KnownSome(b, txids) == \E i \in Parts : <<txids, i>> \in onChain[b]

\* wallet.transactionKnown for every expected id.
Known(b, txids) == {txids} \X Parts \subseteq onChain[b]

Init ==
  /\ state = [b \in Batches |-> "NONE"]
  /\ signedPayload = [b \in Batches |-> NoPayload]
  /\ transactionIds = [b \in Batches |-> NoPayload]
  /\ thresholdHit = [b \in Batches |-> FALSE]
  /\ approved = [b \in Batches |-> FALSE]
  /\ postings = [b \in Batches |-> 0]
  /\ onChain = [b \in Batches |-> {}]
  /\ inFlight = [b \in Batches |-> {}]
  /\ lock = Free
  /\ lockLost = [e \in Executors |-> FALSE]
  /\ pc = [e \in Executors |-> "idle"]
  /\ local = [e \in Executors |-> Blank]
  /\ approving = [a \in Approvers |-> {}]
  /\ reconciling = [r \in Reconcilers |-> {}]
  /\ reorged = FALSE

-----------------------------------------------------------------------------
(* Planning and approval. *)

\* plan and planOperator: the row is created already auto-approved, or
\* waiting for approval.
Plan(b) ==
  /\ state[b] = "NONE"
  /\ \E auto \in BOOLEAN :
       /\ state' = [state EXCEPT ![b] = IF auto THEN "AUTO_APPROVED" ELSE "APPROVAL_REQUIRED"]
       /\ thresholdHit' = [thresholdHit EXCEPT ![b] = ~auto]
  /\ UNCHANGED <<signedPayload, transactionIds, approved, postings>>
  /\ UNCHANGED <<lockVars, execVars, envVars, callVars>>

\* Where approve takes a batch: one that failed after signing is not signed again.
ApprovedState(b) ==
  IF state[b] = "FAILED" /\ signedPayload[b] # NoPayload THEN "SIGNED" ELSE "AUTO_APPROVED"

\* approve, up to its awaited update: the checks on the row it has read.
ApproveRead(a, b) ==
  /\ approving[a] = {}
  /\ state[b] \in {"APPROVAL_REQUIRED", "FAILED"}
  /\ canTransitionPayout(state[b], ApprovedState(b))
  /\ approving' = [approving EXCEPT ![a] = {<<b, ApprovedState(b)>>}]
  /\ UNCHANGED reconciling
  /\ UNCHANGED <<batchVars, lockVars, execVars, envVars>>

\* The update itself names the row by id only.
ApproveWrite(a) ==
  /\ \E x \in approving[a] :
       /\ state' = [state EXCEPT ![x[1]] = x[2]]
       /\ approved' = [approved EXCEPT ![x[1]] = TRUE]
  /\ approving' = [approving EXCEPT ![a] = {}]
  /\ UNCHANGED <<signedPayload, transactionIds, thresholdHit, postings, reconciling>>
  /\ UNCHANGED <<lockVars, execVars, envVars>>

-----------------------------------------------------------------------------
(* execute and executeUnderLock. *)

Goto(e, step, l) == pc' = [pc EXCEPT ![e] = step] /\ local' = [local EXCEPT ![e] = l]

\* A throw inside the try block, which drops what the call had read.
Throw(e) == Goto(e, "catch", NewCall(local[e].batch))

\* assertLock on resuming from an await inside the try block.
Resume(e, step, l) == IF lockLost[e] THEN Throw(e) ELSE Goto(e, step, l)

\* An error outside the try block.
Return(e) == Goto(e, "release", NewCall(local[e].batch))

\* SET payout:execute:wallets <token> PX 600000 NX.  When the key exists the
\* call ends with a conflict and changes nothing.
Acquire(e, b) ==
  /\ pc[e] = "idle"
  /\ lock = Free
  /\ lock' = e
  /\ Goto(e, "halt", NewCall(b))
  /\ UNCHANGED <<lockLost, batchVars, envVars, callVars>>

\* The 60 s renewal finds another token, no key, or no Redis.  (Later than
\* these steps the flag is not read any more.)
RenewFails(e) ==
  /\ pc[e] \in {"halt", "read", "prepare", "persist", "reread", "query", "relay"}
  /\ lockLost' = [lockLost EXCEPT ![e] = TRUE]
  /\ UNCHANGED <<lock, batchVars, execVars, envVars, callVars>>

\* A REORGED deposit halts payouts.  This query is outside the try block: a
\* failure of the database ends the call too.
CheckReorg(e) ==
  /\ pc[e] = "halt"
  /\ \/ ~reorged /\ Goto(e, "read", local[e])
     \/ Return(e)
  /\ UNCHANGED <<batchVars, lockVars, envVars, callVars>>

\* (Mutant: a batch that waits for approval passes the check.)
ExecutableLax(b) == state[b] \in {"APPROVAL_REQUIRED", "AUTO_APPROVED", "SIGNED", "FAILED"}
Executable(b) == state[b] \in {"AUTO_APPROVED", "SIGNED", "FAILED"}

\* (Mutant: only a SIGNED batch keeps its payload, a FAILED one is signed anew.)
AfterReadByState(b) == IF state[b] = "SIGNED" THEN "query" ELSE "prepare"
AfterRead(b) == IF signedPayload[b] = NoPayload THEN "prepare" ELSE "query"

\* findUnique and the state check, outside the try block (a failure or another
\* state ends the call); then either sign or go on with the stored payload.
ReadBatch(e) ==
  LET b == local[e].batch IN
  /\ pc[e] = "read"
  /\ \/ Executable(b) /\ Resume(e, AfterRead(b), Row(b))
     \/ Return(e)
  /\ UNCHANGED <<batchVars, lockVars, envVars, callVars>>

\* (Mutant: broadcast first, persist never.)
PrepareUnpersisted(e) ==
  /\ pc[e] = "prepare"
  /\ \/ /\ canTransitionPayout(local[e].state, "SIGNED")
        /\ \E p \in Payloads :
             Resume(e, "query", [local[e] EXCEPT !.payload = p, !.txids = p])
     \/ Throw(e)
  /\ UNCHANGED <<batchVars, lockVars, envVars, callVars>>

Prepared(l, p) == [l EXCEPT !.prepared = p]

\* wallet.preparePayout returns a signed payload, or the wallet fails, or the
\* fee is above the limit.
Prepare(e) ==
  /\ pc[e] = "prepare"
  /\ \/ /\ canTransitionPayout(local[e].state, "SIGNED")
        /\ \E p \in Payloads : Resume(e, "persist", Prepared(local[e], p))
     \/ Throw(e)
  /\ UNCHANGED <<batchVars, lockVars, envVars, callVars>>

\* The transaction that stores the payload; a failure may be reported after
\* the database has committed.
PersistSigned(e) ==
  LET b == local[e].batch IN
  /\ pc[e] = "persist"
  /\ \/ /\ state' = [state EXCEPT ![b] = "SIGNED"]
        /\ signedPayload' = [signedPayload EXCEPT ![b] = local[e].prepared]
        /\ transactionIds' = [transactionIds EXCEPT ![b] = local[e].prepared]
        /\ Goto(e, "reread", NewCall(b)) \/ Throw(e)
     \/ Throw(e) /\ UNCHANGED <<state, signedPayload, transactionIds>>
  /\ UNCHANGED <<thresholdHit, approved, postings>>
  /\ UNCHANGED <<lockVars, envVars, callVars>>

\* findUniqueOrThrow after signing.
Reread(e) ==
  LET b == local[e].batch IN
  /\ pc[e] = "reread"
  /\ \/ signedPayload[b] # NoPayload /\ Resume(e, "query", Row(b))
     \/ Throw(e)
  /\ UNCHANGED <<batchVars, lockVars, envVars, callVars>>

\* assertLock and assertPayoutTransition(executableBatch.state, BROADCAST).
BeforeCommit(e, l) ==
  IF canTransitionPayout(l.state, "BROADCAST") THEN Resume(e, "commit", l) ELSE Throw(e)

\* Ask the wallet for every expected transaction before broadcasting.
QueryWallet(e) ==
  /\ pc[e] = "query"
  /\ \/ /\ Known(local[e].batch, local[e].txids)
        /\ BeforeCommit(e, local[e])
     \/ /\ ~Known(local[e].batch, local[e].txids)
        /\ Resume(e, "relay", local[e])
     \/ Throw(e)
  /\ UNCHANGED <<batchVars, lockVars, envVars, callVars>>

\* (Mutants: the loop runs one transaction too far, or stops after the first.)
LastPartTooFar(l) == l.part > NParts
LastPartFirst(l) == TRUE
LastPart(l) == l.part = NParts

NextPart(l) == [l EXCEPT !.part = l.part + 1]
Relayed(l) == [l EXCEPT !.txids = l.payload]

\* wallet.broadcast relays the payload's transactions one after the other.
\* A call that fails here (the RPC client gives up after 30 s) may still reach
\* the network later.
RelayPart(e) ==
  LET b == local[e].batch
      tx == <<local[e].payload, local[e].part>>
  IN
  /\ pc[e] = "relay"
  /\ \/ /\ onChain' = [onChain EXCEPT ![b] = @ \cup {tx}]
        /\ \/ /\ ~LastPart(local[e])
              /\ Goto(e, "relay", NextPart(local[e]))
           \/ /\ LastPart(local[e])
              /\ BeforeCommit(e, Relayed(local[e]))
        /\ UNCHANGED inFlight
     \/ /\ inFlight' = [inFlight EXCEPT ![b] = @ \cup {tx}]
        /\ Throw(e)
        /\ UNCHANGED onChain
  /\ UNCHANGED <<reorged, batchVars, lockVars, callVars>>

\* Items that had a journal transaction when the row was read are skipped.
\* (Mutant: only the first attempt posts.)
NewPostingsFirst(l) == IF l.state = "SIGNED" THEN 1 ELSE 0
NewPostings(l) == IF l.journaled THEN 0 ELSE 1

\* JournalTransaction is unique per batch and customer.  (Mutant: it is not.)
JournalAny(b, n) == TRUE
JournalAccepts(b, n) == postings[b] = 0 \/ n = 0

\* The commit transaction; the refusal of a second journal transaction undoes
\* all of it.
CommitBroadcast(e) ==
  LET b == local[e].batch IN
  /\ pc[e] = "commit"
  /\ \/ /\ JournalAccepts(b, NewPostings(local[e]))
        /\ postings' = [postings EXCEPT ![b] = @ + NewPostings(local[e])]
        /\ state' = [state EXCEPT ![b] = "BROADCAST"]
        /\ transactionIds' = [transactionIds EXCEPT ![b] = local[e].txids]
        /\ Goto(e, "result", NewCall(b)) \/ Throw(e)
     \/ Throw(e) /\ UNCHANGED <<postings, state, transactionIds>>
  /\ UNCHANGED <<signedPayload, thresholdHit, approved>>
  /\ UNCHANGED <<lockVars, envVars, callVars>>

\* The last findUniqueOrThrow is still inside the try block.
ReturnResult(e) ==
  /\ pc[e] = "result"
  /\ Return(e) \/ Throw(e)
  /\ UNCHANGED <<batchVars, lockVars, envVars, callVars>>

\* The catch block writes FAILED whatever the row says by now, unless the
\* database refuses that too.
MarkFailed(e) ==
  /\ pc[e] = "catch"
  /\ \/ state' = [state EXCEPT ![local[e].batch] = "FAILED"]
     \/ UNCHANGED state
  /\ Return(e)
  /\ UNCHANGED <<signedPayload, transactionIds, thresholdHit, approved, postings>>
  /\ UNCHANGED <<lockVars, envVars, callVars>>

\* The finally block deletes the key if it still holds this call's token;
\* when Redis fails the key stays until its time to live is over.
Release(e) ==
  /\ pc[e] = "release"
  /\ lock' \in IF lock = e THEN {Free, Orphan} ELSE {lock}
  /\ lockLost' = [lockLost EXCEPT ![e] = FALSE]
  /\ Goto(e, "idle", Blank)
  /\ UNCHANGED <<batchVars, envVars, callVars>>

-----------------------------------------------------------------------------
(* Reconciliation, and what the surroundings do. *)

\* reconcile reads the BROADCAST batches once ...
ReconcileRead(r) ==
  /\ reconciling[r] = {}
  /\ reconciling' = [reconciling EXCEPT ![r] =
                       {<<b, transactionIds[b]>> : b \in {c \in Batches : state[c] = "BROADCAST"}}]
  /\ reconciling'[r] # {}
  /\ UNCHANGED <<approving, batchVars, lockVars, execVars, envVars>>

\* ... and visits them one by one: enough confirmations for every
\* transaction write CONFIRMED, to the row as it is then.
ReconcileOne(r) ==
  /\ \E x \in reconciling[r] :
       /\ reconciling' = [reconciling EXCEPT ![r] = @ \ {x}]
       /\ \/ Known(x[1], x[2]) /\ state' = [state EXCEPT ![x[1]] = "CONFIRMED"]
          \/ UNCHANGED state
  /\ UNCHANGED <<signedPayload, transactionIds, thresholdHit, approved, postings, approving>>
  /\ UNCHANGED <<lockVars, execVars, envVars>>

\* A wallet or database error ends the whole pass.
ReconcileAbort(r) ==
  /\ reconciling[r] # {}
  /\ reconciling' = [reconciling EXCEPT ![r] = {}]
  /\ UNCHANGED <<approving, batchVars, lockVars, execVars, envVars>>

\* A relay that was given up reaches the network after all.
LateRelay(b) ==
  /\ \E tx \in inFlight[b] :
       /\ onChain' = [onChain EXCEPT ![b] = @ \cup {tx}]
       /\ inFlight' = [inFlight EXCEPT ![b] = @ \ {tx}]
  /\ UNCHANGED <<reorged, batchVars, lockVars, execVars, callVars>>

\* The deposit scanner marks a deposit REORGED, or a REORGED one otherwise.
ReorgChanges ==
  /\ reorged' = ~reorged
  /\ UNCHANGED <<onChain, inFlight, batchVars, lockVars, execVars, callVars>>

\* Redis forgets the key (restart without its last second, flush, or a
\* process stalled for longer than the time to live).
LoseLock ==
  /\ LockCanLapse
  /\ lock \in Executors
  /\ lock' = Free
  /\ UNCHANGED <<lockLost, batchVars, execVars, envVars, callVars>>

\* (Mutant: the key is set without a time to live.)
OrphanStays ==
  /\ lock = Orphan
  /\ UNCHANGED vars

\* The 600 s time to live ends a key nobody renews.
OrphanExpires ==
  /\ lock = Orphan
  /\ lock' = Free
  /\ UNCHANGED <<lockLost, batchVars, execVars, envVars, callVars>>

\* The one process dies and restarts: every call is gone; PostgreSQL, Redis,
\* the wallets and the network stay.
Crash ==
  /\ pc' = [e \in Executors |-> "idle"]
  /\ local' = [e \in Executors |-> Blank]
  /\ lockLost' = [e \in Executors |-> FALSE]
  /\ lock' = IF lock \in Executors THEN Orphan ELSE lock
  /\ approving' = [a \in Approvers |-> {}]
  /\ reconciling' = [r \in Reconcilers |-> {}]
  /\ UNCHANGED <<batchVars, envVars>>

\* One step of a running execute call.
Step(e) ==
  \/ CheckReorg(e) \/ ReadBatch(e) \/ Prepare(e) \/ PersistSigned(e) \/ Reread(e)
  \/ QueryWallet(e) \/ RelayPart(e) \/ CommitBroadcast(e) \/ ReturnResult(e)
  \/ MarkFailed(e) \/ Release(e)

Next ==
  \/ \E b \in Batches : Plan(b) \/ LateRelay(b)
  \/ \E a \in Approvers : ApproveWrite(a) \/ \E b \in Batches : ApproveRead(a, b)
  \/ \E e \in Executors : Step(e) \/ RenewFails(e) \/ \E b \in Batches : Acquire(e, b)
  \/ \E r \in Reconcilers : ReconcileRead(r) \/ ReconcileOne(r) \/ ReconcileAbort(r)
  \/ ReorgChanges \/ LoseLock \/ OrphanExpires \/ Crash

Spec == Init /\ [][Next]_vars

\* Every await of a call is answered (RPC calls time out after 30 s, database
\* calls return or fail), and Redis expires keys.  Nothing retries a payout,
\* so starting one is not fair; nor is anything the network does.
Fairness == WF_vars(OrphanExpires) /\ \A e \in Executors : WF_vars(Step(e))

FairSpec == Spec /\ Fairness

-----------------------------------------------------------------------------
(* Properties. *)

Pairs == Payloads \X Parts

TypeOK ==
  /\ state \in [Batches -> RowState]
  /\ signedPayload \in [Batches -> Payloads \cup {NoPayload}]
  /\ transactionIds \in [Batches -> Payloads \cup {NoPayload}]
  /\ thresholdHit \in [Batches -> BOOLEAN]
  /\ approved \in [Batches -> BOOLEAN]
  /\ postings \in [Batches -> Nat]
  /\ onChain \in [Batches -> SUBSET Pairs]
  /\ inFlight \in [Batches -> SUBSET Pairs]
  /\ lock \in Executors \cup {Free, Orphan}
  /\ lockLost \in [Executors -> BOOLEAN]
  /\ pc \in [Executors -> Steps]
  /\ local \in [Executors -> Local]
  /\ approving \in [Approvers -> SUBSET (Batches \X {"AUTO_APPROVED", "SIGNED"})]
  /\ reconciling \in [Reconcilers -> SUBSET (Batches \X (Payloads \cup {NoPayload}))]
  /\ reorged \in BOOLEAN

\* executeUnderLock never lets transactions of two different payloads of one
\* batch reach the network, over every retry, crash and late relay: the batch
\* is paid at most once.
PaidAtMostOnce ==
  \A b \in Batches : \A x, y \in onChain[b] : x[1] = y[1]

\* "Signed payout payload and expected txids are persisted before broadcast":
\* what is, or may still get, on the network is the payload in the row.
PersistedBeforeBroadcast ==
  \A b \in Batches : \A x \in onChain[b] \cup inFlight[b] :
    x[1] = signedPayload[b] /\ x[1] = transactionIds[b]

\* The ledger is debited only for a batch whose transactions have all been
\* relayed, also when a relay stopped half way and was retried.
JournalOnlyWhenPaid ==
  \A b \in Batches : postings[b] > 0 => \E p \in Payloads : {p} \X Parts \subseteq onChain[b]

\* The ledger is debited once per batch, also when two executions run at the
\* same time because the lock lapsed under one of them.
JournalPostedOnce == \A b \in Batches : postings[b] <= 1

\* A batch shown as BROADCAST or CONFIRMED has been journalled, whatever
\* order the unconditional writes of execute, approve and reconcile came in.
SettledIsJournaled ==
  \A b \in Batches : state[b] \in {"BROADCAST", "CONFIRMED"} => postings[b] > 0

\* From the row to the ledger, whatever fails or is retried in between: only what
\* was stored first gets on the network, and only what is all there is debited.
PaidAsStored == PersistedBeforeBroadcast /\ JournalOnlyWhenPaid

\* What the database keeps by itself when the lock lapses under an execution: a
\* batch is debited once at most, and is shown as settled only when it is.
DebitedOnce == JournalPostedOnce /\ SettledIsJournaled

\* SIGNED is only ever written to a row that has a payload, although approve
\* decides on a row it read earlier: execute never signs a SIGNED batch anew.
SignedHasPayload ==
  \A b \in Batches : state[b] = "SIGNED" => signedPayload[b] # NoPayload

\* A batch above a limit is not signed before an administrator approved it,
\* although execute also accepts FAILED batches.
ApprovedBeforeSigned ==
  \A b \in Batches : thresholdHit[b] /\ signedPayload[b] # NoPayload => approved[b]

\* A batch is bound to its first persisted payload: no step replaces it.
PayloadIsFinal ==
  [][\A b \in Batches : signedPayload[b] # NoPayload => signedPayload'[b] = signedPayload[b]]_vars

\* Every change of a batch's state is one that payout-state.ts allows: what
\* assertPayoutTransition is called for before each write.
OnlyTableTransitions ==
  [][\A b \in Batches : state[b] # "NONE" => canTransitionPayout(state[b], state'[b])]_vars

\* Executions implement the contract of PayoutContract.
Contract == INSTANCE PayoutContract
              WITH signed <- signedPayload, relayed <- onChain, posted <- postings
ImplementsContract == Contract!Spec

\* The wallet lock is never kept for good: not by a call that is stuck, one
\* that failed, one that lost Redis, or a process that died.
LockIsFreed == lock # Free ~> lock = Free
=============================================================================
