----------------------- MODULE PayoutExecutionProofs -----------------------
(***************************************************************************)
(* Proofs about PayoutExecution for every number of batches, concurrent    *)
(* calls, payloads and transactions per payload.                           *)
(*                                                                         *)
(* DbInv is inductive whatever Redis does: what the rows and the ledger    *)
(* guarantee without the wallet lock.  As long as Redis keeps that lock,   *)
(* LockInv follows a call from the row it read to the row it writes, and   *)
(* gives at-most-once payment and the refinement of PayoutContract.        *)
(***************************************************************************)
EXTENDS PayoutExecution, TLAPS

-----------------------------------------------------------------------------
(* What holds even when the lock lapses. *)

\* A call that persists, queries, relays or commits a payload has one.
PaysWithPayload ==
  \A e \in Executors :
    /\ pc[e] = "persist" => local[e].prepared # NoPayload
    /\ pc[e] \in {"query", "relay", "commit"} => local[e].payload # NoPayload

\* approve never restores SIGNED without a payload, however old its read.
ApprovalsKnowPayload ==
  \A a \in Approvers : \A x \in approving[a] : x[2] = "SIGNED" => signedPayload[x[1]] # NoPayload

\* A batch leaves APPROVAL_REQUIRED by approval only: whoever writes to the
\* row of a batch, or has signed it, works on one that is past approval.
PastApproval(b) == state[b] \notin {"NONE", "APPROVAL_REQUIRED"}
RunsPastApproval ==
  /\ \A b \in Batches : thresholdHit[b] => approved[b] \/ state[b] = "APPROVAL_REQUIRED"
  /\ \A b \in Batches : signedPayload[b] # NoPayload => PastApproval(b)
  /\ \A e \in Executors :
       pc[e] \notin {"idle", "halt", "read", "release"} => PastApproval(local[e].batch)
  /\ \A r \in Reconcilers : \A x \in reconciling[r] : PastApproval(x[1])

\* A call that skips the postings, and one that confirms, saw them done.
SeenJournaled ==
  /\ \A e \in Executors : local[e].journaled => postings[local[e].batch] > 0
  /\ \A r \in Reconcilers : \A x \in reconciling[r] : postings[x[1]] > 0

DbInv ==
  /\ TypeOK
  /\ PaysWithPayload
  /\ SignedHasPayload
  /\ ApprovalsKnowPayload
  /\ SettledIsJournaled
  /\ JournalPostedOnce
  /\ SeenJournaled
  /\ RunsPastApproval

-----------------------------------------------------------------------------
(* Type correctness. *)

\* A call record only ever holds columns of the right type.
LEMMA NewCallType == \A b \in Batches : NewCall(b) \in Local
  BY PartsAssumption DEF NewCall, Local, RowState, Parts

LEMMA BlankType == Blank \in Local
  BY BatchesAssumption, NewCallType, Zenon DEF Blank

LEMMA RowType == TypeOK => \A b \in Batches : Row(b) \in Local
  BY PartsAssumption DEF TypeOK, Row, Local, Parts

\* Moving a call to another step keeps pc and local well typed.
LEMMA GotoType ==
  ASSUME TypeOK, NEW e \in Executors, NEW step \in Steps, NEW l \in Local, Goto(e, step, l)
  PROVE  pc' \in [Executors -> Steps] /\ local' \in [Executors -> Local]
  BY Zenon DEF TypeOK, Goto

LEMMA ThrowType ==
  ASSUME TypeOK, NEW e \in Executors, Throw(e) \/ Return(e)
  PROVE  pc' \in [Executors -> Steps] /\ local' \in [Executors -> Local]
  <1>1. local[e].batch \in Batches
    BY Zenon DEF TypeOK, Local
  <1>2. NewCall(local[e].batch) \in Local
    BY <1>1, NewCallType, Zenon
  <1> QED  BY <1>2, GotoType, Zenon DEF Throw, Return, Steps

LEMMA ResumeType ==
  ASSUME TypeOK, NEW e \in Executors, NEW step \in Steps, NEW l \in Local, Resume(e, step, l)
  PROVE  pc' \in [Executors -> Steps] /\ local' \in [Executors -> Local]
  BY GotoType, ThrowType, Zenon DEF Resume

LEMMA TypeInit == Init => TypeOK
  <1> SUFFICES ASSUME Init PROVE TypeOK
    BY Zenon
  <1>1. /\ state \in [Batches -> RowState] /\ postings \in [Batches -> Nat]
        /\ signedPayload \in [Batches -> Payloads \cup {NoPayload}]
        /\ transactionIds \in [Batches -> Payloads \cup {NoPayload}]
    BY Zenon DEF Init, RowState
  <1>2. /\ thresholdHit \in [Batches -> BOOLEAN] /\ approved \in [Batches -> BOOLEAN]
        /\ lockLost \in [Executors -> BOOLEAN] /\ reorged \in BOOLEAN
        /\ lock \in Executors \cup {Free, Orphan}
    BY Zenon DEF Init
  <1>3. pc \in [Executors -> Steps] /\ local \in [Executors -> Local]
    BY BlankType, Zenon DEF Init, Steps
  <1>4. /\ onChain \in [Batches -> SUBSET Pairs] /\ inFlight \in [Batches -> SUBSET Pairs]
        /\ approving \in [Approvers -> SUBSET (Batches \X {"AUTO_APPROVED", "SIGNED"})]
        /\ reconciling \in [Reconcilers -> SUBSET (Batches \X (Payloads \cup {NoPayload}))]
    BY Zenon DEF Init
  <1> QED  BY <1>1, <1>2, <1>3, <1>4, Zenon DEF TypeOK

LEMMA TypeNext == TypeOK /\ PaysWithPayload /\ [Next]_vars => TypeOK'
  <1> SUFFICES ASSUME TypeOK, PaysWithPayload, [Next]_vars PROVE TypeOK'
    BY Zenon
  <1> USE DEF batchVars, lockVars, execVars, envVars, callVars
  <1>1. ASSUME NEW b \in Batches, Plan(b) PROVE TypeOK'
    BY <1>1, Zenon DEF Plan, TypeOK, RowState, PayoutState
  <1>2. ASSUME NEW b \in Batches, LateRelay(b) PROVE TypeOK'
    BY <1>2 DEF LateRelay, TypeOK
  <1>3. ASSUME NEW a \in Approvers, NEW b \in Batches, ApproveRead(a, b) PROVE TypeOK'
    BY <1>3 DEF ApproveRead, ApprovedState, TypeOK
  <1>4. ASSUME NEW a \in Approvers, ApproveWrite(a) PROVE TypeOK'
    BY <1>4 DEF ApproveWrite, TypeOK, RowState, PayoutState
  <1>5. ASSUME NEW e \in Executors, NEW b \in Batches, Acquire(e, b) PROVE TypeOK'
    BY <1>5, NewCallType, GotoType, Zenon DEF Acquire, TypeOK, Steps
  <1>6. ASSUME NEW e \in Executors, RenewFails(e) PROVE TypeOK'
    BY <1>6, Zenon DEF RenewFails, TypeOK
  <1>7. ASSUME NEW r \in Reconcilers, ReconcileRead(r) PROVE TypeOK'
    BY <1>7 DEF ReconcileRead, TypeOK
  <1>8. ASSUME NEW r \in Reconcilers, ReconcileOne(r) PROVE TypeOK'
    BY <1>8 DEF ReconcileOne, TypeOK, RowState, PayoutState
  <1>9. ASSUME NEW r \in Reconcilers, ReconcileAbort(r) PROVE TypeOK'
    BY <1>9, Zenon DEF ReconcileAbort, TypeOK
  <1>10. CASE ReorgChanges
    BY <1>10, Zenon DEF ReorgChanges, TypeOK
  <1>11. CASE LoseLock \/ OrphanExpires
    BY <1>11, Zenon DEF LoseLock, OrphanExpires, TypeOK
  <1>12. CASE Crash
    BY <1>12, BlankType, Zenon DEF Crash, TypeOK, Steps
  <1>13. ASSUME NEW e \in Executors, Step(e) PROVE TypeOK'
    <2> DEFINE b == local[e].batch
    <2>0. b \in Batches /\ local[e] \in Local
      BY Zenon DEF TypeOK, Local
    <2>1. CASE CheckReorg(e)
      BY <2>0, <2>1, GotoType, ThrowType, Zenon DEF CheckReorg, TypeOK, Steps
    <2>2. CASE ReadBatch(e)
      BY <2>0, <2>2, RowType, ResumeType, ThrowType, Zenon DEF ReadBatch, AfterRead, TypeOK, Steps
    <2>3. CASE Prepare(e)
      <3>1. \A p \in Payloads : Prepared(local[e], p) \in Local
        BY <2>0, Zenon DEF Local, Prepared
      <3> QED  BY <2>3, <3>1, ResumeType, ThrowType, Zenon DEF Prepare, TypeOK, Steps
    <2>4. CASE PersistSigned(e)
      <3>1. pc' \in [Executors -> Steps] /\ local' \in [Executors -> Local]
        BY <2>0, <2>4, NewCallType, GotoType, ThrowType, Zenon DEF PersistSigned, Steps
      <3>2. local[e].prepared \in Payloads \cup {NoPayload}
        BY <2>0, Zenon DEF Local
      <3> QED  BY <2>0, <2>4, <3>1, <3>2, Zenon DEF PersistSigned, TypeOK, RowState, PayoutState
    <2>5. CASE Reread(e)
      BY <2>0, <2>5, RowType, ResumeType, ThrowType, Zenon DEF Reread, TypeOK, Steps
    <2>6. CASE QueryWallet(e)
      BY <2>0, <2>6, ResumeType, ThrowType, Zenon DEF QueryWallet, BeforeCommit, TypeOK, Steps
    <2>7. CASE RelayPart(e)
      <3>1. <<local[e].payload, local[e].part>> \in Pairs
        BY <2>0, <2>7, Zenon DEF Local, PaysWithPayload, RelayPart, Pairs
      <3>2. ~LastPart(local[e]) => NextPart(local[e]) \in Local
        BY <2>0, PartsAssumption DEF Local, NextPart, LastPart, Parts
      <3>3. Relayed(local[e]) \in Local
        BY <2>0, Zenon DEF Local, Relayed
      <3>4. pc' \in [Executors -> Steps] /\ local' \in [Executors -> Local]
        BY <2>0, <2>7, <3>2, <3>3, GotoType, ResumeType, ThrowType, Zenon
        DEF RelayPart, BeforeCommit, Steps
      <3> QED  BY <2>0, <2>7, <3>1, <3>4 DEF RelayPart, TypeOK
    <2>8. CASE CommitBroadcast(e)
      <3>1. pc' \in [Executors -> Steps] /\ local' \in [Executors -> Local]
        BY <2>0, <2>8, NewCallType, GotoType, ThrowType, Zenon DEF CommitBroadcast, Steps
      <3>2. local[e].txids \in Payloads \cup {NoPayload} /\ NewPostings(local[e]) \in Nat
        BY <2>0, Zenon DEF Local, NewPostings
      <3> QED  BY <2>0, <2>8, <3>1, <3>2 DEF CommitBroadcast, TypeOK, RowState, PayoutState
    <2>9. CASE ReturnResult(e)
      BY <2>9, ThrowType, Zenon DEF ReturnResult, TypeOK
    <2>10. CASE MarkFailed(e)
      BY <2>0, <2>10, ThrowType, Zenon DEF MarkFailed, TypeOK, RowState, PayoutState
    <2>11. CASE Release(e)
      BY <2>11, BlankType, GotoType, Zenon DEF Release, TypeOK, Steps
    <2> QED  BY <1>13, <2>1, <2>2, <2>3, <2>4, <2>5, <2>6, <2>7, <2>8, <2>9, <2>10, <2>11, Zenon DEF Step
  <1>14. CASE UNCHANGED vars
    BY <1>14, Zenon DEF vars, TypeOK
  <1> QED
    BY <1>1, <1>2, <1>3, <1>4, <1>5, <1>6, <1>7, <1>8, <1>9, <1>10, <1>11, <1>12, <1>13, <1>14, Zenon
    DEF Next

\* The actions other than those of execute leave its calls alone, and a call
\* leaves the others alone.
LEMMA CallsMove ==
  ASSUME TypeOK, [Next]_vars, NEW e \in Executors
  PROVE  \/ pc'[e] = pc[e] /\ local'[e] = local[e]
         \/ pc'[e] = "idle" /\ local'[e] = Blank
         \/ \E b \in Batches : Acquire(e, b)
         \/ Step(e)
  <1> USE DEF batchVars, lockVars, execVars, envVars, callVars
  <1>1. CASE UNCHANGED <<pc, local>>
    BY <1>1, Zenon
  <1>2. CASE Crash
    BY <1>2, Zenon DEF Crash
  <1>3. ASSUME NEW d \in Executors, NEW b \in Batches, Acquire(d, b), d # e
        PROVE  pc'[e] = pc[e] /\ local'[e] = local[e]
    BY <1>3, Zenon DEF Acquire, Goto, TypeOK
  <1>4. ASSUME NEW d \in Executors, Step(d), d # e
        PROVE  pc'[e] = pc[e] /\ local'[e] = local[e]
    BY <1>4, Zenon DEF Step, CheckReorg, ReadBatch, Prepare, PersistSigned, Reread, QueryWallet,
                RelayPart, CommitBroadcast, ReturnResult, MarkFailed, Release, BeforeCommit,
                Resume, Throw, Return, Goto, TypeOK
  <1> QED
    BY <1>1, <1>2, <1>3, <1>4, Zenon
    DEF Next, vars, Plan, LateRelay, ApproveRead, ApproveWrite, RenewFails, ReconcileRead,
        ReconcileOne, ReconcileAbort, ReorgChanges, LoseLock, OrphanExpires

\* What a step does to its call.
LEMMA StepMoves ==
  ASSUME TypeOK, NEW e \in Executors, Step(e)
  PROVE  \/ pc'[e] = "idle" /\ local'[e] = Blank
         \/ pc'[e] \in {"reread", "result", "catch", "release"} /\ local'[e] = NewCall(local[e].batch)
         \/ pc'[e] = "read" /\ pc[e] = "halt" /\ local'[e] = local[e]
         \/ /\ pc'[e] = "prepare" /\ pc[e] = "read" /\ local'[e] = Row(local[e].batch)
            /\ signedPayload[local[e].batch] = NoPayload
         \/ /\ pc'[e] = "query" /\ pc[e] \in {"read", "reread"} /\ local'[e] = Row(local[e].batch)
            /\ signedPayload[local[e].batch] # NoPayload
         \/ /\ pc'[e] = "persist" /\ pc[e] = "prepare"
            /\ \E p \in Payloads : local'[e] = Prepared(local[e], p)
         \/ pc'[e] \in {"relay", "commit"} /\ pc[e] = "query" /\ local'[e] = local[e]
         \/ pc'[e] = "relay" /\ pc[e] = "relay" /\ local'[e] = NextPart(local[e])
         \/ pc'[e] = "commit" /\ pc[e] = "relay" /\ local'[e] = Relayed(local[e])
  <1> USE DEF Goto, Throw, Return, TypeOK
  <1>1. CASE CheckReorg(e) \/ ReturnResult(e) \/ MarkFailed(e) \/ Release(e)
    BY <1>1, Zenon DEF CheckReorg, ReturnResult, MarkFailed, Release
  <1>2. CASE ReadBatch(e) \/ Reread(e)
    BY <1>2, Zenon DEF ReadBatch, Reread, Resume, AfterRead
  <1>3. CASE Prepare(e)
    BY <1>3, Zenon DEF Prepare, Resume
  <1>4. CASE PersistSigned(e) \/ CommitBroadcast(e)
    BY <1>4, Zenon DEF PersistSigned, CommitBroadcast
  <1>5. CASE QueryWallet(e)
    BY <1>5, Zenon DEF QueryWallet, BeforeCommit, Resume
  <1>6. CASE RelayPart(e)
    BY <1>6, Zenon DEF RelayPart, BeforeCommit, Resume
  <1> QED  BY <1>1, <1>2, <1>3, <1>4, <1>5, <1>6, Zenon DEF Step

\* Who writes to the rows of batches and to the ledger.
LEMMA RowsMove ==
  ASSUME [Next]_vars
  PROVE  \/ UNCHANGED batchVars
         \/ \E b \in Batches : Plan(b)
         \/ \E a \in Approvers : ApproveWrite(a)
         \/ \E r \in Reconcilers : ReconcileOne(r)
         \/ \E e \in Executors : PersistSigned(e) \/ CommitBroadcast(e) \/ MarkFailed(e)
  BY Zenon DEF Next, Step, vars, LateRelay, ApproveRead, Acquire, RenewFails, CheckReorg, ReadBatch,
         Prepare, Reread, QueryWallet, RelayPart, ReturnResult, Release, ReconcileRead,
         ReconcileAbort, ReorgChanges, LoseLock, OrphanExpires, Crash

\* What the updates of a call record keep.
LEMMA CallFields ==
  ASSUME NEW l \in Local, NEW p \in Payloads
  PROVE  /\ Prepared(l, p).prepared = p
         /\ \A m \in {Prepared(l, p), NextPart(l), Relayed(l)} :
              m.batch = l.batch /\ m.payload = l.payload /\ m.journaled = l.journaled
         /\ NextPart(l).txids = l.txids /\ NextPart(l).part = l.part + 1
         /\ Relayed(l).txids = l.payload
  BY Zenon DEF Local, Prepared, NextPart, Relayed

LEMMA PaysWithPayloadNext == TypeOK /\ PaysWithPayload /\ [Next]_vars => PaysWithPayload'
  <1> SUFFICES ASSUME TypeOK, PaysWithPayload, [Next]_vars, NEW e \in Executors
               PROVE  /\ pc'[e] = "persist" => local'[e].prepared # NoPayload
                      /\ pc'[e] \in {"query", "relay", "commit"} => local'[e].payload # NoPayload
    BY Zenon DEF PaysWithPayload
  <1>1. local[e] \in Local
    BY Zenon DEF TypeOK
  <1>2. CASE Step(e)
    <2>1. ASSUME NEW p \in Payloads, local'[e] = Prepared(local[e], p)
          PROVE  local'[e].prepared # NoPayload
      BY <1>1, <2>1, CallFields, PayloadAssumption, Zenon
    <2>2. ASSUME local'[e] = NextPart(local[e]) \/ local'[e] = Relayed(local[e])
          PROVE  local'[e].payload = local[e].payload
      BY <1>1, <2>2, Zenon DEF Local, NextPart, Relayed
    <2>3. Row(local[e].batch).payload = signedPayload[local[e].batch]
      BY Zenon DEF Row
    <2> QED  BY <1>2, <2>1, <2>2, <2>3, StepMoves, Zenon DEF PaysWithPayload
  <1>3. CASE \E b \in Batches : Acquire(e, b)
    BY <1>3, Zenon DEF Acquire, Goto, TypeOK
  <1> QED  BY <1>2, <1>3, CallsMove, Zenon DEF PaysWithPayload

LEMMA SignedHasPayloadNext ==
  TypeOK /\ PaysWithPayload /\ SignedHasPayload /\ ApprovalsKnowPayload /\ [Next]_vars
    => SignedHasPayload'
  <1> SUFFICES ASSUME TypeOK, PaysWithPayload, SignedHasPayload, ApprovalsKnowPayload, [Next]_vars
               PROVE  SignedHasPayload'
    BY Zenon
  <1>1. CASE UNCHANGED batchVars
    BY <1>1, Zenon DEF batchVars, SignedHasPayload
  <1>2. CASE \E b \in Batches : Plan(b)
    BY <1>2, Zenon DEF Plan, SignedHasPayload, TypeOK
  <1>3. CASE \E a \in Approvers : ApproveWrite(a)
    BY <1>3 DEF ApproveWrite, SignedHasPayload, ApprovalsKnowPayload, TypeOK
  <1>4. CASE \E r \in Reconcilers : ReconcileOne(r)
    BY <1>4, Zenon DEF ReconcileOne, SignedHasPayload, TypeOK
  <1>5. ASSUME NEW e \in Executors, PersistSigned(e) \/ CommitBroadcast(e) \/ MarkFailed(e)
        PROVE  SignedHasPayload'
    BY <1>5, Zenon DEF PersistSigned, CommitBroadcast, MarkFailed, SignedHasPayload, PaysWithPayload,
                TypeOK, Local
  <1> QED  BY <1>1, <1>2, <1>3, <1>4, <1>5, RowsMove, Zenon

\* A payload is never removed from a row.
LEMMA PayloadStays ==
  ASSUME TypeOK, PaysWithPayload, [Next]_vars, NEW b \in Batches, signedPayload[b] # NoPayload
  PROVE  signedPayload'[b] # NoPayload
  <1>1. ASSUME NEW e \in Executors, PersistSigned(e) PROVE signedPayload'[b] # NoPayload
    BY <1>1, Zenon DEF PersistSigned, PaysWithPayload, TypeOK, Local
  <1> QED
    BY <1>1, RowsMove, Zenon DEF batchVars, Plan, ApproveWrite, ReconcileOne, CommitBroadcast, MarkFailed

LEMMA ApprovalsKnowPayloadNext ==
  TypeOK /\ PaysWithPayload /\ ApprovalsKnowPayload /\ [Next]_vars => ApprovalsKnowPayload'
  <1> SUFFICES ASSUME TypeOK, PaysWithPayload, ApprovalsKnowPayload, [Next]_vars,
                      NEW a \in Approvers, NEW x \in approving'[a], x[2] = "SIGNED"
               PROVE  signedPayload'[x[1]] # NoPayload
    BY Zenon DEF ApprovalsKnowPayload
  <1>1. CASE x \in approving[a]
    <2>1. x[1] \in Batches /\ signedPayload[x[1]] # NoPayload
      BY <1>1 DEF TypeOK, ApprovalsKnowPayload
    <2> QED  BY <2>1, PayloadStays, Zenon
  <1>2. CASE x \notin approving[a]
    <2>1. \E b \in Batches : ApproveRead(a, b)
      BY ZenonT(30), <1>2 DEF Next, Step, vars, batchVars, callVars, Plan, LateRelay, ApproveRead, ApproveWrite,
                  Acquire, RenewFails, CheckReorg, ReadBatch, Prepare, PersistSigned, Reread,
                  QueryWallet, RelayPart, CommitBroadcast, ReturnResult, MarkFailed, Release,
                  ReconcileRead, ReconcileOne, ReconcileAbort, ReorgChanges, LoseLock,
                  OrphanExpires, Crash, TypeOK
    <2> QED  BY <2>1, <1>2 DEF ApproveRead, ApprovedState, batchVars, TypeOK
  <1> QED  BY <1>1, <1>2, Zenon

\* A reconciliation only gets new batches by reading them.
LEMMA ReconcilersMove ==
  ASSUME TypeOK, [Next]_vars, NEW r \in Reconcilers
  PROVE  reconciling'[r] \subseteq reconciling[r] \/ ReconcileRead(r)
  <1>1. \/ UNCHANGED reconciling \/ Crash
        \/ \E q \in Reconcilers : ReconcileRead(q) \/ ReconcileOne(q) \/ ReconcileAbort(q)
    BY Zenon DEF Next, Step, vars, callVars, Plan, LateRelay, ApproveRead, ApproveWrite, Acquire,
           RenewFails, CheckReorg, ReadBatch, Prepare, PersistSigned, Reread, QueryWallet,
           RelayPart, CommitBroadcast, ReturnResult, MarkFailed, Release, ReorgChanges,
           LoseLock, OrphanExpires
  <1>2. ASSUME NEW q \in Reconcilers, ReconcileRead(q), q # r PROVE reconciling'[r] = reconciling[r]
    BY <1>2, Zenon DEF ReconcileRead, TypeOK
  <1>3. ASSUME NEW q \in Reconcilers, ReconcileOne(q) PROVE reconciling'[r] \subseteq reconciling[r]
    BY <1>3, Zenon DEF ReconcileOne, TypeOK
  <1>4. ASSUME NEW q \in Reconcilers, ReconcileAbort(q) PROVE reconciling'[r] \subseteq reconciling[r]
    BY <1>4, Zenon DEF ReconcileAbort, TypeOK
  <1>5. CASE Crash
    BY <1>5, Zenon DEF Crash
  <1> QED  BY <1>1, <1>2, <1>3, <1>4, <1>5, Zenon

\* Postings are only ever added, and only where there were none.
LEMMA PostingsGrow ==
  ASSUME TypeOK, [Next]_vars, NEW b \in Batches
  PROVE  postings'[b] = postings[b] \/ (postings[b] = 0 /\ postings'[b] = 1)
  <1>1. ASSUME NEW e \in Executors, CommitBroadcast(e)
        PROVE  postings'[b] = postings[b] \/ (postings[b] = 0 /\ postings'[b] = 1)
    BY <1>1 DEF CommitBroadcast, JournalAccepts, NewPostings, TypeOK
  <1> QED
    BY <1>1, RowsMove, Zenon DEF batchVars, Plan, ApproveWrite, ReconcileOne, PersistSigned, MarkFailed

LEMMA SettledNext ==
  TypeOK /\ SettledIsJournaled /\ SeenJournaled /\ [Next]_vars => SettledIsJournaled'
  <1> SUFFICES ASSUME TypeOK, SettledIsJournaled, SeenJournaled, [Next]_vars
               PROVE  SettledIsJournaled'
    BY Zenon
  <1>1. CASE UNCHANGED batchVars
    BY <1>1, Zenon DEF batchVars, SettledIsJournaled
  <1>2. CASE \E b \in Batches : Plan(b)
    BY <1>2, Zenon DEF Plan, SettledIsJournaled, TypeOK
  <1>3. CASE \E a \in Approvers : ApproveWrite(a)
    BY <1>3 DEF ApproveWrite, SettledIsJournaled, TypeOK
  <1>4. CASE \E r \in Reconcilers : ReconcileOne(r)
    BY <1>4, Zenon DEF ReconcileOne, SettledIsJournaled, SeenJournaled, TypeOK
  <1>5. ASSUME NEW e \in Executors, PersistSigned(e) \/ MarkFailed(e) PROVE SettledIsJournaled'
    BY <1>5, Zenon DEF PersistSigned, MarkFailed, SettledIsJournaled, TypeOK
  <1>6. ASSUME NEW e \in Executors, CommitBroadcast(e) PROVE SettledIsJournaled'
    BY <1>6 DEF CommitBroadcast, NewPostings, SettledIsJournaled, SeenJournaled, TypeOK, Local
  <1> QED  BY <1>1, <1>2, <1>3, <1>4, <1>5, <1>6, RowsMove, Zenon

LEMMA SeenJournaledNext ==
  TypeOK /\ SettledIsJournaled /\ SeenJournaled /\ [Next]_vars => SeenJournaled'
  <1> SUFFICES ASSUME TypeOK, SettledIsJournaled, SeenJournaled, [Next]_vars
               PROVE  SeenJournaled'
    BY Zenon
  <1>1. ASSUME NEW e \in Executors, local'[e].journaled PROVE postings'[local'[e].batch] > 0
    <2>0. local[e] \in Local /\ local[e].batch \in Batches
      BY Zenon DEF TypeOK, Local
    <2>1. postings[local'[e].batch] > 0 /\ local'[e].batch \in Batches
      <3>1. \A c \in Batches : ~NewCall(c).journaled
        BY Zenon DEF NewCall
      <3>2. ~Blank.journaled
        BY <3>1, BatchesAssumption, Zenon DEF Blank
      <3>3. ASSUME NEW p \in Payloads, local'[e] = Prepared(local[e], p)
            PROVE  local'[e].batch = local[e].batch /\ local'[e].journaled = local[e].journaled
        BY <2>0, <3>3, CallFields
      <3>4. ASSUME local'[e] = NextPart(local[e]) \/ local'[e] = Relayed(local[e])
            PROVE  local'[e].batch = local[e].batch /\ local'[e].journaled = local[e].journaled
        BY <2>0, <3>4, Zenon DEF Local, NextPart, Relayed
      <3>5. ASSUME local'[e] = Row(local[e].batch)
            PROVE  local'[e].batch = local[e].batch /\ postings[local[e].batch] > 0
        <4>1. /\ Row(local[e].batch).batch = local[e].batch
              /\ Row(local[e].batch).journaled = (postings[local[e].batch] > 0)
          BY Zenon DEF Row
        <4> QED  BY <1>1, <3>5, <4>1, Zenon
      <3>6. ASSUME NEW b \in Batches, Acquire(e, b) PROVE ~local'[e].journaled
        BY <3>1, <3>6, Zenon DEF Acquire, Goto, TypeOK
      <3> QED  BY <1>1, <2>0, <3>1, <3>2, <3>3, <3>4, <3>5, <3>6, CallsMove, StepMoves, Zenon DEF SeenJournaled
    <2> QED  BY <2>1, PostingsGrow
  <1>2. ASSUME NEW r \in Reconcilers, NEW x \in reconciling'[r] PROVE postings'[x[1]] > 0
    <2>1. postings[x[1]] > 0 /\ x[1] \in Batches
      <3>1. CASE x \in reconciling[r]
        BY <3>1 DEF SeenJournaled, TypeOK
      <3>2. CASE ReconcileRead(r)
        BY <1>2, <3>2 DEF ReconcileRead, SettledIsJournaled, TypeOK
      <3> QED  BY <1>2, <3>1, <3>2, ReconcilersMove, Zenon
    <2> QED  BY <2>1, PostingsGrow
  <1> QED  BY <1>1, <1>2, Zenon DEF SeenJournaled

\* A batch past approval stays there: only Plan writes APPROVAL_REQUIRED, to
\* a new row.
LEMMA ApprovalStays ==
  ASSUME TypeOK, [Next]_vars, NEW b \in Batches, PastApproval(b)
  PROVE  PastApproval(b)'
  <1>1. ASSUME NEW c \in Batches, Plan(c) PROVE PastApproval(b)'
    BY <1>1, Zenon DEF Plan, PastApproval, TypeOK
  <1>2. ASSUME NEW a \in Approvers, ApproveWrite(a) PROVE PastApproval(b)'
    BY <1>2 DEF ApproveWrite, PastApproval, TypeOK
  <1>3. ASSUME NEW r \in Reconcilers, ReconcileOne(r) PROVE PastApproval(b)'
    BY <1>3, Zenon DEF ReconcileOne, PastApproval, TypeOK
  <1>4. ASSUME NEW e \in Executors, PersistSigned(e) \/ CommitBroadcast(e) \/ MarkFailed(e)
        PROVE  PastApproval(b)'
    BY <1>4, Zenon DEF PersistSigned, CommitBroadcast, MarkFailed, PastApproval, TypeOK
  <1> QED  BY <1>1, <1>2, <1>3, <1>4, RowsMove, Zenon DEF batchVars, PastApproval

\* The batch of a call that is past its state check.
LEMMA CallPastApproval ==
  ASSUME TypeOK, RunsPastApproval, [Next]_vars, NEW e \in Executors,
         pc'[e] \notin {"idle", "halt", "read", "release"}
  PROVE  local'[e].batch \in Batches /\ PastApproval(local'[e].batch)
  <1>0. local[e] \in Local /\ local[e].batch \in Batches
    BY Zenon DEF TypeOK, Local
  <1>1. CASE pc'[e] = pc[e] /\ local'[e] = local[e]
    BY <1>0, <1>1, Zenon DEF RunsPastApproval
  <1>2. CASE Step(e)
    <2>1. local'[e].batch = local[e].batch
      <3>1. ASSUME NEW p \in Payloads, local'[e] = Prepared(local[e], p)
            PROVE  local'[e].batch = local[e].batch
        BY <1>0, <3>1, Zenon DEF Local, Prepared
      <3>2. ASSUME local'[e] = NextPart(local[e]) \/ local'[e] = Relayed(local[e])
            PROVE  local'[e].batch = local[e].batch
        BY <1>0, <3>2, Zenon DEF Local, NextPart, Relayed
      <3>3. /\ Row(local[e].batch).batch = local[e].batch
            /\ NewCall(local[e].batch).batch = local[e].batch
        BY Zenon DEF Row, NewCall
      <3> QED  BY <1>2, <3>1, <3>2, <3>3, StepMoves, Zenon
    <2>2. CASE pc[e] \notin {"idle", "halt", "read", "release"}
      BY <1>0, <2>1, <2>2, Zenon DEF RunsPastApproval
    <2>3. CASE ReadBatch(e)
      BY <1>0, <2>1, <2>3, Zenon DEF ReadBatch, Executable, Return, Goto, PastApproval, TypeOK
    <2>4. ReadBatch(e) \/ pc[e] \notin {"idle", "halt", "read", "release"}
      BY <1>2, Zenon DEF Step, CheckReorg, Prepare, PersistSigned, Reread, QueryWallet, RelayPart,
                  CommitBroadcast, ReturnResult, MarkFailed, Release, Return, Goto, TypeOK
    <2> QED  BY <2>2, <2>3, <2>4, Zenon
  <1>3. CASE \E b \in Batches : Acquire(e, b)
    BY <1>3, Zenon DEF Acquire, Goto, TypeOK
  <1> QED  BY <1>1, <1>2, <1>3, CallsMove, Zenon

LEMMA RunsPastApprovalNext ==
  TypeOK /\ RunsPastApproval /\ [Next]_vars => RunsPastApproval'
  <1> SUFFICES ASSUME TypeOK, RunsPastApproval, [Next]_vars PROVE RunsPastApproval'
    BY Zenon
  <1>1. ASSUME NEW b \in Batches, thresholdHit'[b]
        PROVE  approved'[b] \/ state'[b] = "APPROVAL_REQUIRED"
    <2>1. CASE UNCHANGED batchVars
      BY <1>1, <2>1, Zenon DEF batchVars, RunsPastApproval
    <2>2. ASSUME NEW c \in Batches, Plan(c)
          PROVE  approved'[b] \/ state'[b] = "APPROVAL_REQUIRED"
      BY <1>1, <2>2, Zenon DEF Plan, RunsPastApproval, TypeOK
    <2>3. ASSUME NEW a \in Approvers, ApproveWrite(a)
          PROVE  approved'[b] \/ state'[b] = "APPROVAL_REQUIRED"
      BY <1>1, <2>3, Zenon DEF ApproveWrite, RunsPastApproval, TypeOK
    <2>4. ASSUME NEW r \in Reconcilers, ReconcileOne(r)
          PROVE  approved'[b] \/ state'[b] = "APPROVAL_REQUIRED"
      BY <1>1, <2>4 DEF ReconcileOne, RunsPastApproval, PastApproval, TypeOK
    <2>5. ASSUME NEW e \in Executors, PersistSigned(e) \/ CommitBroadcast(e) \/ MarkFailed(e)
          PROVE  approved'[b] \/ state'[b] = "APPROVAL_REQUIRED"
      BY <1>1, <2>5 DEF PersistSigned, CommitBroadcast, MarkFailed, RunsPastApproval, PastApproval,
                        TypeOK
    <2> QED  BY <2>1, <2>2, <2>3, <2>4, <2>5, RowsMove, Zenon
  <1>2. ASSUME NEW b \in Batches, signedPayload'[b] # NoPayload PROVE PastApproval(b)'
    <2>1. CASE PastApproval(b)
      BY <2>1, ApprovalStays, Zenon
    <2>2. CASE ~PastApproval(b)
      <3>1. ASSUME NEW e \in Executors, PersistSigned(e) PROVE local[e].batch # b
        BY <2>2, <3>1, Zenon DEF PersistSigned, RunsPastApproval
      <3>2. signedPayload'[b] = signedPayload[b]
        BY <3>1, RowsMove, Zenon DEF batchVars, Plan, ApproveWrite, ReconcileOne, CommitBroadcast,
                              MarkFailed, PersistSigned, TypeOK
      <3> QED  BY <1>2, <2>2, <3>2, Zenon DEF RunsPastApproval
    <2> QED  BY <2>1, <2>2, Zenon
  <1>3. ASSUME NEW e \in Executors, pc'[e] \notin {"idle", "halt", "read", "release"}
        PROVE  PastApproval(local[e].batch)'
    BY <1>3, CallPastApproval, ApprovalStays, Zenon DEF PastApproval
  <1>4. ASSUME NEW r \in Reconcilers, NEW x \in reconciling'[r] PROVE PastApproval(x[1])'
    <2>1. x[1] \in Batches /\ PastApproval(x[1])
      <3>1. CASE x \in reconciling[r]
        BY <3>1 DEF RunsPastApproval, TypeOK
      <3>2. CASE ReconcileRead(r)
        BY <1>4, <3>2 DEF ReconcileRead, PastApproval, TypeOK
      <3> QED  BY <1>4, <3>1, <3>2, ReconcilersMove, Zenon
    <2> QED  BY <2>1, ApprovalStays, Zenon
  <1> QED  BY <1>1, <1>2, <1>3, <1>4, Zenon DEF RunsPastApproval

LEMMA DbInvInit == Init => DbInv
  <1> SUFFICES ASSUME Init PROVE DbInv
    BY Zenon
  <1>1. PaysWithPayload /\ SignedHasPayload /\ ApprovalsKnowPayload /\ SettledIsJournaled
    BY Zenon DEF Init, PaysWithPayload, SignedHasPayload, ApprovalsKnowPayload, SettledIsJournaled
  <1>2. JournalPostedOnce /\ RunsPastApproval
    BY DEF Init, JournalPostedOnce, RunsPastApproval
  <1>3. ~Blank.journaled
    BY Zenon DEF Blank, NewCall
  <1>4. SeenJournaled
    BY <1>3, Zenon DEF Init, SeenJournaled
  <1> QED  BY <1>1, <1>2, <1>4, TypeInit, Zenon DEF DbInv

LEMMA DbInvNext == DbInv /\ [Next]_vars => DbInv'
  <1> SUFFICES ASSUME DbInv, [Next]_vars PROVE DbInv'
    BY Zenon
  <1>1. TypeOK' /\ PaysWithPayload'
    BY TypeNext, PaysWithPayloadNext, Zenon DEF DbInv
  <1>2. SignedHasPayload' /\ ApprovalsKnowPayload'
    BY SignedHasPayloadNext, ApprovalsKnowPayloadNext, Zenon DEF DbInv
  <1>3. SettledIsJournaled' /\ SeenJournaled' /\ RunsPastApproval'
    BY SettledNext, SeenJournaledNext, RunsPastApprovalNext, Zenon DEF DbInv
  <1>4. JournalPostedOnce'
    BY PostingsGrow DEF DbInv, JournalPostedOnce, TypeOK
  <1> QED  BY <1>1, <1>2, <1>3, <1>4, Zenon DEF DbInv

\* DbInv is an invariant whatever the wallet lock does: the rows and the ledger
\* never rely on Redis.
THEOREM DbInvariant == Spec => []DbInv
  BY DbInvInit, DbInvNext, PTL DEF Spec

\* The state of PayoutExecution is well typed.
THEOREM TypeCorrect == Spec => []TypeOK
  <1>1. DbInv => TypeOK
    BY Zenon DEF DbInv
  <1> QED  BY <1>1, DbInvariant, PTL

\* No batch's items are journalled twice, even when the lock lapses and two
\* executions commit the same batch.
THEOREM PostedOnce == Spec => []JournalPostedOnce
  <1>1. DbInv => JournalPostedOnce
    BY Zenon DEF DbInv
  <1> QED  BY <1>1, DbInvariant, PTL

\* BROADCAST and CONFIRMED batches are journalled, in every order of the
\* unconditional updates, even when the lock lapses.
THEOREM SettledJournaled == Spec => []SettledIsJournaled
  <1>1. DbInv => SettledIsJournaled
    BY Zenon DEF DbInv
  <1> QED  BY <1>1, DbInvariant, PTL

\* The unique journal key and the transaction of commit are enough: a batch is
\* debited once, and before it is shown as settled, whatever the lock does.
THEOREM DebitIsSafe == Spec => []DebitedOnce
  BY PostedOnce, SettledJournaled, PTL DEF DebitedOnce

\* A batch above a limit is not signed without an administrator's approval.
THEOREM SignedIsApproved == Spec => []ApprovedBeforeSigned
  <1>1. DbInv => ApprovedBeforeSigned
    BY Zenon DEF DbInv, RunsPastApproval, PastApproval, ApprovedBeforeSigned
  <1> QED  BY <1>1, DbInvariant, PTL

-----------------------------------------------------------------------------
(* What the wallet lock adds. *)

LockHeld == \A e \in Executors : pc[e] # "idle" => lock = e

\* A call that signs works on an unsigned row, one that pays on the payload of
\* the row, and it commits after the last transaction.
Matches(step, l, payload, chain) ==
  /\ step \in {"prepare", "persist"} => payload = NoPayload
  /\ step = "persist" => l.prepared \in Payloads
  /\ step \in {"query", "relay", "commit"} =>
       l.payload \in Payloads /\ l.payload = payload /\ l.txids = payload
  /\ step = "query" => l.part = 1
  /\ step = "relay" => \A i \in Parts : i < l.part => <<l.payload, i>> \in chain
  /\ step = "commit" => \A i \in Parts : <<l.payload, i>> \in chain

CallMatchesRow ==
  \A e \in Executors :
    Matches(pc[e], local[e], signedPayload[local[e].batch], onChain[local[e].batch])

IdsMatchPayload == \A b \in Batches : transactionIds[b] = signedPayload[b]

JournaledIsPaid ==
  \A b \in Batches : postings[b] > 0 =>
    signedPayload[b] \in Payloads /\ \A i \in Parts : <<signedPayload[b], i>> \in onChain[b]

LockInv ==
  /\ TypeOK /\ PaysWithPayload
  /\ LockHeld
  /\ IdsMatchPayload
  /\ PersistedBeforeBroadcast
  /\ CallMatchesRow
  /\ JournaledIsPaid

-----------------------------------------------------------------------------
(* The wallet lock excludes other executions, so a call finds the row as it  *)
(* read it.                                                                  *)

LEMMA LockHeldNext == TypeOK /\ LockHeld /\ ~LockCanLapse /\ [Next]_vars => LockHeld'
  <1> SUFFICES ASSUME TypeOK, LockHeld, ~LockCanLapse, [Next]_vars,
                      NEW e \in Executors, pc'[e] # "idle"
               PROVE  lock' = e
    BY Zenon DEF LockHeld
  <1>1. ASSUME NEW b \in Batches, Acquire(e, b) PROVE lock' = e
    BY <1>1, Zenon DEF Acquire
  <1>2. ASSUME pc[e] # "idle", lock = e PROVE lock' = e
    <2>1. ASSUME NEW d \in Executors, NEW b \in Batches, Acquire(d, b) PROVE FALSE
      BY <1>2, <2>1, LockAssumption, Zenon DEF Acquire
    <2>2. ASSUME NEW d \in Executors, Release(d) PROVE FALSE
      <3>1. lock = d
        BY <2>2, Zenon DEF Release, LockHeld
      <3> QED  BY <1>2, <2>2, <3>1, Zenon DEF Release, Goto, TypeOK
    <2>3. ASSUME OrphanExpires \/ LoseLock PROVE FALSE
      BY <1>2, <2>3, LockAssumption, Zenon DEF OrphanExpires, LoseLock
    <2>4. ASSUME Crash PROVE FALSE
      BY <2>4, Zenon DEF Crash
    <2> QED
      BY <1>2, <2>1, <2>2, <2>3, <2>4, Zenon
      DEF Next, Step, vars, lockVars, Plan, LateRelay, ApproveRead, ApproveWrite, RenewFails,
          CheckReorg, ReadBatch, Prepare, PersistSigned, Reread, QueryWallet, RelayPart,
          CommitBroadcast, ReturnResult, MarkFailed, ReconcileRead, ReconcileOne,
          ReconcileAbort, ReorgChanges
  <1>3. ASSUME Step(e) PROVE pc[e] # "idle"
    BY <1>3, Zenon DEF Step, CheckReorg, ReadBatch, Prepare, PersistSigned, Reread, QueryWallet, RelayPart,
                CommitBroadcast, ReturnResult, MarkFailed, Release
  <1>4. CASE pc[e] # "idle"
    BY <1>2, <1>4, Zenon DEF LockHeld
  <1> QED  BY <1>1, <1>3, <1>4, CallsMove, Zenon

\* Only the call that signs a batch changes its payload, and only an unsigned
\* batch is signed.
LEMMA PayloadChange ==
  ASSUME LockInv, [Next]_vars, NEW b \in Batches, signedPayload'[b] # signedPayload[b]
  PROVE  /\ signedPayload[b] = NoPayload
         /\ \E e \in Executors : PersistSigned(e) /\ local[e].batch = b
  <1>1. PICK e \in Executors : PersistSigned(e)
    BY RowsMove, Zenon DEF batchVars, Plan, ApproveWrite, ReconcileOne, CommitBroadcast, MarkFailed
  <1>2. local[e].batch = b
    BY <1>1, Zenon DEF PersistSigned, LockInv, TypeOK
  <1>3. signedPayload[b] = NoPayload
    BY <1>1, <1>2, Zenon DEF PersistSigned, LockInv, CallMatchesRow, Matches
  <1> QED  BY <1>1, <1>2, <1>3, Zenon

\* Transactions reach the network by a relay only, and stay there.
LEMMA NetworkMoves ==
  ASSUME TypeOK, [Next]_vars
  PROVE  \/ UNCHANGED <<onChain, inFlight>>
         \/ \E b \in Batches : LateRelay(b)
         \/ \E e \in Executors : RelayPart(e)
  BY Zenon DEF Next, Step, vars, envVars, Plan, ApproveRead, ApproveWrite, Acquire, RenewFails,
         CheckReorg, ReadBatch, Prepare, PersistSigned, Reread, QueryWallet, CommitBroadcast,
         ReturnResult, MarkFailed, Release, ReconcileRead, ReconcileOne, ReconcileAbort,
         ReorgChanges, LoseLock, OrphanExpires, Crash

\* A relay reaches the network, or fails and may be under way still.
LEMMA RelayMoves ==
  ASSUME NEW e \in Executors, RelayPart(e)
  PROVE  LET tx == <<local[e].payload, local[e].part>>
         IN  \/ onChain' = [onChain EXCEPT ![local[e].batch] = @ \cup {tx}] /\ inFlight' = inFlight
             \/ /\ inFlight' = [inFlight EXCEPT ![local[e].batch] = @ \cup {tx}] /\ onChain' = onChain
                /\ pc' = [pc EXCEPT ![e] = "catch"]
  BY Zenon DEF RelayPart, Throw, Goto

LEMMA ChainGrows ==
  ASSUME TypeOK, [Next]_vars, NEW b \in Batches
  PROVE  onChain[b] \subseteq onChain'[b]
  <1>1. ASSUME NEW c \in Batches, LateRelay(c) PROVE onChain[b] \subseteq onChain'[b]
    BY <1>1 DEF LateRelay, TypeOK
  <1>2. ASSUME NEW e \in Executors, RelayPart(e) PROVE onChain[b] \subseteq onChain'[b]
    BY <1>2, RelayMoves DEF TypeOK
  <1> QED  BY <1>1, <1>2, NetworkMoves, Zenon

LEMMA IdsMatchNext == LockInv /\ [Next]_vars => IdsMatchPayload'
  <1> SUFFICES ASSUME LockInv, [Next]_vars PROVE IdsMatchPayload'
    BY Zenon
  <1>1. ASSUME NEW e \in Executors, PersistSigned(e) PROVE IdsMatchPayload'
    BY <1>1 DEF PersistSigned, LockInv, IdsMatchPayload, TypeOK
  <1>2. ASSUME NEW e \in Executors, CommitBroadcast(e) PROVE IdsMatchPayload'
    BY <1>2, Zenon DEF CommitBroadcast, LockInv, IdsMatchPayload, CallMatchesRow, Matches, TypeOK
  <1> QED
    BY <1>1, <1>2, RowsMove, Zenon
    DEF LockInv, IdsMatchPayload, batchVars, Plan, ApproveWrite, ReconcileOne, MarkFailed

LEMMA PersistedNext == LockInv /\ [Next]_vars => PersistedBeforeBroadcast'
  <1> SUFFICES ASSUME LockInv, [Next]_vars, NEW b \in Batches,
                      NEW x \in onChain'[b] \cup inFlight'[b]
               PROVE  x[1] = signedPayload'[b] /\ x[1] = transactionIds'[b]
    BY Zenon DEF PersistedBeforeBroadcast
  <1>1. x[1] = signedPayload[b] /\ x[1] # NoPayload
    <2>1. CASE x \in onChain[b] \cup inFlight[b]
      BY <2>1, PayloadAssumption DEF LockInv, PersistedBeforeBroadcast, TypeOK, Pairs
    <2>2. ASSUME NEW c \in Batches, LateRelay(c) PROVE x \in onChain[b] \cup inFlight[b]
      BY <2>2 DEF LateRelay, LockInv, TypeOK
    <2>3. ASSUME NEW e \in Executors, RelayPart(e), x \notin onChain[b] \cup inFlight[b]
          PROVE  x[1] = signedPayload[b] /\ x[1] # NoPayload
      <3>1. x = <<local[e].payload, local[e].part>> /\ local[e].batch = b
        BY <2>3, RelayMoves DEF LockInv, TypeOK
      <3>2. local[e].payload = signedPayload[b] /\ local[e].payload \in Payloads
        BY <2>3, <3>1, Zenon DEF RelayPart, LockInv, CallMatchesRow, Matches
      <3> QED  BY <3>1, <3>2, PayloadAssumption, Zenon
    <2> QED  BY <2>1, <2>2, <2>3, NetworkMoves, Zenon DEF LockInv
  <1>2. signedPayload'[b] = signedPayload[b]
    BY <1>1, PayloadChange, Zenon
  <1> QED  BY <1>1, <1>2, IdsMatchNext, Zenon DEF IdsMatchPayload

\* A call that stays where it is still matches its row: nobody else signs, and
\* the network only gains transactions.
LEMMA CallKeepsMatching ==
  ASSUME LockInv, [Next]_vars, NEW e \in Executors, pc'[e] = pc[e], local'[e] = local[e],
         pc[e] # "idle"
  PROVE  /\ signedPayload'[local[e].batch] = signedPayload[local[e].batch]
         /\ onChain[local[e].batch] \subseteq onChain'[local[e].batch]
  <1>1. local[e].batch \in Batches
    BY Zenon DEF LockInv, TypeOK, Local
  <1>2. ASSUME NEW d \in Executors, PersistSigned(d) PROVE FALSE
    <2>1. d = e
      BY <1>2, Zenon DEF PersistSigned, LockInv, LockHeld
    <2> QED  BY <1>2, <2>1, Zenon DEF PersistSigned, Throw, Goto, LockInv, TypeOK
  <1> QED  BY <1>1, <1>2, PayloadChange, ChainGrows, Zenon DEF LockInv

LEMMA CallMatchesRowNext == LockInv /\ [Next]_vars => CallMatchesRow'
  <1> SUFFICES ASSUME LockInv, [Next]_vars, NEW e \in Executors
      PROVE Matches(pc'[e], local'[e], signedPayload'[local'[e].batch], onChain'[local'[e].batch])
    BY Zenon DEF CallMatchesRow
  <1> DEFINE b == local[e].batch
             Goal == Matches(pc'[e], local'[e], signedPayload'[local'[e].batch],
                             onChain'[local'[e].batch])
             Paying == {"prepare", "persist", "query", "relay", "commit"}
  <1>0. local[e] \in Local /\ b \in Batches
    BY Zenon DEF LockInv, TypeOK, Local
  <1>a. Matches(pc[e], local[e], signedPayload[b], onChain[b])
    BY Zenon DEF LockInv, CallMatchesRow
  <1>1. CASE pc'[e] = pc[e] /\ local'[e] = local[e]
    <2>1. CASE pc[e] = "idle"
      BY <1>1, <2>1, Zenon DEF Matches
    <2>2. CASE pc[e] # "idle"
      BY <1>a, <1>1, <2>2, CallKeepsMatching, Zenon DEF Matches
    <2> QED  BY <2>1, <2>2, Zenon
  <1>2. CASE pc'[e] \notin Paying
    BY <1>2, Zenon DEF Matches
  <1>3. CASE ReadBatch(e) \/ Reread(e)
    <2>1. signedPayload' = signedPayload
      BY <1>3, Zenon DEF ReadBatch, Reread, batchVars
    <2>2. CASE pc'[e] \in {"prepare", "query"}
      <3>1. /\ local'[e] = Row(b)
            /\ pc'[e] = "prepare" => signedPayload[b] = NoPayload
            /\ pc'[e] = "query" => signedPayload[b] # NoPayload
        BY <1>3, <2>2, Zenon DEF ReadBatch, Reread, AfterRead, Resume, Throw, Return, Goto, LockInv, TypeOK
      <3>2. transactionIds[b] = signedPayload[b] /\ signedPayload[b] \in Payloads \cup {NoPayload}
        BY <1>0, Zenon DEF LockInv, IdsMatchPayload, TypeOK
      <3>3. /\ Row(b).batch = b /\ Row(b).payload = signedPayload[b]
            /\ Row(b).txids = transactionIds[b] /\ Row(b).part = 1
        BY Zenon DEF Row
      <3> QED  BY <2>1, <2>2, <3>1, <3>2, <3>3, Zenon DEF Matches
    <2>3. pc'[e] \in {"prepare", "query", "catch", "release"}
      BY <1>3, Zenon DEF ReadBatch, Reread, AfterRead, Resume, Throw, Return, Goto, LockInv, TypeOK
    <2> QED  BY <1>2, <2>2, <2>3, Zenon
  <1>4. CASE Prepare(e)
    <2>1. signedPayload' = signedPayload /\ signedPayload[b] = NoPayload
      BY <1>a, <1>4, Zenon DEF Prepare, batchVars, Matches
    <2>2. \/ pc'[e] = "catch"
          \/ pc'[e] = "persist" /\ \E p \in Payloads : local'[e] = Prepared(local[e], p)
      BY <1>4, Zenon DEF Prepare, Resume, Throw, Goto, LockInv, TypeOK
    <2>3. ASSUME NEW p \in Payloads, pc'[e] = "persist", local'[e] = Prepared(local[e], p) PROVE Goal
      <3>1. local'[e].batch = b /\ local'[e].prepared = p
        BY <1>0, <2>3, Zenon DEF Local, Prepared
      <3> QED  BY <2>1, <2>3, <3>1, Zenon DEF Matches
    <2> QED  BY <1>2, <2>2, <2>3, Zenon
  <1>5. CASE QueryWallet(e)
    <2>1. signedPayload' = signedPayload /\ onChain' = onChain
      BY <1>5, Zenon DEF QueryWallet, batchVars, envVars
    <2>2. \/ pc'[e] = "catch"
          \/ pc'[e] = "relay" /\ local'[e] = local[e]
          \/ pc'[e] = "commit" /\ local'[e] = local[e] /\ Known(b, local[e].txids)
      BY <1>5, Zenon DEF QueryWallet, BeforeCommit, Resume, Throw, Goto, LockInv, TypeOK
    <2>3. pc[e] = "query"
      BY <1>5, Zenon DEF QueryWallet
    <2>4. ASSUME Known(b, local[e].txids) PROVE \A i \in Parts : <<local[e].txids, i>> \in onChain[b]
      BY <2>4, Zenon DEF Known
    <2>5. \A i \in Parts : ~(i < 1)
      BY PartsAssumption DEF Parts
    <2> QED  BY <1>a, <1>2, <2>1, <2>2, <2>3, <2>4, <2>5, Zenon DEF Matches
  <1>6. CASE RelayPart(e)
    <2>1. signedPayload' = signedPayload /\ onChain[b] \subseteq onChain'[b]
      BY <1>0, <1>6, ChainGrows, Zenon DEF RelayPart, batchVars, LockInv
    <2>2. /\ pc[e] = "relay" /\ local[e].payload \in Payloads
          /\ local[e].payload = signedPayload[b] /\ local[e].txids = signedPayload[b]
      BY <1>a, <1>6, Zenon DEF RelayPart, Matches
    <2>3. CASE pc'[e] # "catch"
      <3>1. <<local[e].payload, local[e].part>> \in onChain'[b]
        BY <1>0, <1>6, <2>3, RelayMoves DEF LockInv, TypeOK
      <3>2. \/ pc'[e] = "relay" /\ local'[e] = NextPart(local[e])
            \/ pc'[e] = "commit" /\ local'[e] = Relayed(local[e]) /\ LastPart(local[e])
        BY <1>6, <2>3 DEF RelayPart, BeforeCommit, Resume, Throw, Goto, LockInv, TypeOK
      <3>3. \A i \in Parts : i <= local[e].part => <<local[e].payload, i>> \in onChain'[b]
        <4>1. ASSUME NEW i \in Parts, i <= local[e].part
              PROVE  i < local[e].part \/ i = local[e].part
          BY <1>0, <4>1, PartsAssumption DEF Parts, Local
        <4> QED  BY <1>a, <2>1, <2>2, <3>1, <4>1, Zenon DEF Matches
      <3>4. CASE pc'[e] = "relay" /\ local'[e] = NextPart(local[e])
        <4>1. /\ local'[e].batch = b /\ local'[e].payload = local[e].payload
              /\ local'[e].txids = local[e].txids /\ local'[e].part = local[e].part + 1
          BY <1>0, <3>4, Zenon DEF NextPart, Local
        <4>2. \A i \in Parts : i < local[e].part + 1 => i <= local[e].part
          BY <1>0, PartsAssumption DEF Parts, Local
        <4> QED  BY <2>1, <2>2, <3>3, <3>4, <4>1, <4>2, Zenon DEF Matches
      <3>5. CASE pc'[e] = "commit" /\ local'[e] = Relayed(local[e]) /\ LastPart(local[e])
        <4>1. /\ local'[e].batch = b /\ local'[e].payload = local[e].payload
              /\ local'[e].txids = local[e].payload
          BY <1>0, <3>5, Zenon DEF Relayed, Local
        <4>2. \A i \in Parts : i <= local[e].part
          BY <3>5, PartsAssumption DEF Parts, LastPart
        <4> QED  BY <2>1, <2>2, <3>3, <3>5, <4>1, <4>2, Zenon DEF Matches
      <3> QED  BY <3>2, <3>4, <3>5, Zenon
    <2> QED  BY <1>2, <2>3, Zenon
  <1>7. Step(e) => \/ ReadBatch(e) \/ Reread(e) \/ Prepare(e) \/ QueryWallet(e) \/ RelayPart(e)
                   \/ pc'[e] \notin Paying
    BY Zenon DEF Step, CheckReorg, PersistSigned, CommitBroadcast, ReturnResult, MarkFailed, Release,
           Throw, Return, Goto, LockInv, TypeOK
  <1>8. ASSUME NEW c \in Batches, Acquire(e, c) PROVE pc'[e] \notin Paying
    BY <1>8, Zenon DEF Acquire, Goto, LockInv, TypeOK
  <1> QED  BY <1>1, <1>2, <1>3, <1>4, <1>5, <1>6, <1>7, <1>8, CallsMove, Zenon DEF LockInv

LEMMA JournaledIsPaidNext == LockInv /\ [Next]_vars => JournaledIsPaid'
  <1> SUFFICES ASSUME LockInv, [Next]_vars, NEW b \in Batches, postings'[b] > 0
               PROVE  /\ signedPayload'[b] \in Payloads
                      /\ \A i \in Parts : <<signedPayload'[b], i>> \in onChain'[b]
    BY Zenon DEF JournaledIsPaid
  <1>1. /\ signedPayload[b] \in Payloads
        /\ \A i \in Parts : <<signedPayload[b], i>> \in onChain[b]
    <2>1. CASE postings[b] > 0
      BY <2>1, Zenon DEF LockInv, JournaledIsPaid
    <2>2. ASSUME NEW e \in Executors, CommitBroadcast(e), ~(postings[b] > 0)
          PROVE  local[e].batch = b /\ pc[e] = "commit"
      BY <2>2, Zenon DEF CommitBroadcast, LockInv, TypeOK
    <2>3. ASSUME NEW e \in Executors, local[e].batch = b, pc[e] = "commit"
          PROVE  /\ signedPayload[b] \in Payloads
                 /\ \A i \in Parts : <<signedPayload[b], i>> \in onChain[b]
      BY <2>3, Zenon DEF LockInv, CallMatchesRow, Matches
    <2> QED
      BY <2>1, <2>2, <2>3, RowsMove, Zenon
      DEF batchVars, Plan, ApproveWrite, ReconcileOne, PersistSigned, MarkFailed
  <1>2. signedPayload'[b] = signedPayload[b]
    BY <1>1, PayloadChange, PayloadAssumption, Zenon
  <1> QED  BY <1>1, <1>2, ChainGrows, Zenon DEF LockInv

LEMMA LockInvInit == Init => LockInv
  <1> SUFFICES ASSUME Init PROVE LockInv
    BY Zenon
  <1>1. LockHeld /\ IdsMatchPayload /\ PersistedBeforeBroadcast /\ JournaledIsPaid
    BY DEF Init, LockHeld, IdsMatchPayload, PersistedBeforeBroadcast, JournaledIsPaid
  <1>2. CallMatchesRow /\ PaysWithPayload
    BY Zenon DEF Init, CallMatchesRow, Matches, PaysWithPayload
  <1> QED  BY <1>1, <1>2, TypeInit, Zenon DEF LockInv

LEMMA LockInvNext == ~LockCanLapse /\ LockInv /\ [Next]_vars => LockInv'
  <1> SUFFICES ASSUME ~LockCanLapse, LockInv, [Next]_vars PROVE LockInv'
    BY Zenon
  <1>1. TypeOK' /\ PaysWithPayload' /\ LockHeld'
    BY TypeNext, PaysWithPayloadNext, LockHeldNext, Zenon DEF LockInv
  <1> QED
    BY <1>1, IdsMatchNext, PersistedNext, CallMatchesRowNext, JournaledIsPaidNext, Zenon DEF LockInv

\* As long as Redis keeps the wallet lock, LockInv is an invariant.
THEOREM LockInvariant == ASSUME ~LockCanLapse PROVE Spec => []LockInv
  <1>1. LockInv /\ [Next]_vars => LockInv'
    BY LockInvNext, Zenon
  <1> QED  BY <1>1, LockInvInit, PTL DEF Spec

\* As long as Redis keeps the wallet lock, no batch is ever paid twice.
THEOREM PaidOnce == ASSUME ~LockCanLapse PROVE Spec => []PaidAtMostOnce
  <1>1. LockInv => PaidAtMostOnce
    BY DEF LockInv, PersistedBeforeBroadcast, PaidAtMostOnce
  <1> QED  BY <1>1, LockInvariant, PTL

\* As long as Redis keeps the wallet lock, everything a batch has on the
\* network, or under way, is the payload stored in its row.
THEOREM Persisted == ASSUME ~LockCanLapse PROVE Spec => []PersistedBeforeBroadcast
  <1>1. LockInv => PersistedBeforeBroadcast
    BY Zenon DEF LockInv
  <1> QED  BY <1>1, LockInvariant, PTL

\* As long as Redis keeps the wallet lock, a debited batch has been relayed in
\* full.
THEOREM JournaledPaid == ASSUME ~LockCanLapse PROVE Spec => []JournalOnlyWhenPaid
  <1>1. LockInv => JournalOnlyWhenPaid
    <2> SUFFICES ASSUME LockInv, NEW b \in Batches, postings[b] > 0
                 PROVE  \E p \in Payloads : {p} \X Parts \subseteq onChain[b]
      BY Zenon DEF JournalOnlyWhenPaid
    <2>1. /\ signedPayload[b] \in Payloads
          /\ \A i \in Parts : <<signedPayload[b], i>> \in onChain[b]
      BY Zenon DEF LockInv, JournaledIsPaid
    <2> QED  BY <2>1
  <1> QED  BY <1>1, LockInvariant, PTL

\* As long as Redis keeps the wallet lock, a batch gets on the network as execute
\* has stored it, and is debited when all of it is there.
THEOREM StoredThenPaid == ASSUME ~LockCanLapse PROVE Spec => []PaidAsStored
  BY Persisted, JournaledPaid, PTL DEF PaidAsStored

\* As long as Redis keeps the wallet lock, no step replaces a stored payload.
THEOREM PayloadFinal == ASSUME ~LockCanLapse PROVE Spec => PayloadIsFinal
  <1>1. LockInv /\ [Next]_vars =>
          [\A b \in Batches : signedPayload[b] # NoPayload => signedPayload'[b] = signedPayload[b]]_vars
    BY PayloadChange, Zenon
  <1> QED  BY <1>1, LockInvariant, PTL DEF Spec, PayloadIsFinal

\* As long as Redis keeps the wallet lock, executions implement the contract:
\* sign once, relay that payload only, debit once when all of it is relayed.
THEOREM Refinement == ASSUME ~LockCanLapse PROVE Spec => ImplementsContract
  <1>1. Init => Contract!Init
    BY Zenon DEF Init, Contract!Init
  <1>2. LockInv /\ [Next]_vars => [Contract!Next]_(Contract!vars)
    <2> SUFFICES ASSUME LockInv, [Next]_vars, ~(UNCHANGED Contract!vars)
                 PROVE  \E b \in Batches : Contract!Sign(b) \/ Contract!Relay(b) \/ Contract!Post(b)
      BY Zenon DEF Contract!Next
    <2>1. ASSUME NEW e \in Executors, PersistSigned(e)
          PROVE  UNCHANGED Contract!vars \/ \E b \in Batches : Contract!Sign(b)
      <3>1. local[e].batch \in Batches
        BY Zenon DEF LockInv, TypeOK, Local
      <3>2. signedPayload[local[e].batch] = NoPayload /\ local[e].prepared \in Payloads
        BY <2>1, Zenon DEF LockInv, CallMatchesRow, Matches, PersistSigned
      <3> QED  BY <2>1, <3>1, <3>2, Zenon DEF PersistSigned, envVars, Contract!Sign, Contract!vars
    <2>2. ASSUME NEW e \in Executors, RelayPart(e)
          PROVE  UNCHANGED Contract!vars \/ \E b \in Batches : Contract!Relay(b)
      <3>1. local[e].batch \in Batches /\ local[e].part \in Parts
        BY Zenon DEF LockInv, TypeOK, Local
      <3>2. /\ local[e].payload = signedPayload[local[e].batch]
            /\ signedPayload[local[e].batch] \in Payloads
        BY <2>2, Zenon DEF LockInv, CallMatchesRow, Matches, RelayPart
      <3> QED  BY <2>2, <3>1, <3>2, Zenon DEF RelayPart, batchVars, Contract!Relay, Contract!vars
    <2>3. ASSUME NEW b \in Batches, LateRelay(b) PROVE Contract!Relay(b)
      <3>1. PICK tx \in inFlight[b] : onChain' = [onChain EXCEPT ![b] = @ \cup {tx}]
        BY <2>3, Zenon DEF LateRelay
      <3>2. tx \in Payloads \X Parts /\ tx[1] = signedPayload[b]
        BY Zenon DEF LockInv, TypeOK, Pairs, PersistedBeforeBroadcast
      <3>3. tx = <<signedPayload[b], tx[2]>> /\ tx[2] \in Parts /\ signedPayload[b] \in Payloads
        BY <3>2
      <3> QED  BY <2>3, <3>1, <3>3, Zenon DEF LateRelay, batchVars, Contract!Relay
    <2>4. ASSUME NEW e \in Executors, CommitBroadcast(e)
          PROVE  UNCHANGED Contract!vars \/ \E b \in Batches : Contract!Post(b)
      <3>1. local[e].batch \in Batches
        BY Zenon DEF LockInv, TypeOK, Local
      <3>2. /\ signedPayload[local[e].batch] \in Payloads
            /\ \A i \in Parts : <<signedPayload[local[e].batch], i>> \in onChain[local[e].batch]
        BY <2>4, Zenon DEF LockInv, CallMatchesRow, Matches, CommitBroadcast
      <3>3. {signedPayload[local[e].batch]} \X Parts \subseteq onChain[local[e].batch]
        BY <3>2
      <3>4. \/ postings' = postings
            \/ postings[local[e].batch] = 0 /\ postings' = [postings EXCEPT ![local[e].batch] = 1]
        BY <2>4, <3>1 DEF CommitBroadcast, JournalAccepts, NewPostings, LockInv, TypeOK
      <3> QED
        BY <2>4, <3>1, <3>2, <3>3, <3>4, Zenon DEF CommitBroadcast, envVars, Contract!Post, Contract!vars
    <2>5. \/ UNCHANGED Contract!vars
          \/ \E e \in Executors : PersistSigned(e) \/ RelayPart(e) \/ CommitBroadcast(e)
          \/ \E b \in Batches : LateRelay(b)
      <3>1. CASE UNCHANGED <<onChain, inFlight>>
        BY <3>1, RowsMove, Zenon
        DEF batchVars, Contract!vars, Plan, ApproveWrite, ReconcileOne, MarkFailed
      <3> QED  BY <3>1, NetworkMoves, Zenon DEF LockInv
    <2> QED  BY <2>1, <2>2, <2>3, <2>4, <2>5, Zenon
  <1> QED  BY <1>1, <1>2, LockInvariant, PTL DEF Spec, ImplementsContract, Contract!Spec
=============================================================================
