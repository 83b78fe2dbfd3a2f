------------------------ MODULE BackgroundJobsProofs ------------------------
(***************************************************************************)
(* The jobs of BackgroundJobs for any number of deposits, shares, calls,   *)
(* faults and restarts, and for any calendar, bucket lengths and windows.  *)
(* The parts are proved one after the other; a step of one leaves the      *)
(* others alone.                                                           *)
(***************************************************************************)
EXTENDS BackgroundJobs, FiniteSetTheorems, TLAPS

-----------------------------------------------------------------------------
(* DepositScan.  The scanner writes what it has read before, so the         *)
(* invariant also speaks of the row in the scanner's hands.                 *)

\* The count of allocations is the existence of the batch.
PostedIsBatch == \A d \in Deposits : posted[d] = IF d \in batch THEN 1 ELSE 0

\* A row that was read as ALLOCATED has a batch.
ReadHasBatch == \A x \in current : x.existing = "ALLOCATED" => x.d \in batch

DepositInv == TypeOK /\ PostedIsBatch /\ AllocatedHasBatch /\ ReadHasBatch /\ BatchHasWork

\* Allocating a deposit keeps the rows, the batches and the work in step.
LEMMA AllocateKeeps ==
  ASSUME DepositInv, NEW d \in Deposits, Allocatable(d), Allocate(d),
         current' \subseteq current
  PROVE  /\ status' \in [Deposits -> DepositStatus] /\ batch' \subseteq Deposits
         /\ posted' \in [Deposits -> Nat] /\ share' \in [Shares -> Deposits \cup {Free, Pending}]
         /\ PostedIsBatch' /\ AllocatedHasBatch' /\ ReadHasBatch' /\ BatchHasWork'
  <1> USE DEF DepositInv, TypeOK
  <1>1. /\ status' \in [Deposits -> DepositStatus] /\ batch' \subseteq Deposits
        /\ posted' \in [Deposits -> Nat] /\ share' \in [Shares -> Deposits \cup {Free, Pending}]
    BY DEF Allocate, DepositStatus, Work
  <1>2. PostedIsBatch'
    BY DEF PostedIsBatch, Allocate, Allocatable, BatchAccepts
  <1>3. AllocatedHasBatch' /\ ReadHasBatch'
    BY Zenon DEF AllocatedHasBatch, ReadHasBatch, Allocate
  <1>4. ASSUME NEW e \in batch'
        PROVE  \E s \in Shares : share'[s] = e
    <2>1. CASE e = d
      BY <2>1, Zenon DEF Allocatable, Allocate, Work
    <2>2. CASE e # d
      <3>1. PICK s \in Shares : share[s] = e
        BY <1>4, <2>2, Zenon DEF Allocate, BatchHasWork
      <3>2. s \notin Work
        BY <3>1, <1>4, <2>2, DepositsAssumption, Zenon DEF Work, Allocate
      <3> QED  BY <3>1, <3>2, Zenon DEF Allocate
    <2> QED  BY <2>1, <2>2, Zenon
  <1> QED  BY <1>1, <1>2, <1>3, <1>4, Zenon DEF BatchHasWork

LEMMA DepositInit == Init => DepositInv
  <1> SUFFICES ASSUME Init PROVE DepositInv
    BY Zenon
  <1>1. TypeOK
    BY Zenon DEF Init, TypeOK, DepositStatus
  <1>2. PostedIsBatch /\ AllocatedHasBatch /\ ReadHasBatch /\ BatchHasWork
    BY Zenon DEF Init, PostedIsBatch, AllocatedHasBatch, ReadHasBatch, BatchHasWork
  <1> QED  BY <1>1, <1>2, Zenon DEF DepositInv

LEMMA DepositStep == DepositInv /\ [Next]_vars => DepositInv'
  <1> SUFFICES ASSUME DepositInv, [Next]_vars PROVE DepositInv'
    BY Zenon
  <1> USE DEF DepositInv
  <1>1. ASSUME NEW d \in Deposits, ChainMoves(d) PROVE DepositInv'
    <2>1. TypeOK'
      BY <1>1 DEF ChainMoves, ledgerVars, scanVars, TypeOK
    <2>2. PostedIsBatch' /\ AllocatedHasBatch' /\ ReadHasBatch' /\ BatchHasWork'
      BY <1>1, Zenon DEF ChainMoves, ledgerVars, scanVars, PostedIsBatch, AllocatedHasBatch, ReadHasBatch,
                  BatchHasWork
    <2> QED  BY <2>1, <2>2, Zenon
  <1>2. ASSUME NEW d \in Deposits, AdminAllocates(d) PROVE DepositInv'
    <2>1. Allocatable(d) /\ Allocate(d) /\ UNCHANGED <<chain, scanning, receipts, current, alert, faults>>
      BY <1>2, Zenon DEF AdminAllocates, scanVars
    <2>2. /\ status' \in [Deposits -> DepositStatus] /\ batch' \subseteq Deposits
          /\ posted' \in [Deposits -> Nat] /\ share' \in [Shares -> Deposits \cup {Free, Pending}]
          /\ PostedIsBatch' /\ AllocatedHasBatch' /\ ReadHasBatch' /\ BatchHasWork'
      BY <2>1, AllocateKeeps, Zenon
    <2> QED  BY <2>1, <2>2, Zenon DEF TypeOK
  <1>3. ASSUME NEW s \in Shares, ShareAccepted(s) PROVE DepositInv'
    <2>1. TypeOK' /\ PostedIsBatch' /\ AllocatedHasBatch' /\ ReadHasBatch'
      BY <1>3, Zenon DEF ShareAccepted, scanVars, TypeOK, PostedIsBatch, AllocatedHasBatch, ReadHasBatch
    <2>2. BatchHasWork'
      BY <1>3, DepositsAssumption, Zenon DEF ShareAccepted, BatchHasWork, TypeOK
    <2> QED  BY <2>1, <2>2, Zenon
  <1>4. CASE ScanStart
    <2>1. ASSUME NEW r \in receipts' PROVE r \in Deposits \X BOOLEAN
      <3>1. PICK d \in Deposits : r = <<d, chain[d] = "locked">>
        BY <1>4, <2>1, Zenon DEF ScanStart, scanReceipts, Locked
      <3>2. (chain[d] = "locked") \in BOOLEAN
        BY Zenon
      <3> HIDE DEF DepositInv
      <3> QED  BY <3>1, <3>2, Zenon
    <2>2. TypeOK'
      BY <1>4, <2>1, Zenon DEF ScanStart, scanReceipts, ledgerVars, TypeOK
    <2>3. PostedIsBatch' /\ AllocatedHasBatch' /\ ReadHasBatch' /\ BatchHasWork'
      BY <1>4, Zenon DEF ScanStart, ledgerVars, PostedIsBatch, AllocatedHasBatch, ReadHasBatch, BatchHasWork
    <2> QED  BY <2>2, <2>3, Zenon
  <1>5. CASE ScanRead
    <2>1. PICK x \in receipts :
             /\ receipts' = receipts \ {x}
             /\ current' = {[d |-> x[1], locked |-> x[2], existing |-> status[x[1]], step |-> "write"]}
      BY <1>5, Zenon DEF ScanRead
    <2>2. x[1] \in Deposits /\ x[2] \in BOOLEAN
      BY <2>1, Zenon DEF TypeOK
    <2>3. TypeOK'
      BY <1>5, <2>1, <2>2 DEF ScanRead, ledgerVars, TypeOK, Visit
    <2>4. ReadHasBatch'
      BY <1>5, <2>1, <2>2 DEF ScanRead, ledgerVars, ReadHasBatch, AllocatedHasBatch
    <2> QED  BY <1>5, <2>3, <2>4, Zenon DEF ScanRead, ledgerVars, PostedIsBatch, AllocatedHasBatch, BatchHasWork
  <1>6. CASE ScanWrite
    <2>1. PICK x \in current :
             /\ x.step = "write"
             /\ \/ /\ Reorged(x)
                   /\ status' = [status EXCEPT ![x.d] = "REORGED"]
                   /\ current' = {[x EXCEPT !.step = "alert"]}
                \/ /\ status' = [status EXCEPT ![x.d] = Upserted(x)]
                   /\ current' = IF status'[x.d] = "CONFIRMED" THEN {[x EXCEPT !.step = "allocate"]} ELSE {}
      BY <1>6, Zenon DEF ScanWrite
    <2>2. x \in Visit
      BY <2>1, Zenon DEF TypeOK
    <2>3. Upserted(x) \in DepositStatus /\ (Upserted(x) = "ALLOCATED" => x.existing = "ALLOCATED")
      BY Zenon DEF Upserted, DepositStatus
    <2>4. status' \in [Deposits -> DepositStatus] /\ AllocatedHasBatch'
      BY <1>6, <2>1, <2>2, <2>3 DEF ScanWrite, TypeOK, Visit, DepositStatus, AllocatedHasBatch,
                                     ReadHasBatch, ledgerVars
    <2>5. /\ [x EXCEPT !.step = "alert"] \in Visit /\ [x EXCEPT !.step = "allocate"] \in Visit
          /\ [x EXCEPT !.step = "alert"].d = x.d /\ [x EXCEPT !.step = "allocate"].d = x.d
          /\ [x EXCEPT !.step = "alert"].existing = x.existing
          /\ [x EXCEPT !.step = "allocate"].existing = x.existing
      BY <2>2, Zenon DEF Visit
    <2>6. current' \subseteq Visit /\ ReadHasBatch'
      BY <1>6, <2>1, <2>5, Zenon DEF ScanWrite, ReadHasBatch, ledgerVars
    <2> QED  BY <1>6, <2>4, <2>6, Zenon DEF ScanWrite, ledgerVars, TypeOK, PostedIsBatch, BatchHasWork
  <1>7. CASE ScanAlert
    <2>1. TypeOK'
      BY <1>7, Zenon DEF ScanAlert, ledgerVars, scanVars, TypeOK, Visit
    <2>2. PostedIsBatch' /\ AllocatedHasBatch' /\ ReadHasBatch' /\ BatchHasWork'
      BY <1>7, Zenon DEF ScanAlert, ledgerVars, scanVars, PostedIsBatch, AllocatedHasBatch, ReadHasBatch,
                  BatchHasWork
    <2> QED  BY <2>1, <2>2, Zenon
  <1>8. CASE ScanAllocate
    <2>1. PICK x \in current : allocateDeposit(x.d)
      BY <1>8, Zenon DEF ScanAllocate
    <2>2. x.d \in Deposits
      BY <2>1, Zenon DEF TypeOK, Visit
    <2>3. CASE Allocatable(x.d)
      BY <1>8, <2>1, <2>2, <2>3, AllocateKeeps, Zenon DEF ScanAllocate, allocateDeposit, TypeOK
    <2>4. CASE ~Allocatable(x.d)
      BY <1>8, <2>1, <2>4, Zenon DEF ScanAllocate, allocateDeposit, ledgerVars, TypeOK, PostedIsBatch,
                             AllocatedHasBatch, ReadHasBatch, BatchHasWork
    <2> QED  BY <2>3, <2>4, Zenon
  <1>9. CASE ScanDone \/ ScanFails
    <2>0. /\ scanning' = FALSE /\ receipts' = {} /\ current' = {}
          /\ UNCHANGED <<chain, status, ledgerVars, alert>>
          /\ faults' \in Nat
      BY <1>9 DEF ScanDone, ScanFails, ScanEnd, TypeOK
    <2>1. TypeOK'
      BY <2>0, Zenon DEF ledgerVars, TypeOK
    <2>2. PostedIsBatch' /\ AllocatedHasBatch' /\ ReadHasBatch' /\ BatchHasWork'
      BY <1>9, Zenon DEF ScanDone, ScanFails, ScanEnd, ledgerVars, scanVars, PostedIsBatch, AllocatedHasBatch, ReadHasBatch,
                  BatchHasWork
    <2> QED  BY <2>1, <2>2, Zenon
  <1>10. CASE UNCHANGED vars
    BY <1>10, Zenon DEF vars, ledgerVars, scanVars, TypeOK, PostedIsBatch, AllocatedHasBatch, ReadHasBatch,
                 BatchHasWork
  <1> QED  BY <1>1, <1>2, <1>3, <1>4, <1>5, <1>6, <1>7, <1>8, <1>9, <1>10, Zenon DEF Next, ScanStep

\* The deposits move by their own steps only.
LEMMA DepositPart == JobsSpec => Init /\ [][Next]_vars
  <1>1. JobsInit => Init
    BY Zenon DEF JobsInit
  <1>2. [JobsNext]_allVars => [Next]_vars
    BY Zenon DEF JobsNext, InDeposits, allVars
  <1> QED  BY <1>1, <1>2, PTL DEF JobsSpec

\* allocateDeposit keeps deposits, batches and work together, whatever scanners,
\* administrators, reorganisations and restarts come between: a deposit is posted
\* once, an ALLOCATED row has its batch, and a batch has work of its own.
THEOREM AllocationSafe == JobsSpec => []AllocationsAreSound
  <1>1. DepositInv => AllocationsAreSound
    <2> SUFFICES ASSUME DepositInv PROVE AllocatedOnce
      BY Zenon DEF DepositInv, AllocationsAreSound
    <2>1. ASSUME NEW d \in Deposits PROVE posted[d] <= 1
      <3>1. posted[d] = 1 \/ posted[d] = 0
        BY Zenon DEF DepositInv, PostedIsBatch
      <3> QED  BY <3>1
    <2> QED  BY <2>1, Zenon DEF AllocatedOnce
  <1> QED  BY <1>1, DepositPart, DepositInit, DepositStep, PTL

-----------------------------------------------------------------------------
(* ShareAggregates.  A count is bounded by the shares that were ever         *)
(* accepted, and no share that the window of a job still sees is deleted.    *)

\* A share that was accepted is accepted still, or was deleted when it was old.
AcceptedIsKept ==
  \A s \in Shares : /\ s \in everAccepted => \/ result[s] = "ACCEPTED"
                                             \/ result[s] = "deleted" /\ at[s] < clock - Retention
                    /\ result[s] = "ACCEPTED" => s \in everAccepted

StatsInv == Stats!TypeOK /\ AcceptedIsKept /\ Stats!NeverOvercounts

LEMMA DivBounds ==
  ASSUME NEW t \in Nat, NEW len \in Nat \ {0}
  PROVE  t \div len \in Nat /\ (t \div len) * len <= t /\ t < (t \div len) * len + len
  OBVIOUS

LEMMA DivLeast ==
  ASSUME NEW t \in Nat, NEW len \in Nat \ {0}, NEW m \in Nat, m * len <= t
  PROVE  m <= t \div len
  <1> DEFINE d == t \div len
  <1>1. d \in Nat /\ t < d * len + len
    BY DivBounds, Zenon
  <1> HIDE DEF d
  <1>2. m * len < (d + 1) * len
    BY <1>1
  <1>3. m < d + 1
    BY <1>1, <1>2
  <1> QED  BY <1>1, <1>3 DEF d

\* The counts of the module are those of FiniteSets.
LEMMA SameCardinality == \A S : Stats!Cardinality(S) = Cardinality(S)
  BY Zenon DEF Stats!Cardinality, Cardinality

LEMMA Counts ==
  ASSUME NEW Y \in SUBSET Shares, NEW X \in SUBSET Y
  PROVE  /\ Stats!Cardinality(X) \in Nat /\ Stats!Cardinality(Y) \in Nat
         /\ Stats!Cardinality(X) <= Stats!Cardinality(Y)
  <1>1. IsFiniteSet(Y)
    BY AggregateAssumption, FS_Subset, Zenon
  <1>2. IsFiniteSet(X) /\ Cardinality(X) <= Cardinality(Y)
    BY <1>1, FS_Subset, Zenon
  <1>3. Cardinality(X) \in Nat /\ Cardinality(Y) \in Nat
    BY <1>1, <1>2, FS_CardinalityType, Zenon
  <1> QED  BY <1>2, <1>3, SameCardinality, Zenon

\* The shares that a bucket may count.
Earned(k, b) == {s \in everAccepted : Stats!Bucket(k, at[s]) = b}

\* What leaves the rows alone and takes no share from a bucket keeps the bound.
LEMMA BoundKept ==
  ASSUME StatsInv, everAccepted' \subseteq Shares, aggregates' = aggregates,
         \A k \in Stats!Strides, b \in Stats!Buckets : Earned(k, b) \subseteq Earned(k, b)'
  PROVE  Stats!NeverOvercounts'
  <1> SUFFICES ASSUME NEW k \in Stats!Strides, NEW b \in Stats!Buckets
               PROVE  aggregates[k][b].accepted <= Stats!Cardinality(Earned(k, b)')
    BY Zenon DEF Stats!NeverOvercounts, Earned
  <1>1. aggregates[k][b].accepted \in Nat
    <2>1. Stats!Cardinality(Shares) \in Nat
      BY Counts, Zenon
    <2> QED  BY <2>1 DEF StatsInv, Stats!TypeOK
  <1>2. aggregates[k][b].accepted <= Stats!Cardinality(Earned(k, b))
    BY Zenon DEF StatsInv, Stats!NeverOvercounts, Earned
  <1>3. Earned(k, b)' \in SUBSET Shares
    BY Zenon DEF Earned
  <1>4. Earned(k, b) \in SUBSET Earned(k, b)'
    BY Zenon
  <1>5. /\ Stats!Cardinality(Earned(k, b)) \in Nat /\ Stats!Cardinality(Earned(k, b)') \in Nat
        /\ Stats!Cardinality(Earned(k, b)) <= Stats!Cardinality(Earned(k, b)')
    BY <1>3, <1>4, Counts, Zenon
  <1> QED  BY <1>1, <1>2, <1>5

\* What a job counts was accepted, and is no more than the bound.
LEMMA GroupedBounds ==
  ASSUME StatsInv, NEW k \in Stats!Strides, NEW b \in Stats!Buckets
  PROVE  /\ Stats!Grouped(k, b, "ACCEPTED") \in 0..Stats!Cardinality(Shares)
         /\ Stats!Grouped(k, b, "REJECTED") \in 0..Stats!Cardinality(Shares)
         /\ Stats!Grouped(k, b, "ACCEPTED") <= Stats!Cardinality(Earned(k, b))
  <1> DEFINE counted(st) == {s \in Shares : /\ result[s] = st /\ at[s] >= clock - Window[k]
                                            /\ Stats!Bucket(k, at[s]) = b}
  <1>1. \A st : Stats!Grouped(k, b, st) = Stats!Cardinality(counted(st)) /\ counted(st) \in SUBSET Shares
    BY Zenon DEF Stats!Grouped
  <1>2. counted("ACCEPTED") \in SUBSET Earned(k, b) /\ Earned(k, b) \in SUBSET Shares
    BY Zenon DEF StatsInv, AcceptedIsKept, Earned, Stats!TypeOK
  <1> HIDE DEF counted
  <1>3. \A st : /\ Stats!Cardinality(counted(st)) \in Nat /\ Stats!Cardinality(Shares) \in Nat
                /\ Stats!Cardinality(counted(st)) <= Stats!Cardinality(Shares)
    BY <1>1, Counts, Zenon
  <1>4. Stats!Cardinality(counted("ACCEPTED")) <= Stats!Cardinality(Earned(k, b))
    BY <1>2, Counts, Zenon
  <1> QED  BY <1>1, <1>3, <1>4

LEMMA StatsInit == Stats!Init => StatsInv
  <1> SUFFICES ASSUME Stats!Init PROVE StatsInv
    BY Zenon
  <1>1. Stats!Cardinality(Shares) \in Nat
    BY Counts, Zenon
  <1>2. Stats!TypeOK /\ AcceptedIsKept
    BY <1>1, AggregateAssumption DEF Stats!Init, Stats!TypeOK, AcceptedIsKept
  <1>3. ASSUME NEW k \in Stats!Strides, NEW b \in Stats!Buckets
        PROVE  aggregates[k][b].accepted <= Stats!Cardinality(Earned(k, b))
    <2>1. Earned(k, b) \in SUBSET Shares
      BY Zenon DEF Earned, Stats!Init
    <2>2. Stats!Cardinality(Earned(k, b)) \in Nat
      BY <2>1, Counts, Zenon
    <2> QED  BY <2>2 DEF Stats!Init
  <1> QED  BY <1>2, <1>3, Zenon DEF StatsInv, Stats!NeverOvercounts, Earned

LEMMA UpsertKeeps == StatsInv /\ Stats!UpsertBuckets => StatsInv'
  <1> SUFFICES ASSUME StatsInv, Stats!UpsertBuckets PROVE StatsInv'
    BY Zenon
  <1>0. Stats!TypeOK /\ AcceptedIsKept /\ UNCHANGED <<clock, at, result, allocated, everAccepted>>
    BY Zenon DEF StatsInv, Stats!UpsertBuckets
  <1>1. job \in Stats!Strides /\ job' \in 0..NStrides
    BY <1>0, AggregateAssumption DEF Stats!UpsertBuckets, Stats!TypeOK, Stats!Strides, Stats!NextStride
  <1> DEFINE rows == [b \in Stats!Buckets |->
               IF Stats!Grouped(job, b, "ACCEPTED") + Stats!Grouped(job, b, "REJECTED") = 0
               THEN aggregates[job][b]
               ELSE Stats!Upserted(aggregates[job][b], Stats!Grouped(job, b, "ACCEPTED"),
                                   Stats!Grouped(job, b, "REJECTED"))]
             Row == [accepted : 0..Stats!Cardinality(Shares), rejected : 0..Stats!Cardinality(Shares)]
  <1>2. aggregates' = [aggregates EXCEPT ![job] = rows]
    BY <1>0, <1>1, Zenon DEF Stats!UpsertBuckets, Stats!TypeOK
  <1>3. aggregates \in [Stats!Strides -> [Stats!Buckets -> Row]]
    BY <1>0, Zenon DEF Stats!TypeOK
  <1>4. ASSUME NEW b \in Stats!Buckets
        PROVE  rows[b] \in Row /\ rows[b].accepted <= Stats!Cardinality(Earned(job, b))
    <2>1. aggregates[job][b] \in Row /\ aggregates[job][b].accepted <= Stats!Cardinality(Earned(job, b))
      BY <1>1, <1>3, Zenon DEF StatsInv, Stats!NeverOvercounts, Earned
    <2>2. /\ Stats!Grouped(job, b, "ACCEPTED") \in 0..Stats!Cardinality(Shares)
          /\ Stats!Grouped(job, b, "REJECTED") \in 0..Stats!Cardinality(Shares)
          /\ Stats!Grouped(job, b, "ACCEPTED") <= Stats!Cardinality(Earned(job, b))
      BY <1>1, GroupedBounds, Zenon
    <2> QED  BY <2>1, <2>2, Zenon DEF Stats!Upserted
  <1>5. rows \in [Stats!Buckets -> Row]
    BY <1>4, Zenon
  <1> HIDE DEF rows, Row
  <1>6. aggregates' \in [Stats!Strides -> [Stats!Buckets -> Row]]
    BY <1>2, <1>3, <1>5, Zenon
  <1>7. Stats!TypeOK' /\ AcceptedIsKept'
    BY <1>0, <1>1, <1>6, Zenon DEF Row, Stats!TypeOK, AcceptedIsKept
  <1>8. ASSUME NEW k \in Stats!Strides, NEW b \in Stats!Buckets
        PROVE  aggregates'[k][b].accepted <= Stats!Cardinality(Earned(k, b)')
    <2>1. Earned(k, b)' = Earned(k, b)
      BY <1>0, Zenon DEF Earned, Stats!Bucket
    <2>2. CASE k = job
      BY <1>1, <1>2, <1>3, <1>4, <2>1, <2>2, Zenon
    <2>3. CASE k # job
      BY <1>2, <1>3, <2>1, <2>3, Zenon DEF StatsInv, Stats!NeverOvercounts, Earned
    <2> QED  BY <2>2, <2>3, Zenon
  <1> QED  BY <1>7, <1>8, Zenon DEF StatsInv, Stats!NeverOvercounts, Earned

LEMMA StatsStep == StatsInv /\ [Stats!Next]_statsVars => StatsInv'
  <1> SUFFICES ASSUME StatsInv, [Stats!Next]_statsVars PROVE StatsInv'
    BY Zenon
  <1>0. Stats!TypeOK /\ AcceptedIsKept
    BY Zenon DEF StatsInv
  <1> USE DEF Earned, Stats!Bucket
  <1>1. CASE Stats!Tick
    <2>1. Stats!TypeOK' /\ AcceptedIsKept'
      BY <1>0, <1>1, AggregateAssumption DEF Stats!Tick, Stats!TypeOK, AcceptedIsKept
    <2>2. Stats!NeverOvercounts'
      BY <1>0, <1>1, BoundKept, Zenon DEF Stats!Tick, Stats!TypeOK
    <2> QED  BY <2>1, <2>2, Zenon DEF StatsInv
  <1>2. ASSUME NEW s \in Shares, Stats!Submit(s) PROVE StatsInv'
    <2>1. s \notin everAccepted
      BY <1>0, <1>2, Zenon DEF Stats!Submit, AcceptedIsKept
    <2>2. Stats!TypeOK' /\ AcceptedIsKept'
      BY <1>0, <1>2, <2>1, Zenon DEF Stats!Submit, Stats!TypeOK, AcceptedIsKept
    <2>3. /\ everAccepted' = everAccepted /\ everAccepted \subseteq Shares /\ aggregates' = aggregates
          /\ \A x \in everAccepted : at'[x] = at[x]
      BY <1>0, <1>2, <2>1, Zenon DEF Stats!Submit, Stats!TypeOK
    <2>4. Stats!NeverOvercounts'
      BY <2>3, BoundKept, Zenon
    <2> QED  BY <2>2, <2>4, Zenon DEF StatsInv
  <1>3. ASSUME NEW s \in Shares, NEW r \in {"ACCEPTED", "REJECTED", "UNKNOWN"}, Stats!Resolve(s, r)
        PROVE  StatsInv'
    <2>1. Stats!TypeOK' /\ AcceptedIsKept'
      BY <1>0, <1>3, Zenon DEF Stats!Resolve, Stats!TypeOK, AcceptedIsKept
    <2>2. /\ everAccepted \subseteq everAccepted' /\ everAccepted' \subseteq Shares
          /\ UNCHANGED <<aggregates, at>>
      BY <1>0, <1>3, Zenon DEF Stats!Resolve, Stats!TypeOK
    <2>3. Stats!NeverOvercounts'
      BY <2>2, BoundKept, Zenon
    <2> QED  BY <2>1, <2>3, Zenon DEF StatsInv
  <1>4. ASSUME NEW s \in Shares, Stats!Allocate(s) PROVE StatsInv'
    <2>1. Stats!TypeOK' /\ AcceptedIsKept'
      BY <1>0, <1>4, Zenon DEF Stats!Allocate, Stats!TypeOK, AcceptedIsKept
    <2>2. Stats!NeverOvercounts'
      BY <1>0, <1>4, BoundKept, Zenon DEF Stats!Allocate, Stats!TypeOK
    <2> QED  BY <2>1, <2>2, Zenon DEF StatsInv
  <1>5. CASE Stats!Aggregate \/ Stats!AggregateFails
    <2>1. Stats!TypeOK' /\ AcceptedIsKept'
      BY <1>0, <1>5, AggregateAssumption
      DEF Stats!Aggregate, Stats!AggregateFails, Stats!TypeOK, AcceptedIsKept
    <2>2. Stats!NeverOvercounts'
      BY <1>0, <1>5, BoundKept, Zenon DEF Stats!Aggregate, Stats!AggregateFails, Stats!TypeOK
    <2> QED  BY <2>1, <2>2, Zenon DEF StatsInv
  <1>6. CASE Stats!PruneRawShares
    <2>1. Stats!TypeOK' /\ AcceptedIsKept'
      BY <1>0, <1>6, Zenon DEF Stats!PruneRawShares, Stats!Prunable, Stats!TypeOK, AcceptedIsKept
    <2>2. Stats!NeverOvercounts'
      BY <1>0, <1>6, BoundKept, Zenon DEF Stats!PruneRawShares, Stats!TypeOK
    <2> QED  BY <2>1, <2>2, Zenon DEF StatsInv
  <1>7. CASE UNCHANGED statsVars
    <2>1. Stats!TypeOK' /\ AcceptedIsKept'
      BY <1>0, <1>7, Zenon DEF statsVars, Stats!TypeOK, AcceptedIsKept
    <2>2. Stats!NeverOvercounts'
      BY <1>0, <1>7, BoundKept, Zenon DEF statsVars, Stats!TypeOK
    <2> QED  BY <2>1, <2>2, Zenon DEF StatsInv
  <1> QED  BY <1>1, <1>2, <1>3, <1>4, <1>5, <1>6, <1>7, UpsertKeeps, Zenon DEF Stats!Next

LEMMA StatsPart == JobsSpec => Stats!Init /\ [][Stats!Next]_statsVars
  <1>1. JobsInit => Stats!Init
    BY Zenon DEF JobsInit
  <1>2. [JobsNext]_allVars => [Stats!Next]_statsVars
    BY Zenon DEF JobsNext, InDeposits, allVars
  <1> QED  BY <1>1, <1>2, PTL DEF JobsSpec

\* The jobs of share-maintenance.service.ts look back over overlapping windows,
\* fail half way and begin again, and shares are pruned meanwhile: a bucket
\* never shows more accepted shares than were accepted in its time.
THEOREM NothingCountedTwice == JobsSpec => []NeverOvercounts
  <1>1. StatsInv => NeverOvercounts
    BY Zenon DEF StatsInv, NeverOvercounts
  <1> QED  BY <1>1, StatsPart, StatsInit, StatsStep, PTL

LEMMA StrideTypes ==
  ASSUME NEW k \in Stats!Strides, NEW b \in Stats!Buckets
  PROVE  b \in Nat /\ Window[k] \in Nat /\ BucketLen[k] \in Nat \ {0} /\ b * BucketLen[k] \in Nat
  <1>1. b \in Nat
    BY AggregateAssumption DEF Stats!Buckets
  <1>2. Window[k] \in Nat /\ BucketLen[k] \in Nat \ {0}
    BY AggregateAssumption, Zenon DEF Stats!Strides
  <1> QED  BY <1>1, <1>2

\* In a bucket that the window of the job covers, the job sees every share that
\* was ever accepted.
LEMMA CoveredIsSeen ==
  ASSUME StatsInv, NEW k \in Stats!Strides, NEW b \in Stats!Buckets,
         Retention >= Window[k], b * BucketLen[k] >= clock - Window[k]
  PROVE  Stats!Grouped(k, b, "ACCEPTED") = Stats!Cardinality(Earned(k, b))
  <1>0. /\ clock \in Nat /\ at \in [Shares -> Nat] /\ everAccepted \subseteq Shares
        /\ b \in Nat /\ Window[k] \in Nat /\ Retention \in Nat /\ BucketLen[k] \in Nat \ {0}
    <2>1. clock \in 0..StatsTime /\ at \in [Shares -> 0..StatsTime] /\ everAccepted \subseteq Shares
      BY Zenon DEF StatsInv, Stats!TypeOK
    <2>2. 0..StatsTime \subseteq Nat /\ Retention \in Nat
      BY AggregateAssumption
    <2> QED  BY <2>1, <2>2, StrideTypes, Zenon
  <1>1. ASSUME NEW s \in everAccepted, Stats!Bucket(k, at[s]) = b
        PROVE  at[s] >= clock - Window[k] /\ result[s] = "ACCEPTED"
    <2>1. at[s] \in Nat /\ at[s] \div BucketLen[k] = b
      BY <1>0, <1>1, Zenon DEF Stats!Bucket
    <2>2. b * BucketLen[k] <= at[s]
      BY <1>0, <2>1, DivBounds, Zenon
    <2>3. b * BucketLen[k] \in Nat
      BY <1>0
    <2>4. at[s] >= clock - Window[k]
      BY <1>0, <2>1, <2>2, <2>3
    <2>5. ~(at[s] < clock - Retention)
      BY <1>0, <2>1, <2>4
    <2> QED  BY <1>0, <2>4, <2>5, Zenon DEF StatsInv, AcceptedIsKept
  <1>2. \A s \in Shares : result[s] = "ACCEPTED" => s \in everAccepted
    BY Zenon DEF StatsInv, AcceptedIsKept
  <1>3. {s \in Shares : result[s] = "ACCEPTED" /\ at[s] >= clock - Window[k] /\ Stats!Bucket(k, at[s]) = b}
          = Earned(k, b)
    BY <1>0, <1>1, <1>2, Zenon DEF Earned
  <1> QED  BY <1>3, Zenon DEF Stats!Grouped

LEMMA FallsStep == StatsInv /\ [Stats!Next]_statsVars => [Stats!FallsAtTheEdge]_statsVars
  <1> SUFFICES ASSUME StatsInv, Stats!Next, NEW k \in Stats!Strides, NEW b \in Stats!Buckets,
                      aggregates'[k][b].accepted < aggregates[k][b].accepted, Retention >= Window[k]
               PROVE  b * BucketLen[k] < clock - Window[k]
    BY Zenon DEF Stats!FallsAtTheEdge
  <1>0. /\ aggregates[k][b].accepted \in Nat
        /\ aggregates[k][b].accepted <= Stats!Cardinality(Earned(k, b))
    <2>1. Stats!Cardinality(Shares) \in Nat
      BY Counts, Zenon
    <2> QED  BY <2>1 DEF StatsInv, Stats!TypeOK, Stats!NeverOvercounts, Earned
  <1>1. Stats!UpsertBuckets
    <2>1. aggregates' # aggregates
      BY <1>0
    <2> QED  BY <2>1, Zenon DEF Stats!Next, Stats!Tick, Stats!Aggregate, Stats!AggregateFails, Stats!PruneRawShares,
                    Stats!Submit, Stats!Allocate, Stats!Resolve
  <1>2. k = job /\ aggregates'[k][b].accepted = Stats!Grouped(k, b, "ACCEPTED")
    BY <1>0, <1>1 DEF Stats!UpsertBuckets, Stats!Upserted, StatsInv, Stats!TypeOK
  <1>3. Earned(k, b) \in SUBSET Shares
    BY Zenon DEF Earned, StatsInv, Stats!TypeOK
  <1>4. Stats!Cardinality(Earned(k, b)) \in Nat
    BY <1>3, Counts, Zenon
  <1>5. ~(b * BucketLen[k] >= clock - Window[k])
    BY <1>0, <1>2, <1>4, CoveredIsSeen
  <1>6. b * BucketLen[k] \in Nat /\ clock \in Nat /\ Window[k] \in Nat
    BY StrideTypes, AggregateAssumption DEF StatsInv, Stats!TypeOK
  <1> QED  BY <1>5, <1>6

\* If raw shares are retained for as long as a job of share-maintenance looks
\* back, the accepted count of a bucket falls only where the window begins.
THEOREM CountsFallAtTheEdge == JobsSpec => FallsOnlyAtTheEdge
  BY StatsPart, StatsInit, StatsStep, FallsStep, PTL DEF FallsOnlyAtTheEdge

-----------------------------------------------------------------------------
(* PayoutSchedule.  A claim that ends within a unit of the timer claims the   *)
(* slot of now, which the one slot that is stored tells apart from all that   *)
(* were claimed before.                                                       *)

\* The kind of slot that a claim of now computes, and the slots of now.
TagOf(k) == IF k = "operator" \/ mode = "DAILY" THEN "daily" ELSE "interval"
Index(tag) == IF tag = "daily" THEN Schedule!Day ELSE Schedule!IntervalIndex
Current(tag) == <<tag, Index(tag)>>

\* While claims are quick, one call at most is under way.
OneCall ==
  /\ \A c, d \in Calls : call[c].step # "idle" /\ call[d].step # "idle" => c = d
  /\ timer => \A c \in Calls : call[c].step # "claim"

\* What has been taken is past or of now; before the first change of the policy
\* it is of the kind that the policy has.
TakenIsPast ==
  \A k \in Schedule!Kinds, s \in Schedule!Slots :
    taken[k][s] > 0 => s[2] <= Index(s[1]) /\ (saves = 0 => s[1] = TagOf(k))

LastIsTaken == \A k \in Schedule!Kinds : lastSlot[k] # Schedule!NoSlot => taken[k][lastSlot[k]] > 0

\* The one slot that is stored is enough to see whether the slot of now is taken.
LastIsNewest ==
  MaxSaves <= 1 =>
    \A k \in Schedule!Kinds : taken[k][Current(TagOf(k))] > 0 => lastSlot[k] = Current(TagOf(k))

\* A slot in the hands of a call is the one of now; it may be of the old policy,
\* and then none of the new one has been taken.
HasSlot(c, k) == call[c].step = "claim" /\ call[c].claim[k] = "slot"
PendingIsCurrent ==
  \A c \in Calls, k \in Schedule!Kinds :
    HasSlot(c, k) =>
      /\ call[c].slot[k] \in {Current("daily"), Current("interval")}
      /\ call[c].slot[k] = Current("daily") => Schedule!DailyDue
      /\ saves = 0 => call[c].slot[k] = Current(TagOf(k))
      /\ MaxSaves <= 1 =>
           /\ taken[k][call[c].slot[k]] > 0 => lastSlot[k] = call[c].slot[k]
           /\ call[c].slot[k] # Current(TagOf(k)) =>
                \A s \in Schedule!Slots : s[1] = TagOf(k) => taken[k][s] = 0

\* What is announced is the beginning of the slot after the last one.
AfterSlot(s) == IF s[1] = "interval" THEN s[2] * Interval + Offset ELSE (s[2] + 1) * DayLen + DailyTime
AnnouncedIsNext ==
  saves = 0 /\ lastSlot["customer"] # Schedule!NoSlot => announced = AfterSlot(lastSlot["customer"])

ScheduleInv ==
  /\ Schedule!TypeOK /\ OneCall /\ TakenIsPast /\ LastIsTaken /\ LastIsNewest
  /\ PendingIsCurrent /\ AnnouncedIsNext
  /\ MaxSaves <= 1 => Schedule!SlotOnce

Clock == now \in 0..MaxTime

LEMMA DivMost ==
  ASSUME NEW t \in Nat, NEW len \in Nat \ {0}, NEW m \in Nat, t < m * len + len
  PROVE  t \div len <= m
  <1> DEFINE d == t \div len
  <1>1. d \in Nat /\ d * len <= t
    BY DivBounds, Zenon
  <1> HIDE DEF d
  <1>2. d * len < (m + 1) * len
    BY <1>1
  <1>3. d < m + 1
    BY <1>1, <1>2
  <1> QED  BY <1>1, <1>3 DEF d

LEMMA IndexTypes ==
  ASSUME Clock
  PROVE  /\ Schedule!Day \in 0..(MaxTime + 1) /\ Schedule!IntervalIndex \in 0..(MaxTime + 1)
         /\ now \in Nat /\ now + Interval - Offset \in Nat
         /\ \A tag \in {"daily", "interval"} : Current(tag) \in Schedule!Slots
  <1>0. now \in Nat /\ now <= MaxTime /\ MaxTime \in Nat /\ now + Interval - Offset \in Nat
    BY ScheduleAssumption DEF Clock
  <1>1. now < now * DayLen + DayLen
    BY <1>0, ScheduleAssumption
  <1>2. Schedule!Day \in Nat /\ Schedule!Day <= now
    BY <1>0, <1>1, ScheduleAssumption, DivMost, DivBounds, Zenon DEF Schedule!Day
  <1>3. now + Interval - Offset < (now + 1) * Interval + Interval
    <2>1. now <= now * Interval
      BY <1>0, ScheduleAssumption
    <2>2. (now + 1) * Interval = now * Interval + Interval /\ now * Interval \in Nat
      BY <1>0, ScheduleAssumption
    <2> QED  BY <1>0, <2>1, <2>2, ScheduleAssumption
  <1>4. Schedule!IntervalIndex \in Nat /\ Schedule!IntervalIndex <= now + 1
    BY <1>0, <1>3, ScheduleAssumption, DivMost, DivBounds DEF Schedule!IntervalIndex
  <1>5. Schedule!Day \in 0..(MaxTime + 1) /\ Schedule!IntervalIndex \in 0..(MaxTime + 1)
    BY <1>0, <1>2, <1>4
  <1> QED  BY <1>0, <1>5, Zenon DEF Current, Index, Schedule!Slots

LEMMA IndexRange == Clock => \A tag : Index(tag) \in 0..(MaxTime + 1)
  BY IndexTypes, Zenon DEF Index

LEMMA IndexRangeNext == Clock' => (\A tag : Index(tag) \in 0..(MaxTime + 1))'
  BY IndexRange, PTL

LEMMA IndexGrows ==
  ASSUME Clock, now' = now + 1
  PROVE  \A tag : Index(tag) <= Index(tag)'
  <1>0. now \in Nat /\ now + Interval - Offset \in Nat
    BY IndexTypes, Zenon
  <1>1. Schedule!Day <= Schedule!Day'
    <2>1. now \div DayLen \in Nat /\ (now \div DayLen) * DayLen <= now
      BY <1>0, DivBounds, ScheduleAssumption, Zenon
    <2>2. now + 1 \in Nat /\ (now \div DayLen) * DayLen <= now + 1
      BY <1>0, <2>1, ScheduleAssumption
    <2>3. now \div DayLen <= (now + 1) \div DayLen
      BY <2>1, <2>2, DivLeast, ScheduleAssumption, Zenon
    <2> QED  BY <2>3, Zenon DEF Schedule!Day
  <1>2. Schedule!IntervalIndex <= Schedule!IntervalIndex'
    <2> DEFINE t == now + Interval - Offset
    <2>1. t \div Interval \in Nat /\ (t \div Interval) * Interval <= t
      BY <1>0, DivBounds, ScheduleAssumption, Zenon
    <2>2. t + 1 \in Nat /\ (t \div Interval) * Interval <= t + 1
      BY <1>0, <2>1, ScheduleAssumption
    <2>3. t \div Interval <= (t + 1) \div Interval
      BY <2>1, <2>2, DivLeast, ScheduleAssumption, Zenon
    <2>4. now' + Interval - Offset = t + 1
      BY <1>0, ScheduleAssumption
    <2> HIDE DEF t
    <2>5. Schedule!IntervalIndex = t \div Interval
      BY Zenon DEF t, Schedule!IntervalIndex
    <2>6. Schedule!IntervalIndex' = (t + 1) \div Interval
      BY <2>4, Zenon DEF Schedule!IntervalIndex
    <2> QED  BY <2>3, <2>5, <2>6, Zenon
  <1> QED  BY <1>1, <1>2, Zenon DEF Index

CallRecord == [step : {"idle", "claim", "pay"}, claim : Schedule!Claims,
               slot : [Schedule!Kinds -> Schedule!Slots \cup {Schedule!NoSlot}]]

\* What a step of a call leaves alone unless it claims a slot.
ledger == <<now, mode, saves, lastSlot, taken, announced>>

SlotFacts ==
  /\ TakenIsPast /\ LastIsTaken /\ LastIsNewest /\ AnnouncedIsNext
  /\ MaxSaves <= 1 => Schedule!SlotOnce

LEMMA ScheduleParts ==
  ScheduleInv <=> Schedule!TypeOK /\ OneCall /\ PendingIsCurrent /\ SlotFacts
  BY Zenon DEF ScheduleInv, SlotFacts

LEMMA NextTypes == Clock => \A md : Schedule!NextPayoutAt(md) \in Nat
  <1> SUFFICES ASSUME Clock, NEW md PROVE Schedule!NextPayoutAt(md) \in Nat
    BY Zenon
  <1>1. Schedule!Day \in Nat /\ Schedule!IntervalIndex \in Nat
    BY IndexTypes, ScheduleAssumption
  <1>2. DayLen \in Nat /\ DailyTime \in Nat /\ Interval \in Nat /\ Offset \in Nat
    BY ScheduleAssumption
  <1>3. /\ Schedule!IntervalIndex * Interval + Offset \in Nat
        /\ Schedule!Day * DayLen + DailyTime \in Nat /\ (Schedule!Day + 1) * DayLen + DailyTime \in Nat
    BY <1>1, <1>2
  <1> QED  BY <1>3, Zenon DEF Schedule!NextPayoutAt

LEMMA ScheduleInit == Schedule!Init => ScheduleInv
  <1> SUFFICES ASSUME Schedule!Init PROVE ScheduleInv
    BY Zenon
  <1>0. Clock /\ announced \in Nat
    BY NextTypes, ScheduleAssumption DEF Schedule!Init, Clock
  <1>1. call \in [Calls -> CallRecord] /\ \A c \in Calls : call[c].step = "idle"
    BY Zenon DEF Schedule!Init, Schedule!Idle, CallRecord, Schedule!Claims
  <1>2. Schedule!TypeOK
    <2>1. /\ taken \in [Schedule!Kinds -> [Schedule!Slots -> Nat]]
          /\ lastSlot \in [Schedule!Kinds -> Schedule!Slots \cup {Schedule!NoSlot}]
      BY Zenon DEF Schedule!Init
    <2>2. timer \in BOOLEAN /\ mode \in Schedule!Modes /\ running = FALSE
      BY Zenon DEF Schedule!Init
    <2>3. saves \in 0..MaxSaves
      BY ScheduleAssumption DEF Schedule!Init
    <2> QED  BY <1>0, <1>1, <2>1, <2>2, <2>3, Zenon DEF Schedule!TypeOK, CallRecord, Clock
  <1>3. OneCall /\ PendingIsCurrent
    BY <1>1, Zenon DEF OneCall, PendingIsCurrent, HasSlot, Schedule!Init
  <1>4. \A k \in Schedule!Kinds : /\ lastSlot[k] = Schedule!NoSlot
                                  /\ \A s \in Schedule!Slots : taken[k][s] = 0
    BY Zenon DEF Schedule!Init
  <1>5. \A k : Current(TagOf(k)) \in Schedule!Slots
    BY <1>0, IndexTypes, Zenon DEF TagOf
  <1>6. SlotFacts
    BY <1>4, <1>5 DEF SlotFacts, TakenIsPast, LastIsTaken, LastIsNewest, AnnouncedIsNext, Schedule!SlotOnce,
                      Schedule!Kinds
  <1> QED  BY <1>2, <1>3, <1>6, ScheduleParts, Zenon

LEMMA SlotFactsKept == SlotFacts /\ UNCHANGED ledger => SlotFacts'
  <1> SUFFICES ASSUME SlotFacts, UNCHANGED ledger PROVE SlotFacts'
    BY Zenon
  <1>1. \A tag : Index(tag)' = Index(tag) /\ Current(tag)' = Current(tag)
    BY Zenon DEF ledger, Index, Current, Schedule!Day, Schedule!IntervalIndex
  <1>2. \A k : TagOf(k)' = TagOf(k)
    BY Zenon DEF ledger, TagOf
  <1>3. TakenIsPast' /\ LastIsTaken'
    BY <1>1, <1>2, Zenon DEF SlotFacts, ledger, TakenIsPast, LastIsTaken
  <1>4. LastIsNewest'
    BY <1>1, <1>2, Zenon DEF SlotFacts, ledger, LastIsNewest, Current, Index, TagOf, Schedule!Day, Schedule!IntervalIndex
  <1>5. AnnouncedIsNext' /\ (MaxSaves <= 1 => Schedule!SlotOnce')
    BY Zenon DEF SlotFacts, ledger, AnnouncedIsNext, AfterSlot, Schedule!SlotOnce
  <1> QED  BY <1>3, <1>4, <1>5, Zenon DEF SlotFacts

\* What is known of a slot in the hands of a call.
Held(k, s) ==
  /\ s \in {Current("daily"), Current("interval")}
  /\ s = Current("daily") => Schedule!DailyDue
  /\ saves = 0 => s = Current(TagOf(k))
  /\ MaxSaves <= 1 =>
       /\ taken[k][s] > 0 => lastSlot[k] = s
       /\ s # Current(TagOf(k)) => \A x \in Schedule!Slots : x[1] = TagOf(k) => taken[k][x] = 0

LEMMA PendingHeld ==
  PendingIsCurrent <=> \A c \in Calls, k \in Schedule!Kinds : HasSlot(c, k) => Held(k, call[c].slot[k])
  BY Zenon DEF PendingIsCurrent, Held

\* A call that takes no new slot in its hands.
LEMMA PendingKept ==
  ASSUME PendingIsCurrent, UNCHANGED ledger,
         \A c \in Calls, k \in Schedule!Kinds :
           HasSlot(c, k)' => HasSlot(c, k) /\ call'[c].slot[k] = call[c].slot[k]
  PROVE  PendingIsCurrent'
  <1>1. ASSUME NEW c \in Calls, NEW k \in Schedule!Kinds, HasSlot(c, k)'
        PROVE  Held(k, call[c].slot[k])'
    <2>1. Held(k, call[c].slot[k]) /\ call'[c].slot[k] = call[c].slot[k]
      BY <1>1, PendingHeld, Zenon
    <2> QED
      BY <2>1, Zenon DEF ledger, Held, Current, Index, TagOf, Schedule!Day, Schedule!IntervalIndex, Schedule!DailyDue
  <1> QED  BY <1>1, Zenon DEF PendingIsCurrent, Held

\* A step of calls that claims nothing.
LEMMA CallsMove ==
  ASSUME ScheduleInv, UNCHANGED ledger, timer' \in BOOLEAN, running' \in BOOLEAN,
         call' \in [Calls -> CallRecord], running' <=> \E c \in Calls : call'[c].step = "pay",
         OneCall',
         \A c \in Calls, k \in Schedule!Kinds :
           HasSlot(c, k)' => HasSlot(c, k) /\ call'[c].slot[k] = call[c].slot[k]
  PROVE  ScheduleInv'
  <1>1. PendingIsCurrent' /\ SlotFacts'
    BY ScheduleParts, PendingKept, SlotFactsKept, Zenon
  <1>2. Schedule!TypeOK'
    BY Zenon DEF ScheduleInv, Schedule!TypeOK, CallRecord, ledger
  <1> QED  BY <1>1, <1>2, Zenon DEF ScheduleInv, SlotFacts

LEMMA SimpleSteps ==
  ASSUME ~SlowClaims, ScheduleInv, NEW c \in Calls, Schedule!Scheduled(c) \/ Schedule!Proceed(c) \/ Schedule!Finish(c)
  PROVE  ScheduleInv'
  <1>0. /\ call \in [Calls -> CallRecord] /\ timer \in BOOLEAN /\ running \in BOOLEAN /\ OneCall
        /\ running <=> \E d \in Calls : call[d].step = "pay"
    BY Zenon DEF ScheduleInv, Schedule!TypeOK, CallRecord
  <1>1. Schedule!Idle \in CallRecord /\ Schedule!Idle.step = "idle"
    BY Zenon DEF Schedule!Idle, CallRecord, Schedule!Claims
  <1>2. /\ Schedule!Claiming \in CallRecord /\ Schedule!Claiming.step = "claim"
        /\ \A k \in Schedule!Kinds : Schedule!Claiming.claim[k] = "begin"
    BY Zenon DEF Schedule!Claiming, CallRecord, Schedule!Claims
  <1>3. CASE Schedule!Scheduled(c)
    <2>1. UNCHANGED <<ledger, running>> /\ timer' = FALSE /\ timer
      BY <1>3, Zenon DEF Schedule!Scheduled, ledger
    <2>2. CASE running
      <3>1. call' = call
        BY <1>3, <2>2, Zenon DEF Schedule!Scheduled, Schedule!MayStart
      <3> QED  BY <1>0, <2>1, <3>1, CallsMove, Zenon DEF OneCall, HasSlot
    <2>3. CASE ~running
      <3>1. call' = [call EXCEPT ![c] = Schedule!Claiming]
        BY <1>3, <2>3, Zenon DEF Schedule!Scheduled, Schedule!MayStart
      <3>2. \A d \in Calls : call[d].step = "idle"
        BY <1>0, <2>1, <2>3, Zenon DEF OneCall, CallRecord
      <3>3. call' \in [Calls -> CallRecord] /\ OneCall' /\ \A d \in Calls : call'[d].step # "pay"
        BY <1>0, <1>2, <2>1, <3>1, <3>2, Zenon DEF OneCall
      <3>4. \A d \in Calls, k \in Schedule!Kinds : ~HasSlot(d, k)'
        BY <1>0, <1>2, <3>1, <3>2, Zenon DEF HasSlot
      <3>5. running' \in BOOLEAN /\ timer' \in BOOLEAN /\ (running' <=> \E d \in Calls : call'[d].step = "pay")
        BY <1>0, <2>1, <2>3, <3>3, Zenon
      <3> QED  BY <2>1, <3>3, <3>4, <3>5, CallsMove, Zenon
    <2> QED  BY <2>2, <2>3, Zenon
  <1>4. CASE Schedule!Proceed(c)
    <2>1. /\ UNCHANGED <<ledger, timer>> /\ call[c].step = "claim"
          /\ \A d \in Calls : d # c => call[d].step = "idle"
      BY <1>0, <1>4, Zenon DEF Schedule!Proceed, ledger, OneCall
    <2>2. \/ running' = TRUE /\ call' = [call EXCEPT ![c].step = "pay"]
          \/ running' = running /\ call' = [call EXCEPT ![c] = Schedule!Idle]
      BY <1>4, Zenon DEF Schedule!Proceed
    <2>3. /\ call' \in [Calls -> CallRecord] /\ OneCall' /\ running' \in BOOLEAN
          /\ running' <=> \E d \in Calls : call'[d].step = "pay"
      <3>1. CASE running' = TRUE /\ call' = [call EXCEPT ![c].step = "pay"]
        BY <1>0, <2>1, <3>1, Zenon DEF OneCall, CallRecord
      <3>2. CASE running' = running /\ call' = [call EXCEPT ![c] = Schedule!Idle]
        BY <1>0, <1>1, <2>1, <3>2, Zenon DEF OneCall
      <3> QED  BY <2>2, <3>1, <3>2, Zenon
    <2>4. \A d \in Calls, k \in Schedule!Kinds : ~HasSlot(d, k)'
      BY <1>0, <1>1, <2>1, <2>2 DEF HasSlot, CallRecord
    <2> QED  BY <1>0, <2>1, <2>3, <2>4, CallsMove, Zenon
  <1>5. CASE Schedule!Finish(c)
    <2>1. /\ UNCHANGED <<ledger, timer>> /\ running' = FALSE /\ call' = [call EXCEPT ![c] = Schedule!Idle]
          /\ \A d \in Calls : d # c => call[d].step = "idle"
      BY <1>0, <1>5, Zenon DEF Schedule!Finish, ledger, OneCall
    <2>2. call' \in [Calls -> CallRecord] /\ \A d \in Calls : call'[d].step = "idle"
      BY <1>0, <1>1, <2>1, Zenon
    <2> QED  BY <1>0, <2>1, <2>2, CallsMove, Zenon DEF OneCall, HasSlot
  <1> QED  BY <1>3, <1>4, <1>5, Zenon

LEMMA CrashKeeps == ~SlowClaims /\ ScheduleInv /\ (Schedule!Crash \/ UNCHANGED scheduleVars) => ScheduleInv'
  <1> SUFFICES ASSUME ~SlowClaims, ScheduleInv, Schedule!Crash \/ UNCHANGED scheduleVars PROVE ScheduleInv'
    BY Zenon
  <1>0. /\ call \in [Calls -> CallRecord] /\ timer \in BOOLEAN /\ running \in BOOLEAN /\ OneCall
        /\ running <=> \E d \in Calls : call[d].step = "pay"
    BY Zenon DEF ScheduleInv, Schedule!TypeOK, CallRecord
  <1>1. CASE Schedule!Crash
    <2>1. UNCHANGED ledger /\ running' = FALSE /\ timer' = FALSE /\ call' = [c \in Calls |-> Schedule!Idle]
      BY <1>1, Zenon DEF Schedule!Crash, ledger
    <2>2. Schedule!Idle \in CallRecord /\ Schedule!Idle.step = "idle"
      BY Zenon DEF Schedule!Idle, CallRecord, Schedule!Claims
    <2>3. call' \in [Calls -> CallRecord] /\ \A d \in Calls : call'[d].step = "idle"
      BY <2>1, <2>2, Zenon
    <2> QED  BY <2>1, <2>3, CallsMove, Zenon DEF OneCall, HasSlot
  <1>2. CASE UNCHANGED scheduleVars
    <2>1. UNCHANGED <<ledger, timer, running, call>>
      BY <1>2, Zenon DEF scheduleVars, ledger
    <2> QED  BY <1>0, <2>1, CallsMove, Zenon DEF OneCall, HasSlot
  <1> QED  BY <1>1, <1>2, Zenon

LEMMA NoSlotApart == Schedule!NoSlot \notin Schedule!Slots
  BY Zenon DEF Schedule!NoSlot, Schedule!Slots

\* A call that computes a slot has the one of now and of the policy in hand.
LEMMA ComputeKeeps ==
  ASSUME ~SlowClaims, ScheduleInv, NEW c \in Calls, NEW k \in Schedule!Kinds, Schedule!ComputeSlot(c, k)
  PROVE  ScheduleInv'
  <1>0. /\ call \in [Calls -> CallRecord] /\ Clock /\ OneCall /\ SlotFacts /\ PendingIsCurrent
        /\ running <=> \E d \in Calls : call[d].step = "pay"
    BY ScheduleParts, Zenon DEF ScheduleInv, Schedule!TypeOK, CallRecord, Clock
  <1> DEFINE s == Schedule!SlotOf(k)
             r == IF s = Schedule!NoSlot THEN "lost" ELSE "slot"
  <1>1. /\ s = Schedule!NoSlot \/ s = Current(TagOf(k))
        /\ s = Current("daily") => Schedule!DailyDue
    BY NoSlotApart, IndexTypes, <1>0, Zenon
    DEF Schedule!SlotOf, Schedule!DailySlot, Schedule!IntervalSlot, Current, Index, TagOf
  <1>2. s \in Schedule!Slots \cup {Schedule!NoSlot}
    BY <1>0, <1>1, IndexTypes, Zenon DEF TagOf
  <1>3. /\ UNCHANGED <<ledger, timer, running>> /\ call[c].step = "claim"
        /\ call' = [call EXCEPT ![c].slot[k] = s, ![c].claim[k] = r]
    BY Zenon DEF Schedule!ComputeSlot, ledger
  <1> HIDE DEF s
  <1>4. /\ call' \in [Calls -> CallRecord] /\ \A d \in Calls : call'[d].step = call[d].step
        /\ \A d \in Calls, j \in Schedule!Kinds :
             d # c \/ j # k => call'[d].claim[j] = call[d].claim[j] /\ call'[d].slot[j] = call[d].slot[j]
        /\ call'[c].claim[k] = r /\ call'[c].slot[k] = s
    <2> DEFINE one == [call[c].slot EXCEPT ![k] = s]
               two == [call[c].claim EXCEPT ![k] = r]
    <2>1. one \in [Schedule!Kinds -> Schedule!Slots \cup {Schedule!NoSlot}] /\ two \in Schedule!Claims
      BY <1>0, <1>2, Zenon DEF CallRecord, Schedule!Claims
    <2>2. /\ \A j \in Schedule!Kinds : j # k => one[j] = call[c].slot[j] /\ two[j] = call[c].claim[j]
          /\ one[k] = s /\ two[k] = r
      BY <1>0, Zenon DEF CallRecord, Schedule!Claims
    <2>3. call' = [call EXCEPT ![c] = [call[c] EXCEPT !.slot = one, !.claim = two]]
      BY <1>0, <1>3, Zenon DEF CallRecord
    <2> HIDE DEF one, two
    <2>4. /\ call'[c] \in CallRecord /\ call'[c].slot = one /\ call'[c].claim = two
          /\ call'[c].step = call[c].step
      BY <1>0, <2>1, <2>3, Zenon DEF CallRecord
    <2> QED  BY <1>0, <2>2, <2>3, <2>4, Zenon
  <1> HIDE DEF r
  <1>5. OneCall' /\ (running' <=> \E d \in Calls : call'[d].step = "pay")
    BY <1>0, <1>3, <1>4 DEF OneCall
  <1>6. Schedule!TypeOK' /\ SlotFacts'
    BY <1>0, <1>3, <1>4, <1>5, SlotFactsKept, Zenon DEF ScheduleInv, Schedule!TypeOK, CallRecord, ledger
  <1>7. ASSUME NEW d \in Calls, NEW j \in Schedule!Kinds, HasSlot(d, j)'
        PROVE  Held(j, call[d].slot[j])'
    <2>1. Held(j, call'[d].slot[j])
      <3>1. CASE d # c \/ j # k
        <4>1. HasSlot(d, j) /\ call'[d].slot[j] = call[d].slot[j]
          BY <1>4, <1>7, <3>1, Zenon DEF HasSlot
        <4> QED  BY <1>0, <4>1, PendingHeld, Zenon
      <3>2. CASE d = c /\ j = k
        <4>1. s = Current(TagOf(k))
          BY <1>1, <1>4, <1>7, <3>2, Zenon DEF HasSlot, r
        <4>2. s \in {Current("daily"), Current("interval")}
          BY <4>1, Zenon DEF TagOf
        <4>3. MaxSaves <= 1 => (taken[k][s] > 0 => lastSlot[k] = s)
          BY <1>0, <4>1, Zenon DEF SlotFacts, LastIsNewest
        <4> QED  BY <1>1, <1>4, <3>2, <4>1, <4>2, <4>3, Zenon DEF Held
      <3> QED  BY <3>1, <3>2, Zenon
    <2> QED
      BY <1>3, <2>1, Zenon DEF ledger, Held, Current, Index, TagOf, Schedule!Day, Schedule!IntervalIndex, Schedule!DailyDue
  <1> QED  BY <1>5, <1>6, <1>7, Zenon DEF ScheduleInv, SlotFacts, PendingIsCurrent, Held

LEMMA ClaimEnds ==
  ASSUME call \in [Calls -> CallRecord], NEW c \in Calls, NEW k \in Schedule!Kinds, NEW r \in {"won", "lost"},
         call' = [call EXCEPT ![c].claim[k] = r]
  PROVE  /\ call' \in [Calls -> CallRecord]
         /\ \A d \in Calls : call'[d].step = call[d].step /\ call'[d].slot = call[d].slot
         /\ \A d \in Calls, j \in Schedule!Kinds : HasSlot(d, j)' => HasSlot(d, j) /\ (d = c => j # k)
  <1> DEFINE two == [call[c].claim EXCEPT ![k] = r]
  <1>1. /\ two \in Schedule!Claims /\ two[k] = r
        /\ \A j \in Schedule!Kinds : j # k => two[j] = call[c].claim[j]
    BY Zenon DEF CallRecord, Schedule!Claims
  <1> DEFINE rec == [call[c] EXCEPT !.claim = two]
  <1>2. call' = [call EXCEPT ![c] = rec]
    BY Zenon DEF CallRecord
  <1> HIDE DEF two
  <1>a. rec \in CallRecord /\ rec.claim = two /\ rec.step = call[c].step /\ rec.slot = call[c].slot
    BY <1>1, Zenon DEF CallRecord
  <1> HIDE DEF rec
  <1>3. /\ call'[c] \in CallRecord /\ call'[c].claim = two
        /\ call'[c].step = call[c].step /\ call'[c].slot = call[c].slot
    BY <1>2, <1>a, Zenon
  <1>4. call' \in [Calls -> CallRecord] /\ \A d \in Calls : d # c => call'[d] = call[d]
    BY <1>2, <1>3, Zenon
  <1>5. ASSUME NEW d \in Calls, NEW j \in Schedule!Kinds, HasSlot(d, j)'
        PROVE  HasSlot(d, j) /\ (d = c => j # k)
    <2>1. CASE d = c
      BY <1>1, <1>3, <1>5, <2>1, Zenon DEF HasSlot
    <2>2. CASE d # c
      BY <1>4, <1>5, <2>2, Zenon DEF HasSlot
    <2> QED  BY <2>1, <2>2, Zenon
  <1> QED  BY <1>3, <1>4, <1>5, Zenon

LEMMA LostKeeps ==
  ASSUME ~SlowClaims, ScheduleInv, NEW c \in Calls, NEW k \in Schedule!Kinds,
         call' = [call EXCEPT ![c].claim[k] = "lost"], UNCHANGED <<ledger, timer, running>>
  PROVE  ScheduleInv'
  <1>0. /\ call \in [Calls -> CallRecord] /\ timer \in BOOLEAN /\ running \in BOOLEAN /\ OneCall
        /\ running <=> \E d \in Calls : call[d].step = "pay"
    BY Zenon DEF ScheduleInv, Schedule!TypeOK, CallRecord
  <1>1. /\ call' \in [Calls -> CallRecord]
        /\ \A d \in Calls : call'[d].step = call[d].step /\ call'[d].slot = call[d].slot
        /\ \A d \in Calls, j \in Schedule!Kinds : HasSlot(d, j)' => HasSlot(d, j)
    BY <1>0, ClaimEnds, Zenon
  <1>2. OneCall' /\ timer' \in BOOLEAN /\ running' \in BOOLEAN /\ (running' <=> \E d \in Calls : call'[d].step = "pay")
    BY <1>0, <1>1, Zenon DEF OneCall
  <1> QED  BY <1>1, <1>2, CallsMove, Zenon

\* The slot that is claimed is new, and the newest one.
LEMMA WonKeeps ==
  ASSUME ~SlowClaims, ScheduleInv, NEW c \in Calls, NEW k \in Schedule!Kinds, HasSlot(c, k),
         lastSlot[k] # call[c].slot[k],
         lastSlot' = [lastSlot EXCEPT ![k] = call[c].slot[k]],
         taken' = [taken EXCEPT ![k][call[c].slot[k]] = @ + 1],
         call' = [call EXCEPT ![c].claim[k] = "won"],
         announced' = IF k = "customer" THEN Schedule!NextPayoutAt(mode) ELSE announced,
         UNCHANGED <<now, timer, mode, saves, running>>
  PROVE  ScheduleInv'
  <1>0. /\ call \in [Calls -> CallRecord] /\ Clock /\ OneCall /\ SlotFacts /\ PendingIsCurrent
        /\ running <=> \E d \in Calls : call[d].step = "pay"
        /\ lastSlot \in [Schedule!Kinds -> Schedule!Slots \cup {Schedule!NoSlot}]
        /\ taken \in [Schedule!Kinds -> [Schedule!Slots -> Nat]]
    BY ScheduleParts, Zenon DEF ScheduleInv, Schedule!TypeOK, CallRecord, Clock
  <1> DEFINE s == call[c].slot[k]
  <1>1. Held(k, s)
    BY <1>0, PendingHeld, Zenon
  <1>2. s \in Schedule!Slots
    BY <1>0, <1>1, IndexTypes, Zenon DEF Held
  <1>3. lastSlot[k] # s /\ lastSlot' = [lastSlot EXCEPT ![k] = s] /\ taken' = [taken EXCEPT ![k][s] = @ + 1]
    BY Zenon
  <1>4. /\ call' \in [Calls -> CallRecord]
        /\ \A d \in Calls : call'[d].step = call[d].step /\ call'[d].slot = call[d].slot
        /\ \A d \in Calls, j \in Schedule!Kinds : HasSlot(d, j)' => HasSlot(d, j) /\ (d = c => j # k)
    BY <1>0, ClaimEnds, Zenon
  <1> HIDE DEF s
  <1>5. /\ lastSlot' \in [Schedule!Kinds -> Schedule!Slots \cup {Schedule!NoSlot}]
        /\ lastSlot'[k] = s /\ \A j \in Schedule!Kinds : j # k => lastSlot'[j] = lastSlot[j]
    BY <1>0, <1>2, <1>3
  <1>6. /\ taken' \in [Schedule!Kinds -> [Schedule!Slots -> Nat]] /\ taken'[k][s] = taken[k][s] + 1
        /\ \A j \in Schedule!Kinds, x \in Schedule!Slots : j # k \/ x # s => taken'[j][x] = taken[j][x]
    BY <1>0, <1>2, <1>3
  <1>7. \A tag : Index(tag)' = Index(tag) /\ Current(tag)' = Current(tag)
    BY Zenon DEF Index, Current, Schedule!Day, Schedule!IntervalIndex
  <1>8. \A j : TagOf(j)' = TagOf(j)
    BY Zenon DEF TagOf
  <1>9. Current(TagOf(k)) \in Schedule!Slots
    BY <1>0, IndexTypes, Zenon DEF TagOf
  <1>10. Schedule!TypeOK' /\ OneCall'
    <2>1. announced' \in Nat
      BY <1>0, NextTypes, Zenon DEF ScheduleInv, Schedule!TypeOK
    <2>2. OneCall' /\ (running' <=> \E d \in Calls : call'[d].step = "pay")
      BY <1>0, <1>4 DEF OneCall
    <2> QED  BY <1>4, <1>5, <1>6, <2>1, <2>2, Zenon DEF ScheduleInv, Schedule!TypeOK, CallRecord
  <1>11. TakenIsPast'
    <2>1. s[2] = Index(s[1]) /\ (saves = 0 => s[1] = TagOf(k))
      BY <1>1 DEF Held, Current
    <2>2. Index(s[1]) \in Nat
      BY <1>0, IndexTypes DEF Index
    <2> QED  BY <1>0, <1>6, <1>7, <1>8, <2>1, <2>2 DEF SlotFacts, TakenIsPast
  <1>12. LastIsTaken'
    <2>1. ASSUME NEW j \in Schedule!Kinds, lastSlot'[j] # Schedule!NoSlot
          PROVE  taken'[j][lastSlot'[j]] > 0
      <3>1. CASE j = k
        BY <1>0, <1>2, <1>5, <1>6, <3>1
      <3>2. CASE j # k
        BY <1>0, <1>5, <1>6, <2>1, <3>2, Zenon DEF SlotFacts, LastIsTaken
      <3> QED  BY <3>1, <3>2, Zenon
    <2> QED  BY <2>1, Zenon DEF LastIsTaken
  <1>13. LastIsNewest'
    <2>1. ASSUME MaxSaves <= 1, NEW j \in Schedule!Kinds, taken'[j][Current(TagOf(j))] > 0
          PROVE  lastSlot'[j] = Current(TagOf(j))
      <3>1. CASE j # k
        <4>1. Current(TagOf(j)) \in Schedule!Slots
          BY <1>0, IndexTypes, Zenon DEF TagOf
        <4> QED  BY <1>0, <1>5, <1>6, <2>1, <3>1, <4>1, Zenon DEF SlotFacts, LastIsNewest
      <3>2. CASE j = k /\ s # Current(TagOf(k))
        <4>1. taken[k][Current(TagOf(k))] = 0
          BY <1>1, <1>9, <2>1, <3>2, Zenon DEF Held, Current
        <4> QED  BY <1>6, <1>9, <2>1, <3>2, <4>1
      <3> QED  BY <1>5, <3>1, <3>2, Zenon
    <2>2. \A j : Current(TagOf(j))' = Current(TagOf(j))
      BY Zenon DEF Current, Index, TagOf, Schedule!Day, Schedule!IntervalIndex
    <2> QED  BY <2>1, <2>2, Zenon DEF LastIsNewest
  <1>14. MaxSaves <= 1 => Schedule!SlotOnce'
    <2> SUFFICES ASSUME MaxSaves <= 1, NEW j \in Schedule!Kinds, NEW x \in Schedule!Slots
                 PROVE  taken'[j][x] <= 1
      BY Zenon DEF Schedule!SlotOnce
    <2>1. taken[j][x] <= 1 /\ taken[j][x] \in Nat
      BY <1>0, Zenon DEF SlotFacts, Schedule!SlotOnce
    <2>2. taken[k][s] = 0
      <3>1. taken[k][s] \in Nat /\ ~(taken[k][s] > 0)
        BY <1>0, <1>1, <1>2, <1>3 DEF Held
      <3> QED  BY <3>1
    <2> QED  BY <1>6, <2>1, <2>2
  <1>15. AnnouncedIsNext'
    <2> SUFFICES ASSUME saves = 0, lastSlot'["customer"] # Schedule!NoSlot
                 PROVE  announced' = AfterSlot(lastSlot["customer"])'
      BY Zenon DEF AnnouncedIsNext
    <2>1. CASE k = "customer"
      <3>1. s = Current(TagOf("customer")) /\ (s = Current("daily") => Schedule!DailyDue)
        BY <1>1, <2>1, Zenon DEF Held
      <3>2. announced' = Schedule!NextPayoutAt(mode) /\ lastSlot'["customer"] = s
        BY <1>5, <2>1, Zenon
      <3>3. CASE TagOf("customer") = "interval"
        <4>1. mode # "DAILY" /\ mode \in Schedule!Modes
          BY <3>3, Zenon DEF TagOf, ScheduleInv, Schedule!TypeOK
        <4> QED
          BY <3>1, <3>2, <3>3, <4>1 DEF AfterSlot, Current, Index, Schedule!NextPayoutAt, Schedule!Modes
      <3>4. CASE TagOf("customer") = "daily"
        <4>1. mode # "INTERVAL"
          BY <3>4, Zenon DEF TagOf
        <4> QED  BY <3>1, <3>2, <3>4, <4>1 DEF AfterSlot, Current, Index, Schedule!NextPayoutAt
      <3> QED  BY <3>3, <3>4, Zenon DEF TagOf
    <2>2. CASE k # "customer"
      <3>1. lastSlot'["customer"] = lastSlot["customer"] /\ announced' = announced
        BY <1>5, <2>2, Zenon DEF Schedule!Kinds
      <3> QED  BY <1>0, <3>1, Zenon DEF SlotFacts, AnnouncedIsNext, AfterSlot
    <2> QED  BY <2>1, <2>2, Zenon
  <1>16. PendingIsCurrent'
    <2>1. ASSUME NEW d \in Calls, NEW j \in Schedule!Kinds, HasSlot(d, j)'
          PROVE  Held(j, call[d].slot[j])'
      <3>1. HasSlot(d, j) /\ d = c /\ j # k /\ call'[d].slot[j] = call[d].slot[j]
        BY <1>0, <1>4, <2>1 DEF HasSlot, OneCall
      <3>2. Held(j, call[d].slot[j])
        BY <1>0, <3>1, PendingHeld, Zenon
      <3>3. lastSlot'[j] = lastSlot[j] /\ taken'[j] = taken[j]
        BY <1>0, <1>3, <1>5, <3>1, Zenon
      <3> QED
        BY <3>1, <3>2, <3>3, Zenon DEF Held, Current, Index, TagOf, Schedule!Day, Schedule!IntervalIndex, Schedule!DailyDue
    <2> QED  BY <2>1, Zenon DEF PendingIsCurrent, Held
  <1> QED  BY <1>10, <1>11, <1>12, <1>13, <1>14, <1>15, <1>16, Zenon DEF ScheduleInv

\* Time goes on only between claims; a slot that begins has not been taken.
LEMMA TickKeeps == ~SlowClaims /\ ScheduleInv /\ Schedule!Tick => ScheduleInv'
  <1> SUFFICES ASSUME ~SlowClaims, ScheduleInv, Schedule!Tick PROVE ScheduleInv'
    BY Zenon
  <1>0. /\ Clock /\ OneCall /\ SlotFacts /\ taken \in [Schedule!Kinds -> [Schedule!Slots -> Nat]]
    BY ScheduleParts, Zenon DEF ScheduleInv, Schedule!TypeOK, Clock
  <1>1. /\ now' = now + 1 /\ now < MaxTime /\ UNCHANGED <<mode, saves, lastSlot, running, call, taken, announced>>
        /\ \A c \in Calls : call[c].step # "claim"
    BY Zenon DEF Schedule!Tick
  <1>2. Schedule!TypeOK'
    <2>1. now' \in 0..MaxTime
      BY <1>0, <1>1, ScheduleAssumption DEF Clock
    <2>2. timer' \in BOOLEAN
      BY Zenon DEF Schedule!Tick
    <2> QED  BY <1>1, <2>1, <2>2, Zenon DEF ScheduleInv, Schedule!TypeOK
  <1>3. OneCall' /\ PendingIsCurrent'
    BY <1>0, <1>1, Zenon DEF OneCall, PendingIsCurrent, HasSlot
  <1>4. Clock' /\ \A k : TagOf(k)' = TagOf(k)
    BY <1>1, <1>2, Zenon DEF Clock, TagOf, Schedule!TypeOK
  <1>5. \A tag : Index(tag) \in Nat /\ Index(tag)' \in Nat /\ Index(tag) <= Index(tag)'
    <2>1. \A tag : Index(tag) \in 0..(MaxTime + 1) /\ Index(tag)' \in 0..(MaxTime + 1)
      BY <1>0, <1>4, IndexRange, IndexRangeNext, Zenon
    <2> QED  BY <1>0, <1>1, <2>1, IndexGrows, ScheduleAssumption
  <1>6. TakenIsPast'
    <2> SUFFICES ASSUME NEW k \in Schedule!Kinds, NEW s \in Schedule!Slots, taken[k][s] > 0
                 PROVE  s[2] <= Index(s[1])' /\ (saves = 0 => s[1] = TagOf(k))
      BY <1>1, <1>4, Zenon DEF TakenIsPast
    <2>1. s[2] <= Index(s[1]) /\ (saves = 0 => s[1] = TagOf(k)) /\ s[2] \in Nat
      BY <1>0, ScheduleAssumption DEF SlotFacts, TakenIsPast, Schedule!Slots
    <2> QED  BY <1>5, <2>1
  <1>7. LastIsTaken' /\ AnnouncedIsNext' /\ (MaxSaves <= 1 => Schedule!SlotOnce')
    BY <1>0, <1>1, Zenon DEF SlotFacts, LastIsTaken, AnnouncedIsNext, AfterSlot, Schedule!SlotOnce
  <1>8. LastIsNewest'
    <2>1. ASSUME MaxSaves <= 1, NEW k \in Schedule!Kinds, NEW tag \in {"daily", "interval"}, tag = TagOf(k),
                 taken[k][<<tag, Index(tag)'>>] > 0
          PROVE  lastSlot[k] = <<tag, Index(tag)'>>
      <3> DEFINE i == Index(tag)'
      <3>1. i \in Nat /\ Index(tag) <= i /\ Index(tag) \in Nat
        BY <1>5, Zenon
      <3>2. i \in 0..(MaxTime + 1)
        BY <1>4, IndexRangeNext, Zenon
      <3> HIDE DEF i
      <3>3. <<tag, i>> \in Schedule!Slots
        BY <3>2, Zenon DEF Schedule!Slots
      <3>4. i <= Index(tag)
        BY <1>0, <2>1, <3>3, Zenon DEF i, SlotFacts, TakenIsPast
      <3>5. i = Index(tag)
        BY <3>1, <3>4
      <3> QED  BY <1>0, <2>1, <3>5, Zenon DEF i, SlotFacts, LastIsNewest, Current
    <2>2. ASSUME NEW k \in Schedule!Kinds
          PROVE  \E tag \in {"daily", "interval"} :
                   tag = TagOf(k) /\ Current(TagOf(k))' = <<tag, Index(tag)'>>
      BY <1>4, Zenon DEF TagOf, Current, Index
    <2> QED  BY <1>1, <2>1, <2>2, Zenon DEF LastIsNewest
  <1> QED  BY <1>2, <1>3, <1>6, <1>7, <1>8, Zenon DEF ScheduleInv

\* Before the first change of the policy no slot of the other kind was taken.
LEMMA UpdateKeeps ==
  ASSUME ~SlowClaims, ScheduleInv, NEW md \in Schedule!Modes, Schedule!UpdatePayoutSchedule(md)
  PROVE  ScheduleInv'
  <1>0. /\ Clock /\ OneCall /\ SlotFacts /\ PendingIsCurrent /\ saves \in 0..MaxSaves
        /\ taken \in [Schedule!Kinds -> [Schedule!Slots -> Nat]] /\ mode \in Schedule!Modes
    BY ScheduleParts, Zenon DEF ScheduleInv, Schedule!TypeOK, Clock
  <1>1. /\ saves < MaxSaves /\ saves' = saves + 1 /\ mode' = md /\ md # mode
        /\ announced' = Schedule!NextPayoutAt(md) /\ UNCHANGED <<now, timer, lastSlot, running, call, taken>>
    BY Zenon DEF Schedule!UpdatePayoutSchedule
  <1>2. saves \in Nat /\ saves' \in 0..MaxSaves /\ saves' # 0 /\ (MaxSaves <= 1 => saves = 0)
    BY <1>0, <1>1, ScheduleAssumption
  <1>3. Schedule!TypeOK'
    <2>1. announced' \in Nat
      BY <1>0, <1>1, NextTypes, Zenon
    <2> QED  BY <1>1, <1>2, <2>1, Zenon DEF ScheduleInv, Schedule!TypeOK
  <1>4. \A tag : Index(tag)' = Index(tag) /\ Current(tag)' = Current(tag)
    BY <1>1, Zenon DEF Index, Current, Schedule!Day, Schedule!IntervalIndex
  <1>5. OneCall' /\ TakenIsPast' /\ LastIsTaken' /\ AnnouncedIsNext' /\ (MaxSaves <= 1 => Schedule!SlotOnce')
    <2>1. OneCall' /\ LastIsTaken' /\ AnnouncedIsNext' /\ (MaxSaves <= 1 => Schedule!SlotOnce')
      BY <1>0, <1>1, <1>2, Zenon DEF OneCall, SlotFacts, LastIsTaken, AnnouncedIsNext, Schedule!SlotOnce
    <2>2. TakenIsPast'
      BY <1>0, <1>1, <1>2, <1>4, Zenon DEF SlotFacts, TakenIsPast
    <2> QED  BY <2>1, <2>2, Zenon
  \* The kinds of the new policy: that of customers is new, that of the operator is not.
  <1>6. ASSUME MaxSaves <= 1, NEW k \in Schedule!Kinds, TagOf(k)' # TagOf(k),
               NEW s \in Schedule!Slots, s[1] = TagOf(k)'
        PROVE  taken[k][s] = 0
    <2>1. taken[k][s] \in Nat /\ ~(taken[k][s] > 0)
      BY <1>0, <1>2, <1>6, Zenon DEF SlotFacts, TakenIsPast
    <2> QED  BY <2>1
  <1>7. LastIsNewest'
    <2>1. ASSUME MaxSaves <= 1, NEW k \in Schedule!Kinds, taken[k][<<TagOf(k)', Index(TagOf(k)')>>] > 0
          PROVE  lastSlot[k] = <<TagOf(k)', Index(TagOf(k)')>>
      <3>1. <<TagOf(k)', Index(TagOf(k)')>> \in Schedule!Slots
        BY <1>0, IndexTypes, Zenon DEF TagOf, Current
      <3>2. TagOf(k)' = TagOf(k)
        BY <1>6, <2>1, <3>1
      <3> QED  BY <1>0, <2>1, <3>2, Zenon DEF SlotFacts, LastIsNewest, Current
    <2>2. \A k : Current(TagOf(k))' = <<TagOf(k)', Index(TagOf(k)')>>
      BY <1>1, Zenon DEF Current, Index, TagOf, Schedule!Day, Schedule!IntervalIndex
    <2> QED  BY <1>1, <2>1, <2>2, Zenon DEF LastIsNewest
  <1>8. PendingIsCurrent'
    <2>1. ASSUME NEW c \in Calls, NEW k \in Schedule!Kinds, HasSlot(c, k)'
          PROVE  Held(k, call[c].slot[k])'
      <3> DEFINE s == call[c].slot[k]
      <3>1. Held(k, s)
        BY <1>0, <1>1, <2>1, PendingHeld, Zenon DEF HasSlot
      <3>2. s = Current("daily") => Schedule!DailyDue'
        BY <1>1, <3>1, Zenon DEF Held, Schedule!DailyDue
      <3>3. ASSUME MaxSaves <= 1, s # Current(TagOf(k)')
            PROVE  \A x \in Schedule!Slots : x[1] = TagOf(k)' => taken[k][x] = 0
        <4>1. s = Current(TagOf(k))
          BY <1>2, <3>1, <3>3, Zenon DEF Held
        <4> QED  BY <1>6, <3>3, <4>1, Zenon
      <3>4. MaxSaves <= 1 => (taken[k][s] > 0 => lastSlot[k] = s)
        BY <3>1, Zenon DEF Held
      <3>5. s \in {Current("daily"), Current("interval")}
        BY <3>1, Zenon DEF Held
      <3>6. call'[c].slot[k] = s /\ Current(TagOf(k))' = Current(TagOf(k)')
        BY <1>1, Zenon DEF Current, Index, TagOf, Schedule!Day, Schedule!IntervalIndex
      <3> HIDE DEF s
      <3> QED  BY <1>1, <1>2, <1>4, <3>2, <3>3, <3>4, <3>5, <3>6, Zenon DEF Held
    <2> QED  BY <2>1, Zenon DEF PendingIsCurrent, Held
  <1> QED  BY <1>3, <1>5, <1>7, <1>8, Zenon DEF ScheduleInv

LEMMA ScheduleStep ==
  ASSUME ~SlowClaims
  PROVE  ScheduleInv /\ [Schedule!Next]_scheduleVars => ScheduleInv'
  <1> SUFFICES ASSUME ScheduleInv, [Schedule!Next]_scheduleVars PROVE ScheduleInv'
    BY Zenon
  <1>1. ASSUME NEW c \in Calls, NEW k \in Schedule!Kinds, Schedule!ClaimSlot(c, k) PROVE ScheduleInv'
    <2>1. HasSlot(c, k) /\ UNCHANGED <<now, timer, mode, saves, running>>
      BY <1>1, Zenon DEF Schedule!ClaimSlot, HasSlot
    <2>2. CASE lastSlot[k] # call[c].slot[k]
      BY <1>1, <2>1, <2>2, WonKeeps, Zenon DEF Schedule!ClaimSlot, Schedule!Free
    <2>3. CASE lastSlot[k] = call[c].slot[k]
      <3>1. call' = [call EXCEPT ![c].claim[k] = "lost"] /\ UNCHANGED <<ledger, timer, running>>
        BY <1>1, <2>3, Zenon DEF Schedule!ClaimSlot, Schedule!Free, ledger
      <3> QED  BY <3>1, LostKeeps, Zenon
    <2> QED  BY <2>2, <2>3, Zenon
  <1>2. ASSUME NEW c \in Calls, NEW k \in Schedule!Kinds, Schedule!ClaimFails(c, k) PROVE ScheduleInv'
    <2>1. call' = [call EXCEPT ![c].claim[k] = "lost"] /\ UNCHANGED <<ledger, timer, running>>
      BY <1>2, Zenon DEF Schedule!ClaimFails, ledger
    <2> QED  BY <2>1, LostKeeps, Zenon
  <1> QED
    BY <1>1, <1>2, TickKeeps, UpdateKeeps, CrashKeeps, SimpleSteps, ComputeKeeps, Zenon DEF Schedule!Next

LEMMA SchedulePart == JobsSpec => Schedule!Init /\ [][Schedule!Next]_scheduleVars
  <1>1. JobsInit => Schedule!Init
    BY Zenon DEF JobsInit
  <1>2. [JobsNext]_allVars => [Schedule!Next]_scheduleVars
    BY Zenon DEF JobsNext, InDeposits, allVars
  <1> QED  BY <1>1, <1>2, PTL DEF JobsSpec

\* One call at most is under way, so one at most pays.
LEMMA OneCallPays == OneCall => Schedule!OnePayer
  <1> SUFFICES ASSUME OneCall PROVE Schedule!OnePayer
    BY Zenon
  <1> DEFINE payers == {c \in Calls : call[c].step = "pay"}
  <1>1. \A S : Schedule!Cardinality(S) = Cardinality(S)
    BY Zenon DEF Schedule!Cardinality, Cardinality
  <1>2. payers = {} \/ \E c \in Calls : payers = {c}
    BY Zenon DEF OneCall
  <1>3. Cardinality(payers) = 0 \/ Cardinality(payers) = 1
    BY <1>2, FS_EmptySet, FS_Singleton, Zenon
  <1>4. Cardinality(payers) <= 1
    BY <1>3
  <1> QED  BY <1>1, <1>4, Zenon DEF Schedule!OnePayer

\* A claim of settings.service.ts that ends within a unit of the timer, and a
\* policy that is changed once at most: however calls of scheduled() overlap,
\* fail and restart, a slot is claimed once and one call at a time pays.
THEOREM SlotsPaidOnce ==
  ASSUME ~SlowClaims, MaxSaves <= 1
  PROVE  JobsSpec => []OnePayment
  <1>1. ScheduleInv => OnePayment
    BY OneCallPays, Zenon DEF ScheduleInv, OnePayment
  <1>2. ScheduleInv /\ [Schedule!Next]_scheduleVars => ScheduleInv'
    BY ScheduleStep, Zenon
  <1> QED  BY <1>1, <1>2, SchedulePart, ScheduleInit, PTL

\* Whenever the policy changes, one call at a time pays.
THEOREM OnePayerAtATime ==
  ASSUME ~SlowClaims
  PROVE  JobsSpec => []Schedule!OnePayer
  <1>1. ScheduleInv => Schedule!OnePayer
    BY OneCallPays, Zenon DEF ScheduleInv
  <1>2. ScheduleInv /\ [Schedule!Next]_scheduleVars => ScheduleInv'
    BY ScheduleStep, Zenon
  <1> QED  BY <1>1, <1>2, SchedulePart, ScheduleInit, PTL

\* A slot that is claimed after the last one has begun, and what was announced
\* is its beginning.
LEMMA PaysStep ==
  ASSUME ~SlowClaims
  PROVE  ScheduleInv /\ [Schedule!Next]_scheduleVars => [Schedule!PaysAsAnnounced]_scheduleVars
  <1> SUFFICES ASSUME ScheduleInv, Schedule!Next, saves = 0, lastSlot["customer"] # Schedule!NoSlot,
                      lastSlot'["customer"] # lastSlot["customer"]
               PROVE  now >= announced
    BY Zenon DEF Schedule!PaysAsAnnounced
  <1>0. /\ Clock /\ PendingIsCurrent /\ lastSlot \in [Schedule!Kinds -> Schedule!Slots \cup {Schedule!NoSlot}]
        /\ mode \in Schedule!Modes
    BY Zenon DEF ScheduleInv, Schedule!TypeOK, Clock
  <1>1. PICK c \in Calls, k \in Schedule!Kinds : Schedule!ClaimSlot(c, k)
    BY Zenon DEF Schedule!Next, Schedule!Tick, Schedule!Crash, Schedule!UpdatePayoutSchedule, Schedule!Scheduled,
           Schedule!Proceed, Schedule!Finish, Schedule!ComputeSlot, Schedule!ClaimFails
  <1>2. k = "customer" /\ HasSlot(c, k) /\ lastSlot'[k] = call[c].slot[k]
    BY <1>0, <1>1, Zenon DEF Schedule!ClaimSlot, HasSlot, Schedule!Kinds
  <1> DEFINE last == lastSlot["customer"]
             tag == TagOf("customer")
  <1>3. Current(tag) # last /\ (tag = "daily" => Schedule!DailyDue)
    <2>1. Held(k, call[c].slot[k])
      BY <1>0, <1>2, PendingHeld, Zenon
    <2> QED  BY <1>2, <2>1, Zenon DEF Held
  <1>4. last \in Schedule!Slots /\ last[1] = tag /\ last[2] <= Index(tag)
    <2>1. last \in Schedule!Slots
      BY <1>0, Zenon DEF Schedule!Kinds
    <2>2. taken["customer"][last] > 0
      BY Zenon DEF ScheduleInv, LastIsTaken, Schedule!Kinds
    <2> QED  BY <2>1, <2>2, Zenon DEF ScheduleInv, TakenIsPast, Schedule!Kinds
  <1>5. last = <<tag, last[2]>> /\ last[2] \in Nat
    BY <1>4, ScheduleAssumption DEF Schedule!Slots
  <1>6. Index(tag) \in Nat
    BY <1>0, IndexRange, ScheduleAssumption
  <1>7. last[2] + 1 <= Index(tag)
    BY <1>3, <1>4, <1>5, <1>6 DEF Current
  <1>8. announced = AfterSlot(last)
    BY Zenon DEF ScheduleInv, AnnouncedIsNext
  <1> DEFINE n == last[2]
  <1>9. n \in Nat /\ n + 1 <= Index(tag)
    BY <1>5, <1>7, Zenon
  <1>10. announced = IF tag = "interval" THEN n * Interval + Offset ELSE (n + 1) * DayLen + DailyTime
    BY <1>4, <1>8, Zenon DEF AfterSlot
  <1>11. now \in Nat /\ now + Interval - Offset \in Nat
    BY <1>0, IndexTypes, Zenon
  <1> HIDE DEF n, last, tag
  <1>12. CASE tag = "interval"
    <2> DEFINE t == now + Interval - Offset
               i == t \div Interval
    <2>1. i \in Nat /\ i * Interval <= t
      BY <1>11, DivBounds, ScheduleAssumption, Zenon
    <2>2. Index(tag) = i
      BY <1>12, Zenon DEF Index, Schedule!IntervalIndex
    <2> HIDE DEF i
    <2>3. (n + 1) * Interval <= i * Interval
      BY <1>9, <2>1, <2>2, ScheduleAssumption
    <2>4. (n + 1) * Interval = n * Interval + Interval /\ n * Interval \in Nat /\ i * Interval \in Nat
      BY <1>9, <2>1, ScheduleAssumption
    <2> QED  BY <1>10, <1>11, <1>12, <2>1, <2>3, <2>4, ScheduleAssumption
  <1>13. CASE tag = "daily"
    <2> DEFINE i == now \div DayLen
    <2>1. i \in Nat /\ now = i * DayLen + (now % DayLen)
      BY <1>11, DivBounds, ScheduleAssumption
    <2>2. Index(tag) = i /\ now % DayLen >= DailyTime
      BY <1>3, <1>13, Zenon DEF Index, Schedule!Day, Schedule!DailyDue
    <2>3. now % DayLen \in Nat
      BY <1>11, ScheduleAssumption
    <2> HIDE DEF i
    <2>4. (n + 1) * DayLen <= i * DayLen /\ (n + 1) * DayLen \in Nat /\ i * DayLen \in Nat
      BY <1>9, <2>1, <2>2, ScheduleAssumption
    <2> QED  BY <1>10, <1>11, <1>13, <2>1, <2>2, <2>3, <2>4, ScheduleAssumption
  <1> QED  BY <1>12, <1>13, Zenon DEF tag, TagOf

\* nextCustomerPayoutAt is exact: as long as the policy stands and claims end
\* within a unit of the timer, no payout of the customers begins before the time
\* that the one before it announced.
THEOREM PaidAsAnnounced ==
  ASSUME ~SlowClaims
  PROVE  JobsSpec => PaidWhenAnnounced
  <1>1. ScheduleInv /\ [Schedule!Next]_scheduleVars => ScheduleInv'
    BY ScheduleStep, Zenon
  <1>2. ScheduleInv /\ [Schedule!Next]_scheduleVars => [Schedule!PaysAsAnnounced]_scheduleVars
    BY PaysStep, Zenon
  <1> QED  BY <1>1, <1>2, SchedulePart, ScheduleInit, PTL DEF PaidWhenAnnounced
=============================================================================
