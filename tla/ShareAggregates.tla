--------------------------- MODULE ShareAggregates ---------------------------
(***************************************************************************)
(* The statistics job of share-maintenance.service.ts: aggregate writes    *)
(* one row per bucket of time, for buckets of several lengths, from the    *)
(* shares of a trailing window; pruneRawShares deletes old shares.  One    *)
(* worker, time in ticks.                                                  *)
(***************************************************************************)
EXTENDS Integers, FiniteSets

CONSTANTS
  Shares,
  NStrides,    \* the buckets' lengths, shortest first: a minute, an hour, a day
  BucketLen,   \* ticks in a bucket of a stride
  Window,      \* ticks that the job looks back for a stride
  Retention,   \* RAW_SHARE_RETENTION_DAYS
  MaxTime      \* bound on the clock

Strides == 1..NStrides

VARIABLES
  now,
  at,         \* submittedAt
  status,     \* of a share: "none", PENDING, ACCEPTED, REJECTED, UNKNOWN or "deleted"
  allocated,  \* shares with an allocationBatchId
  everAccepted,  \* shares that were ACCEPTED at some time (history)
  aggregates, \* acceptedCount and rejectedCount of a bucket
  job         \* stride that aggregate writes next, 0 when it does not run

vars == <<now, at, status, allocated, everAccepted, aggregates, job>>

Buckets == 0..MaxTime
Bucket(k, t) == t \div BucketLen[k]

Init ==
  /\ now = 0
  /\ at = [s \in Shares |-> 0] /\ status = [s \in Shares |-> "none"]
  /\ allocated = {} /\ everAccepted = {}
  /\ aggregates = [k \in Strides |-> [b \in Buckets |-> [accepted |-> 0, rejected |-> 0]]]
  /\ job = 0

Tick ==
  /\ now < MaxTime
  /\ now' = now + 1
  /\ UNCHANGED <<at, status, allocated, everAccepted, aggregates, job>>

Submit(s) ==
  /\ status[s] = "none"
  /\ at' = [at EXCEPT ![s] = now]
  /\ status' = [status EXCEPT ![s] = "PENDING"]
  /\ UNCHANGED <<now, allocated, everAccepted, aggregates, job>>

Resolve(s, r) ==
  /\ status[s] = "PENDING"
  /\ status' = [status EXCEPT ![s] = r]
  /\ everAccepted' = IF r = "ACCEPTED" THEN everAccepted \cup {s} ELSE everAccepted
  /\ UNCHANGED <<now, at, allocated, aggregates, job>>

Allocate(s) ==
  /\ status[s] = "ACCEPTED" /\ s \notin allocated
  /\ allocated' = allocated \cup {s}
  /\ UNCHANGED <<now, at, status, everAccepted, aggregates, job>>

\* The 20th second of a minute.
Aggregate ==
  /\ job = 0 /\ NStrides > 0
  /\ job' = 1
  /\ UNCHANGED <<now, at, status, allocated, everAccepted, aggregates>>

Grouped(k, b, st) ==
  Cardinality({s \in Shares : status[s] = st /\ at[s] >= now - Window[k] /\ Bucket(k, at[s]) = b})

\* ON CONFLICT DO UPDATE.  (Mutant: the counts are added.)
UpsertedSum(row, accepted, rejected) ==
  [accepted |-> row.accepted + accepted, rejected |-> row.rejected + rejected]
Upserted(row, accepted, rejected) == [accepted |-> accepted, rejected |-> rejected]

NextStride == IF job = NStrides THEN 0 ELSE job + 1

UpsertBuckets ==
  /\ job > 0
  /\ aggregates' =
       [aggregates EXCEPT ![job] =
          [b \in Buckets |->
             IF Grouped(job, b, "ACCEPTED") + Grouped(job, b, "REJECTED") = 0 THEN @[b]
             ELSE Upserted(@[b], Grouped(job, b, "ACCEPTED"), Grouped(job, b, "REJECTED"))]]
  /\ job' = NextStride
  /\ UNCHANGED <<now, at, status, allocated, everAccepted>>

\* A statement fails: the strides that follow are left for the next minute.
AggregateFails ==
  /\ job > 0
  /\ job' = 0
  /\ UNCHANGED <<now, at, status, allocated, everAccepted, aggregates>>

\* (Mutant: from the last instant of the period on.)
PrunableEarly(s) ==
  /\ at[s] <= now - Retention
  /\ (status[s] = "ACCEPTED" /\ s \in allocated) \/ status[s] \in {"REJECTED", "UNKNOWN"}
Prunable(s) ==
  /\ at[s] < now - Retention
  /\ (status[s] = "ACCEPTED" /\ s \in allocated) \/ status[s] \in {"REJECTED", "UNKNOWN"}

PruneRawShares ==
  /\ \E s \in Shares : Prunable(s)
  /\ status' = [s \in Shares |-> IF Prunable(s) THEN "deleted" ELSE status[s]]
  /\ UNCHANGED <<now, at, allocated, everAccepted, aggregates, job>>

Next ==
  \/ Tick \/ Aggregate \/ UpsertBuckets \/ AggregateFails \/ PruneRawShares
  \/ \E s \in Shares : \/ Submit(s) \/ Allocate(s)
                       \/ \E r \in {"ACCEPTED", "REJECTED", "UNKNOWN"} : Resolve(s, r)

Spec == Init /\ [][Next]_vars

-----------------------------------------------------------------------------
TypeOK ==
  /\ now \in 0..MaxTime /\ job \in 0..NStrides
  /\ at \in [Shares -> 0..MaxTime]
  /\ status \in [Shares -> {"none", "PENDING", "ACCEPTED", "REJECTED", "UNKNOWN", "deleted"}]
  /\ allocated \subseteq everAccepted /\ everAccepted \subseteq Shares
  /\ aggregates \in [Strides -> [Buckets -> [accepted : 0..Cardinality(Shares), rejected : 0..Cardinality(Shares)]]]

\* The windows of successive jobs overlap, and no share is counted twice: a
\* bucket never shows more accepted shares than were accepted in its time.
NeverOvercounts ==
  \A k \in Strides, b \in Buckets :
    aggregates[k][b].accepted <= Cardinality({s \in everAccepted : Bucket(k, at[s]) = b})

\* Later jobs and the pruning of raw shares leave a bucket's count alone: if
\* shares are retained for the length of the window, it falls only in the bucket
\* in which the window begins, of which the job sees a part.
FallsAtTheEdge ==
  \A k \in Strides, b \in Buckets :
    aggregates'[k][b].accepted < aggregates[k][b].accepted /\ Retention >= Window[k]
      => b * BucketLen[k] < now - Window[k]

\* "Raw shares are rolled into minute/hour/day aggregates": shares stay accepted,
\* so the accepted count of a bucket does not fall.
CountsAreKept ==
  [][\A k \in Strides, b \in Buckets : aggregates'[k][b].accepted >= aggregates[k][b].accepted]_vars
=============================================================================
