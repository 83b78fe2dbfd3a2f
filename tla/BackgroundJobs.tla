--------------------------- MODULE BackgroundJobs ---------------------------
(***************************************************************************)
(* Three jobs that run by the clock: the scanner of deposits (DepositScan), *)
(* the timer that pays (PayoutSchedule) and the statistics of shares       *)
(* (ShareAggregates).  A behaviour moves one of them, its part, and        *)
(* reaches every state of it: what they do to each other's tables is an    *)
(* action of the environment in each.                                      *)
(***************************************************************************)
EXTENDS DepositScan, FiniteSets

CONSTANTS
  Calls, DayLen, DailyTime, Interval, Offset, MaxTime, MaxSaves, SlowClaims,  \* see PayoutSchedule
  NStrides, BucketLen, Window, Retention, StatsTime                           \* see ShareAggregates

ASSUME ScheduleAssumption ==
  /\ DayLen \in Nat \ {0} /\ DailyTime \in 0..(DayLen - 1)
  /\ Interval \in Nat \ {0} /\ Offset \in Nat /\ Offset < Interval
  /\ MaxTime \in Nat /\ MaxSaves \in Nat /\ SlowClaims \in BOOLEAN

ASSUME AggregateAssumption ==
  /\ IsFiniteSet(Shares) /\ NStrides \in Nat /\ StatsTime \in Nat /\ Retention \in Nat
  /\ BucketLen \in [1..NStrides -> Nat \ {0}] /\ Window \in [1..NStrides -> Nat]

VARIABLES
  part,
  now, timer, mode, saves, lastSlot, running, call, taken, announced,
  clock, at, result, allocated, everAccepted, aggregates, job

Schedule == INSTANCE PayoutSchedule
Stats == INSTANCE ShareAggregates WITH now <- clock, status <- result, MaxTime <- StatsTime

scheduleVars == <<now, timer, mode, saves, lastSlot, running, call, taken, announced>>
statsVars == <<clock, at, result, allocated, everAccepted, aggregates, job>>
allVars == <<part, vars, scheduleVars, statsVars>>

JobsInit ==
  /\ part \in {"deposits", "schedule", "stats"}
  /\ Init
  /\ Schedule!Init /\ (part = "schedule" \/ mode = "DAILY")
  /\ Stats!Init

InDeposits(step) == part = "deposits" /\ step /\ UNCHANGED <<part, scheduleVars, statsVars>>

JobsNext ==
  \/ InDeposits(Next)
  \/ part = "schedule" /\ Schedule!Next /\ UNCHANGED <<part, vars, statsVars>>
  \/ part = "stats" /\ Stats!Next /\ UNCHANGED <<part, vars, scheduleVars>>

\* The fairness of DepositScan: scans begin every minute and are answered.
JobsSpec == JobsInit /\ [][JobsNext]_allVars /\ WF_allVars(InDeposits(ScanStep))

-----------------------------------------------------------------------------
\* See PayoutSchedule: however calls of the timer overlap, a slot is paid once
\* and by one call at a time.
OnePayment == Schedule!SlotOnce /\ Schedule!OnePayer

\* See PayoutSchedule: customers are not paid before the time shown to them.
PaidWhenAnnounced == [][Schedule!PaysAsAnnounced]_scheduleVars

\* See ShareAggregates: the overlapping windows count no share twice.
NeverOvercounts == Stats!NeverOvercounts

\* See ShareAggregates: the count of a bucket falls only where a window begins.
FallsOnlyAtTheEdge == [][Stats!FallsAtTheEdge]_statsVars
=============================================================================
