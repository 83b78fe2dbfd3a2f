--------------------------- MODULE PayoutSchedule ---------------------------
(***************************************************************************)
(* The timer that pays: scheduled() of payouts.service.ts with the slots   *)
(* that settings.service.ts claims for customers and for the operator, and *)
(* the time of the next payout that the portal shows.                      *)
(*                                                                         *)
(* Time is in units of the timer.  Calls of scheduled() overlap when one   *)
(* lasts longer than a unit; each reads the policy for itself.             *)
(***************************************************************************)
EXTENDS Naturals, FiniteSets

CONSTANTS
  Calls,        \* overlapping calls of scheduled()
  DayLen,       \* units in a local day
  DailyTime,    \* dailyTime, in units after midnight
  Interval,     \* intervalMinutes
  Offset,       \* minuteOffset
  MaxTime,      \* bound on the clock
  MaxSaves,     \* bound on the changes of the policy
  SlowClaims    \* whether a claim may last longer than a unit of the timer

Kinds == {"customer", "operator"}
Modes == {"DAILY", "INTERVAL"}
Slots == {"daily", "interval"} \X (0..(MaxTime + 1))
NoSlot == <<"none", 0>>

VARIABLES
  now,
  timer,      \* the interval has fired and its callback has not run yet
  mode,       \* of the saved policy
  saves,      \* changes of the policy so far
  lastSlot,   \* payout.schedule.lastRunSlot and operator.payout.schedule.lastRunSlot
  running,
  call,       \* of a call: its step and what came of its two claims
  taken,      \* how often a slot was claimed (history)
  announced   \* nextCustomerPayoutAt after the last save or customers' payout (history)

vars == <<now, timer, mode, saves, lastSlot, running, call, taken, announced>>

\* Local time and the slot of a claim that begins now.  Before the time of the
\* day there is none.  (Intervals are numbered from the one before the clock's 0.)
Day == now \div DayLen
DailyDue == now % DayLen >= DailyTime
\* (Mutant: from midnight on.)
DailySlotEarly == <<"daily", Day>>
DailySlot == IF DailyDue THEN <<"daily", Day>> ELSE NoSlot
IntervalIndex == (now + Interval - Offset) \div Interval
IntervalSlot == <<"interval", IntervalIndex>>
SlotOf(kind) == IF kind = "operator" \/ mode = "DAILY" THEN DailySlot ELSE IntervalSlot

\* nextCustomerPayoutAt.
NextPayoutAt(md) ==
  IF md = "INTERVAL" THEN IntervalIndex * Interval + Offset
  ELSE IF ~DailyDue THEN Day * DayLen + DailyTime ELSE (Day + 1) * DayLen + DailyTime

Idle == [step |-> "idle", claim |-> [k \in Kinds |-> "lost"], slot |-> [k \in Kinds |-> NoSlot]]
Claiming == [step |-> "claim", claim |-> [k \in Kinds |-> "begin"], slot |-> [k \in Kinds |-> NoSlot]]

Init ==
  /\ now = 0 /\ timer = FALSE
  /\ mode \in Modes /\ saves = 0
  /\ lastSlot = [k \in Kinds |-> NoSlot]
  /\ running = FALSE
  /\ call = [c \in Calls |-> Idle]
  /\ taken = [k \in Kinds |-> [s \in Slots |-> 0]]
  /\ announced = NextPayoutAt(mode)

Tick ==
  /\ now < MaxTime
  /\ SlowClaims \/ \A c \in Calls : call[c].step # "claim"
  /\ now' = now + 1 /\ timer' = TRUE
  /\ UNCHANGED <<mode, saves, lastSlot, running, call, taken, announced>>

\* A save that leaves the times alone changes nothing here.
UpdatePayoutSchedule(md) ==
  /\ saves < MaxSaves /\ md # mode
  /\ saves' = saves + 1
  /\ mode' = md
  /\ announced' = NextPayoutAt(md)
  /\ UNCHANGED <<now, timer, lastSlot, running, call, taken>>

\* (Mutant: a call does not look whether another one is running.)
MayStartAny == TRUE
MayStart == ~running

Scheduled(c) ==
  /\ timer /\ call[c].step = "idle"
  /\ timer' = FALSE
  /\ call' = IF MayStart THEN [call EXCEPT ![c] = Claiming] ELSE call
  /\ UNCHANGED <<now, mode, saves, lastSlot, running, taken, announced>>

\* claimScheduledRun and claimOperatorScheduledRun up to claimSlot.
ComputeSlot(c, k) ==
  /\ call[c].step = "claim" /\ call[c].claim[k] = "begin"
  /\ call' = [call EXCEPT ![c].slot[k] = SlotOf(k),
                          ![c].claim[k] = IF SlotOf(k) = NoSlot THEN "lost" ELSE "slot"]
  /\ UNCHANGED <<now, timer, mode, saves, lastSlot, running, taken, announced>>

\* claimSlot under its advisory lock.  (Mutant: it does not compare.)
FreeAny(k, slot) == TRUE
Free(k, slot) == lastSlot[k] # slot

ClaimSlot(c, k) ==
  /\ call[c].step = "claim" /\ call[c].claim[k] = "slot"
  /\ IF Free(k, call[c].slot[k])
     THEN /\ lastSlot' = [lastSlot EXCEPT ![k] = call[c].slot[k]]
          /\ taken' = [taken EXCEPT ![k][call[c].slot[k]] = @ + 1]
          /\ call' = [call EXCEPT ![c].claim[k] = "won"]
          /\ announced' = IF k = "customer" THEN NextPayoutAt(mode) ELSE announced
     ELSE /\ call' = [call EXCEPT ![c].claim[k] = "lost"]
          /\ UNCHANGED <<lastSlot, taken, announced>>
  /\ UNCHANGED <<now, timer, mode, saves, running>>

\* A claim that throws is caught and counts as lost.
ClaimFails(c, k) ==
  /\ call[c].step = "claim" /\ call[c].claim[k] \in {"begin", "slot"}
  /\ call' = [call EXCEPT ![c].claim[k] = "lost"]
  /\ UNCHANGED <<now, timer, mode, saves, lastSlot, running, taken, announced>>

\* Both claims have ended.
Proceed(c) ==
  /\ call[c].step = "claim"
  /\ \A k \in Kinds : call[c].claim[k] \in {"won", "lost"}
  /\ IF \E k \in Kinds : call[c].claim[k] = "won"
     THEN running' = TRUE /\ call' = [call EXCEPT ![c].step = "pay"]
     ELSE running' = running /\ call' = [call EXCEPT ![c] = Idle]
  /\ UNCHANGED <<now, timer, mode, saves, lastSlot, taken, announced>>

\* The payouts are done or have failed: both end in 'finally'.
Finish(c) ==
  /\ call[c].step = "pay"
  /\ running' = FALSE
  /\ call' = [call EXCEPT ![c] = Idle]
  /\ UNCHANGED <<now, timer, mode, saves, lastSlot, taken, announced>>

Crash ==
  /\ running' = FALSE /\ timer' = FALSE
  /\ call' = [c \in Calls |-> Idle]
  /\ UNCHANGED <<now, mode, saves, lastSlot, taken, announced>>

Next ==
  \/ Tick \/ Crash
  \/ \E md \in Modes : UpdatePayoutSchedule(md)
  \/ \E c \in Calls : Scheduled(c) \/ Proceed(c) \/ Finish(c)
  \/ \E c \in Calls, k \in Kinds : ComputeSlot(c, k) \/ ClaimSlot(c, k) \/ ClaimFails(c, k)

Spec == Init /\ [][Next]_vars

-----------------------------------------------------------------------------
Claims == [Kinds -> {"begin", "slot", "won", "lost"}]
TypeOK ==
  /\ now \in 0..MaxTime /\ timer \in BOOLEAN /\ mode \in Modes /\ saves \in 0..MaxSaves
  /\ lastSlot \in [Kinds -> Slots \cup {NoSlot}]
  /\ running \in BOOLEAN
  /\ ~SlowClaims => (running <=> \E c \in Calls : call[c].step = "pay")
  /\ call \in [Calls -> [step : {"idle", "claim", "pay"}, claim : Claims,
                         slot : [Kinds -> Slots \cup {NoSlot}]]]
  /\ taken \in [Kinds -> [Slots -> Nat]] /\ announced \in Nat

\* However calls, claims that fail, restarts and pauses interleave, a slot is
\* paid once: "claims a configured local payout minute only once per local date".
SlotOnce == \A k \in Kinds, s \in Slots : taken[k][s] <= 1

\* The check of 'running' and the claims together keep two calls from paying at
\* once, although the flag is set only after the claims.
OnePayer == Cardinality({c \in Calls : call[c].step = "pay"}) <= 1

\* The portal shows the time of the next payout exactly: after the first one,
\* and as long as the policy is not changed, customers are not paid before the
\* time that was shown.
PaysAsAnnounced ==
  (/\ saves = 0 /\ lastSlot["customer"] # NoSlot
   /\ lastSlot'["customer"] # lastSlot["customer"]) => now >= announced
=============================================================================
