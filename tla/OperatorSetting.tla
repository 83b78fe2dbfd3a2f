--------------------------- MODULE OperatorSetting ---------------------------
(***************************************************************************)
(* The operator's own payout address of one asset in settings.service.ts:  *)
(* a change waits under one key of SystemSetting and is moved to another   *)
(* when it is due.  Every read of the setting (operatorPayout: the         *)
(* scheduler, the settings page, the planner) moves it first, so several   *)
(* may do it at once.                                                      *)
(***************************************************************************)
EXTENDS Naturals

CONSTANTS
  MaxChanges,  \* bound on the changes an administrator makes
  Readers      \* concurrent calls of operatorPayout

NoChange == 0
Changes == 1..MaxChanges   \* numbered in the order of the requests

VARIABLES
  last,     \* the latest change that was requested
  pending,  \* operator.payout.pending.<asset>
  active,   \* operator.payout.active.<asset>
  due,      \* changes whose effectiveAt has come
  read      \* what a reader has read and will write, or NoChange

vars == <<last, pending, active, due, read>>

Init ==
  /\ last = NoChange /\ pending = NoChange /\ active = NoChange /\ due = {}
  /\ read = [r \in Readers |-> NoChange]

UpdateOperatorPayout ==
  /\ last < MaxChanges
  /\ last' = last + 1 /\ pending' = last + 1
  /\ UNCHANGED <<active, due, read>>

\* A day has passed since the request.
Cool(c) ==
  /\ c \in 1..last \ due /\ 1..(c - 1) \subseteq due
  /\ due' = due \cup {c}
  /\ UNCHANGED <<last, pending, active, read>>

\* (Mutant: effectiveAt is not looked at.)
IsDueAny(c) == c # NoChange
IsDue(c) == c # NoChange /\ c \in due

ReadPending(r) ==
  /\ read[r] = NoChange /\ IsDue(pending)
  /\ read' = [read EXCEPT ![r] = pending]
  /\ UNCHANGED <<last, pending, active, due>>

\* The delete of a key that is not there fails and takes the upsert with it.
Move(r) ==
  /\ read[r] # NoChange /\ pending # NoChange
  /\ active' = read[r] /\ pending' = NoChange
  /\ read' = [read EXCEPT ![r] = NoChange]
  /\ UNCHANGED <<last, due>>

MoveFails(r) ==
  /\ read[r] # NoChange
  /\ read' = [read EXCEPT ![r] = NoChange]
  /\ UNCHANGED <<last, pending, active, due>>

Next ==
  \/ UpdateOperatorPayout
  \/ \E c \in Changes : Cool(c)
  \/ \E r \in Readers : ReadPending(r) \/ Move(r) \/ MoveFails(r)

Spec == Init /\ [][Next]_vars

-----------------------------------------------------------------------------
\* Only the latest change waits.
TypeOK ==
  /\ last \in 0..MaxChanges /\ active \in 0..last /\ due \subseteq 1..last
  /\ pending \in {NoChange, last}
  /\ read \in [Readers -> 0..last]

\* The operator is not paid at an address that is less than a day old, whoever
\* moves the setting and however calls overlap.
OperatorCooled == active = NoChange \/ active \in due

\* "validates and cools operator payout changes for 24 hours": the latest change
\* waits or is in force.
LatestIsKept == last = NoChange \/ last \in {pending, active}
=============================================================================
