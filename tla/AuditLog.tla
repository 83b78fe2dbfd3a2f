------------------------------ MODULE AuditLog ------------------------------
(***************************************************************************)
(* audit/audit.service.ts: every service writes its audit event by record, *)
(* a transaction that takes an advisory lock, reads the last event and     *)
(* inserts one that carries its hash; verify walks the chain.              *)
(*                                                                         *)
(* A hash is the pair of what is hashed: it differs whenever the content   *)
(* or the previous hash does.                                              *)
(***************************************************************************)
EXTENDS Naturals

CONSTANTS
  Recorders,  \* calls of record that may be in progress at once
  Events,     \* contents of an event: actor, action, entity, before and after
  Null,       \* no previousHash
  Nobody,     \* the advisory lock is free
  MaxSequence \* bound on inserts

VARIABLES
  rows,      \* the committed rows by their sequence; rolled back inserts leave gaps
  sequence,  \* last value of the autoincrement, which a rollback does not take back
  holder,    \* the transaction that holds the advisory lock
  tx         \* tx[r]: step, event, previous, number

vars == <<rows, sequence, holder, tx>>

Idle == [step |-> "idle", event |-> Null, previous |-> Null, number |-> 0]

Init ==
  /\ rows = <<>>
  /\ sequence = 0
  /\ holder = Nobody
  /\ tx = [r \in Recorders |-> Idle]

Hash(event, previous) == <<event, previous>>

\* The last row: findFirst by descending sequence.
Last(i) == i \in DOMAIN rows /\ \A j \in DOMAIN rows : j <= i
LastHash == IF DOMAIN rows = {} THEN Null ELSE rows[CHOOSE i \in DOMAIN rows : Last(i)].eventHash

Begin(r, e) ==
  /\ tx[r].step = "idle"
  /\ tx' = [tx EXCEPT ![r] = [Idle EXCEPT !.step = "lock", !.event = e]]
  /\ UNCHANGED <<rows, sequence, holder>>

\* pg_advisory_xact_lock.  (Mutant: without it.)
GrantedAny(r) == TRUE
Granted(r) == holder = Nobody

Lock(r) ==
  /\ tx[r].step = "lock" /\ Granted(r)
  /\ holder' = r
  /\ tx' = [tx EXCEPT ![r].step = "read"]
  /\ UNCHANGED <<rows, sequence>>

ReadLast(r) ==
  /\ tx[r].step = "read"
  /\ tx' = [tx EXCEPT ![r].step = "insert", ![r].previous = LastHash]
  /\ UNCHANGED <<rows, sequence, holder>>

Insert(r) ==
  /\ tx[r].step = "insert" /\ sequence < MaxSequence
  /\ sequence' = sequence + 1
  /\ tx' = [tx EXCEPT ![r].step = "commit", ![r].number = sequence + 1]
  /\ UNCHANGED <<rows, holder>>

\* (Mutant: the hash leaves out what is before it.)
NewRowUnchained(t) ==
  [event |-> t.event, previousHash |-> t.previous, eventHash |-> Hash(t.event, Null)]
NewRow(t) ==
  [event |-> t.event, previousHash |-> t.previous, eventHash |-> Hash(t.event, t.previous)]

\* The row is visible and the lock is free; (number, row) is added to rows.
Commit(r) ==
  /\ tx[r].step = "commit"
  /\ rows' = [i \in DOMAIN rows \cup {tx[r].number} |-> IF i = tx[r].number THEN NewRow(tx[r]) ELSE rows[i]]
  /\ holder' = Nobody
  /\ tx' = [tx EXCEPT ![r] = Idle]
  /\ UNCHANGED sequence

\* A statement fails, the transaction takes longer than five seconds, or the
\* process stops.
Rollback(r) ==
  /\ tx[r].step # "idle"
  /\ holder' = IF holder = r THEN Nobody ELSE holder
  /\ tx' = [tx EXCEPT ![r] = Idle]
  /\ UNCHANGED <<rows, sequence>>

Next ==
  \E r \in Recorders :
    \/ \E e \in Events : Begin(r, e)
    \/ Lock(r) \/ ReadLast(r) \/ Insert(r) \/ Commit(r) \/ Rollback(r)

Spec == Init /\ [][Next]_vars

-----------------------------------------------------------------------------
(* verify *)

\* The row before row i of a table, in the order of sequence.
Before(table, j, i) ==
  /\ j \in DOMAIN table /\ j < i
  /\ \A k \in DOMAIN table : k < i => k <= j

Linked(table, i) ==
  \/ (\A k \in DOMAIN table : i <= k) /\ table[i].previousHash = Null
  \/ \E j \in DOMAIN table : Before(table, j, i) /\ table[i].previousHash = table[j].eventHash

\* The test of the loop for one row.
Sound(table, i) ==
  Linked(table, i) /\ table[i].eventHash = Hash(table[i].event, table[i].previousHash)

\* verify returns valid, or the first row that is not sound.
Valid(table) == \A i \in DOMAIN table : Sound(table, i)
BrokenAt(table, i) ==
  /\ i \in DOMAIN table /\ ~Sound(table, i)
  /\ \A k \in DOMAIN table : k < i => Sound(table, k)

-----------------------------------------------------------------------------
(* Properties. *)

TypeOK ==
  /\ DOMAIN rows \subseteq 1..sequence
  /\ \A i \in DOMAIN rows : DOMAIN rows[i] = {"event", "previousHash", "eventHash"} /\ rows[i].event \in Events
  /\ sequence \in Nat
  /\ holder \in Recorders \cup {Nobody}
  /\ DOMAIN tx = Recorders
  /\ \A r \in Recorders : /\ DOMAIN tx[r] = DOMAIN Idle
                          /\ tx[r].step \in {"idle", "lock", "read", "insert", "commit"}
                          /\ tx[r].number \in 0..sequence

\* A table in which the content of one row was changed.
Changed(i, e) == [rows EXCEPT ![i].event = e]

\* "identifies the first modified event": verify accepts the log that concurrent
\* records, time-outs and restarts leave behind, and names the row when the
\* content of any one was changed later.
LogVerifies ==
  /\ Valid(rows)
  /\ \A i \in DOMAIN rows, e \in Events : e # rows[i].event => BrokenAt(Changed(i, e), i)

\* "Audit events are append-only": a record adds its row behind all that are
\* there, so a reader who has read up to a row has missed none.
Appends ==
  /\ \A i \in DOMAIN rows : i \in DOMAIN rows' /\ rows'[i] = rows[i]
  /\ \A i \in DOMAIN rows' \ DOMAIN rows : \A j \in DOMAIN rows : j < i
=============================================================================
