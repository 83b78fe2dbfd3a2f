------------------------ MODULE AdministrationProofs ------------------------
(***************************************************************************)
(* The parts of Administration, for any number of logins, setups,          *)
(* attempts, recorders, administrators and tabs.                           *)
(*                                                                         *)
(* The audit log: it verifies, the row that was changed is named, and it   *)
(* only grows at its end.  The advisory lock is what makes that inductive: *)
(* who is past it holds it, so what it has read is still the last hash     *)
(* when it commits, and the number it took is behind every row.            *)
(*                                                                         *)
(* The sessions: every request carries a CSRF token that names the         *)
(* administrator its tab showed, and the guard finds out whose the cookie  *)
(* is; the handler is reached when the two are the same session.           *)
(*                                                                         *)
(* The login: a code is taken once, setups exclude each other by the row   *)
(* they update first, and a guess is either counted or still on its way.   *)
(***************************************************************************)
EXTENDS Administration, Sequences, FiniteSetTheorems, TLAPS

-----------------------------------------------------------------------------
(* The audit log (AuditLog). *)

\* The steps of a transaction that are behind the lock.
Past == {"read", "insert", "commit"}

\* Whoever has passed pg_advisory_xact_lock holds the lock.
PastHolds == \A r \in Recorders : tx[r].step \in Past => holder = r

\* A log that is not empty has a last row.
HasLast == DOMAIN rows # {} => \E i \in DOMAIN rows : Audit!Last(i)

\* What a transaction has read is the hash of the last row ...
ReadIsLast == \A r \in Recorders : tx[r].step \in {"insert", "commit"} => tx[r].previous = Audit!LastHash

\* ... and the sequence has given it a number behind all rows.
NumberIsBehind ==
  \A r \in Recorders : tx[r].step = "commit" =>
    tx[r].number \in Nat \ {0} /\ \A i \in DOMAIN rows : i < tx[r].number

\* A transaction carries an event.
CarriesEvent == \A r \in Recorders : tx[r].step # "idle" => tx[r].event \in Events

\* The inductive invariant.
AuditInv ==
  /\ Audit!TypeOK /\ PastHolds /\ HasLast /\ ReadIsLast /\ NumberIsBehind /\ CarriesEvent
  /\ Audit!Valid(rows)

-----------------------------------------------------------------------------
\* findFirst by descending sequence gives the hash of the last row.
LEMMA LastHashIs ==
  ASSUME Audit!TypeOK, NEW i \in DOMAIN rows, Audit!Last(i)
  PROVE  Audit!LastHash = rows[i].eventHash
  <1>1. \A j \in DOMAIN rows : j \in Nat
    BY DEF Audit!TypeOK
  <1>2. ASSUME NEW j, Audit!Last(j) PROVE j = i
    BY <1>1, <1>2 DEF Audit!Last
  <1> DEFINE m == CHOOSE j \in DOMAIN rows : Audit!Last(j)
  <1>3. m \in DOMAIN rows /\ Audit!Last(m)
    BY Zenon
  <1>4. m = i
    BY <1>2, <1>3, Zenon
  <1> QED  BY <1>4, Zenon DEF Audit!LastHash

\* A row is added behind all others.
Extends(n, new) ==
  /\ n \in Nat \ {0}
  /\ \A i \in DOMAIN rows : i < n
  /\ rows' = [i \in DOMAIN rows \cup {n} |-> IF i = n THEN new ELSE rows[i]]

\* A row that carries the last hash and hashes it keeps the chain of verify.
LEMMA ExtendKeepsValid ==
  ASSUME Audit!TypeOK, HasLast, Audit!Valid(rows), NEW n, NEW new, Extends(n, new),
         new.previousHash = Audit!LastHash, new.eventHash = Audit!Hash(new.event, new.previousHash)
  PROVE  Audit!Valid(rows')
  <1>0. \A i \in DOMAIN rows : i \in Nat
    BY DEF Audit!TypeOK
  <1>1. /\ DOMAIN rows' = DOMAIN rows \cup {n} /\ n \in Nat /\ n \notin DOMAIN rows
        /\ rows'[n] = new /\ \A i \in DOMAIN rows : rows'[i] = rows[i] /\ i < n
    BY <1>0 DEF Extends
  <1>2. ASSUME NEW i \in DOMAIN rows PROVE Audit!Sound(rows', i)
    <2>1. Audit!Sound(rows, i)
      BY Zenon DEF Audit!Valid
    <2>2. CASE (\A k \in DOMAIN rows : i <= k) /\ rows[i].previousHash = Null
      BY <1>0, <1>1, <2>1, <2>2 DEF Audit!Sound, Audit!Linked
    <2>3. CASE \E j \in DOMAIN rows : Audit!Before(rows, j, i) /\ rows[i].previousHash = rows[j].eventHash
      <3>1. PICK j \in DOMAIN rows : Audit!Before(rows, j, i) /\ rows[i].previousHash = rows[j].eventHash
        BY <2>3, Zenon
      <3>2. Audit!Before(rows', j, i)
        BY <1>0, <1>1, <3>1 DEF Audit!Before
      <3>3. Audit!Linked(rows', i)
        BY <1>1, <3>1, <3>2, Zenon DEF Audit!Linked
      <3> QED  BY <1>1, <2>1, <3>3, Zenon DEF Audit!Sound
    <2> QED  BY <2>1, <2>2, <2>3, Zenon DEF Audit!Sound, Audit!Linked
  <1>3. Audit!Sound(rows', n)
    <2>1. CASE DOMAIN rows = {}
      BY <1>1, <2>1 DEF Audit!Sound, Audit!Linked, Audit!LastHash
    <2>2. CASE DOMAIN rows # {}
      <3>1. PICK j \in DOMAIN rows : Audit!Last(j)
        BY <2>2, Zenon DEF HasLast
      <3>2. new.previousHash = rows'[j].eventHash
        BY <1>1, <3>1, LastHashIs, Zenon
      <3>3. Audit!Before(rows', j, n)
        BY <1>0, <1>1, <3>1 DEF Audit!Before, Audit!Last
      <3>4. Audit!Linked(rows', n)
        BY <1>1, <3>2, <3>3, Zenon DEF Audit!Linked
      <3> QED  BY <1>1, <3>4, Zenon DEF Audit!Sound
    <2> QED  BY <2>1, <2>2, Zenon
  <1> QED  BY <1>1, <1>2, <1>3, Zenon DEF Audit!Valid

-----------------------------------------------------------------------------
\* An empty log and no transaction.
LEMMA AuditInvInit == Audit!Init => AuditInv
  <1> SUFFICES ASSUME Audit!Init PROVE AuditInv
    BY Zenon
  <1>1. DOMAIN rows = {}
    BY DEF Audit!Init
  <1>2. \A r \in Recorders : tx[r] = Audit!Idle
    BY Zenon DEF Audit!Init
  <1>3. Audit!TypeOK
    BY <1>1, <1>2 DEF Audit!Init, Audit!TypeOK, Audit!Idle
  <1>4. PastHolds /\ ReadIsLast /\ NumberIsBehind /\ CarriesEvent
    BY <1>2 DEF Audit!Idle, Past, PastHolds, ReadIsLast, NumberIsBehind, CarriesEvent
  <1>5. HasLast /\ Audit!Valid(rows)
    BY <1>1, Zenon DEF HasLast, Audit!Valid
  <1> QED  BY <1>3, <1>4, <1>5, Zenon DEF AuditInv

\* What does not touch the rows keeps what is said of them alone.
LEMMA RowsKept ==
  ASSUME AuditInv, UNCHANGED rows
  PROVE  HasLast' /\ Audit!Valid(rows)' /\ Audit!LastHash' = Audit!LastHash
  BY DEF AuditInv, HasLast, Audit!Last, Audit!LastHash, Audit!Valid

\* Every step of record, of any transaction, keeps the invariant.
LEMMA AuditInvNext == AuditInv /\ [Audit!Next]_auditVars => AuditInv'
  <1> SUFFICES ASSUME AuditInv, [Audit!Next]_auditVars PROVE AuditInv'
    BY Zenon
  <1>0. /\ Audit!TypeOK /\ PastHolds /\ HasLast /\ ReadIsLast /\ NumberIsBehind /\ CarriesEvent
        /\ Audit!Valid(rows)
    BY Zenon DEF AuditInv
  <1>1. ASSUME NEW r \in Recorders, NEW e \in Events, Audit!Begin(r, e) PROVE AuditInv'
    <2>1. Audit!TypeOK'
      BY <1>0, <1>1 DEF Audit!Begin, Audit!TypeOK, Audit!Idle
    <2>2. PastHolds' /\ NumberIsBehind' /\ CarriesEvent'
      BY <1>0, <1>1, Zenon DEF Audit!Begin, Audit!TypeOK, PastHolds, NumberIsBehind, CarriesEvent, Past, Audit!Idle
    <2>3. ReadIsLast'
      BY <1>0, <1>1, RowsKept, Zenon DEF Audit!Begin, Audit!TypeOK, ReadIsLast, Audit!Idle
    <2> QED  BY <1>1, <2>1, <2>2, <2>3, RowsKept, Zenon DEF AuditInv, Audit!Begin
  <1>2. ASSUME NEW r \in Recorders, Audit!Lock(r) PROVE AuditInv'
    <2>1. Audit!TypeOK'
      BY <1>0, <1>2, Zenon DEF Audit!Lock, Audit!TypeOK, Audit!Idle
    <2>2. PastHolds'
      BY <1>0, <1>2, AdministrationAssumption, Zenon DEF Audit!Lock, Audit!Granted, Audit!TypeOK, PastHolds, Past, Audit!Idle
    <2>3. NumberIsBehind' /\ CarriesEvent'
      BY <1>0, <1>2, Zenon DEF Audit!Lock, Audit!TypeOK, NumberIsBehind, CarriesEvent, Audit!Idle
    <2>4. ReadIsLast'
      BY <1>0, <1>2, RowsKept, Zenon DEF Audit!Lock, Audit!TypeOK, ReadIsLast, Audit!Idle
    <2> QED  BY <1>2, <2>1, <2>2, <2>3, <2>4, RowsKept, Zenon DEF AuditInv, Audit!Lock
  <1>3. ASSUME NEW r \in Recorders, Audit!ReadLast(r) PROVE AuditInv'
    <2>1. Audit!TypeOK'
      BY <1>0, <1>3, Zenon DEF Audit!ReadLast, Audit!TypeOK, Audit!Idle
    <2>2. PastHolds' /\ NumberIsBehind' /\ CarriesEvent'
      BY <1>0, <1>3 DEF Audit!ReadLast, Audit!TypeOK, PastHolds, NumberIsBehind, CarriesEvent, Past, Audit!Idle
    <2>3. ReadIsLast'
      BY <1>0, <1>3, RowsKept, Zenon DEF Audit!ReadLast, Audit!TypeOK, ReadIsLast, Audit!Idle
    <2> QED  BY <1>3, <2>1, <2>2, <2>3, RowsKept, Zenon DEF AuditInv, Audit!ReadLast
  <1>4. ASSUME NEW r \in Recorders, Audit!Insert(r) PROVE AuditInv'
    <2>1. Audit!TypeOK'
      BY <1>0, <1>4 DEF Audit!Insert, Audit!TypeOK, Audit!Idle
    <2>2. PastHolds' /\ CarriesEvent'
      BY <1>0, <1>4, Zenon DEF Audit!Insert, Audit!TypeOK, PastHolds, CarriesEvent, Past, Audit!Idle
    <2>3. NumberIsBehind'
      BY <1>0, <1>4 DEF Audit!Insert, Audit!TypeOK, NumberIsBehind, Audit!Idle
    <2>4. ReadIsLast'
      BY <1>0, <1>4, RowsKept, Zenon DEF Audit!Insert, Audit!TypeOK, ReadIsLast, Audit!Idle
    <2> QED  BY <1>4, <2>1, <2>2, <2>3, <2>4, RowsKept, Zenon DEF AuditInv, Audit!Insert
  <1>5. ASSUME NEW r \in Recorders, Audit!Commit(r) PROVE AuditInv'
    <2> DEFINE n == tx[r].number
               new == Audit!NewRow(tx[r])
    <2>1. /\ n \in 1..sequence /\ new.previousHash = Audit!LastHash /\ new.event \in Events
          /\ new.eventHash = Audit!Hash(new.event, new.previousHash)
          /\ DOMAIN new = {"event", "previousHash", "eventHash"}
      BY <1>0, <1>5 DEF Audit!Commit, Audit!TypeOK, ReadIsLast, NumberIsBehind, CarriesEvent, Audit!NewRow
    <2>2. Extends(n, new)
      BY <1>0, <1>5, Zenon DEF Audit!Commit, NumberIsBehind, Extends
    <2>3. Audit!Valid(rows')
      BY <1>0, <2>1, <2>2, ExtendKeepsValid, Zenon
    <2>4. DOMAIN rows' = DOMAIN rows \cup {n} /\ rows'[n] = new /\ \A i \in DOMAIN rows \ {n} : rows'[i] = rows[i]
      BY <2>2, Zenon DEF Extends
    <2>5. Audit!TypeOK'
      <3>1. DOMAIN rows' \subseteq 1..sequence'
        BY <1>0, <1>5, <2>1, <2>4, Zenon DEF Audit!Commit, Audit!TypeOK
      <3>2. \A i \in DOMAIN rows' : DOMAIN rows'[i] = {"event", "previousHash", "eventHash"} /\ rows'[i].event \in Events
        BY <1>0, <2>1, <2>4, Zenon DEF Audit!TypeOK
      <3>3. /\ DOMAIN tx' = Recorders
            /\ \A q \in Recorders : tx'[q] = IF q = r THEN Audit!Idle ELSE tx[q]
        BY <1>0, <1>5, Zenon DEF Audit!Commit, Audit!TypeOK
      <3>4. sequence' = sequence /\ sequence \in Nat /\ holder' = Nobody
        BY <1>0, <1>5, Zenon DEF Audit!Commit, Audit!TypeOK
      <3>5. \A q \in Recorders : /\ DOMAIN tx'[q] = DOMAIN Audit!Idle
                                 /\ tx'[q].step \in {"idle", "lock", "read", "insert", "commit"}
                                 /\ tx'[q].number \in 0..sequence
        BY <1>0, <3>3, <3>4 DEF Audit!TypeOK, Audit!Idle
      <3> QED  BY <3>1, <3>2, <3>3, <3>4, <3>5, Zenon DEF Audit!TypeOK
    <2>6. HasLast'
      <3>1. \A j \in DOMAIN rows' : j <= n
        BY <1>0, <2>1, <2>2, <2>4 DEF Audit!TypeOK, Extends
      <3> QED  BY <2>4, <3>1, Zenon DEF HasLast, Audit!Last
    <2>7. \A q \in Recorders : tx'[q] = IF q = r THEN Audit!Idle ELSE tx[q]
      BY <1>0, <1>5, Zenon DEF Audit!Commit, Audit!TypeOK
    <2>8. \A q \in Recorders : tx'[q].step \notin Past
      BY <1>0, <1>5, <2>7 DEF Audit!Commit, PastHolds, Past, Audit!Idle
    <2>9. PastHolds' /\ ReadIsLast' /\ NumberIsBehind'
      BY <2>8, Zenon DEF PastHolds, ReadIsLast, NumberIsBehind, Past
    <2>10. CarriesEvent'
      BY <1>0, <2>7 DEF CarriesEvent, Audit!Idle
    <2> QED  BY <2>3, <2>5, <2>6, <2>9, <2>10, Zenon DEF AuditInv
  <1>6. ASSUME NEW r \in Recorders, Audit!Rollback(r) PROVE AuditInv'
    <2>1. Audit!TypeOK'
      BY <1>0, <1>6 DEF Audit!Rollback, Audit!TypeOK, Audit!Idle
    <2>2. PastHolds' /\ NumberIsBehind' /\ CarriesEvent'
      BY <1>0, <1>6, Zenon DEF Audit!Rollback, Audit!TypeOK, PastHolds, NumberIsBehind, CarriesEvent, Past, Audit!Idle
    <2>3. ReadIsLast'
      BY <1>0, <1>6, RowsKept, Zenon DEF Audit!Rollback, Audit!TypeOK, ReadIsLast, Audit!Idle
    <2> QED  BY <1>6, <2>1, <2>2, <2>3, RowsKept, Zenon DEF AuditInv, Audit!Rollback
  <1>7. CASE UNCHANGED auditVars
    <2>1. Audit!TypeOK' /\ PastHolds' /\ NumberIsBehind' /\ CarriesEvent'
      BY <1>0, <1>7, Zenon DEF auditVars, Audit!TypeOK, PastHolds, NumberIsBehind, CarriesEvent
    <2>2. ReadIsLast'
      BY <1>0, <1>7, RowsKept, Zenon DEF auditVars, ReadIsLast
    <2> QED  BY <1>7, <2>1, <2>2, RowsKept, Zenon DEF AuditInv, auditVars
  <1> QED  BY <1>1, <1>2, <1>3, <1>4, <1>5, <1>6, <1>7, Zenon DEF Audit!Next

\* The log is written by its own steps only, whatever the other parts do.
LEMMA AuditPart == AdministrationSpec => Audit!Init /\ [][Audit!Next]_auditVars
  <1>1. AdministrationInit => Audit!Init
    BY Zenon DEF AdministrationInit
  <1>2. [AdministrationNext]_allVars => [Audit!Next]_auditVars
    BY Zenon DEF AdministrationNext, InAudit, InLogin, InPanel, allVars
  <1> QED  BY <1>1, <1>2, PTL DEF AdministrationSpec

-----------------------------------------------------------------------------
\* verify names row i when the content of this row alone was changed.
LEMMA ChangeIsFound ==
  ASSUME Audit!TypeOK, Audit!Valid(rows), NEW i \in DOMAIN rows, NEW e \in Events, e # rows[i].event
  PROVE  Audit!BrokenAt(Audit!Changed(i, e), i)
  <1> DEFINE table == Audit!Changed(i, e)
  <1>1. /\ DOMAIN table = DOMAIN rows
        /\ \A k \in DOMAIN rows \ {i} : table[k] = rows[k]
        /\ table[i].event = e
        /\ table[i].previousHash = rows[i].previousHash /\ table[i].eventHash = rows[i].eventHash
    BY Zenon DEF Audit!TypeOK, Audit!Changed
  <1>2. \A k \in DOMAIN rows : k \in Nat /\ Audit!Sound(rows, k)
    BY DEF Audit!TypeOK, Audit!Valid
  <1> HIDE DEF table
  <1>3. ~Audit!Sound(table, i)
    <2>1. rows[i].eventHash = <<rows[i].event, rows[i].previousHash>>
      BY <1>2, Zenon DEF Audit!Sound, Audit!Hash
    <2>2. table[i].eventHash # <<e, rows[i].previousHash>>
      BY <1>1, <2>1
    <2> QED  BY <1>1, <2>2, Zenon DEF Audit!Sound, Audit!Hash
  <1>4. ASSUME NEW k \in DOMAIN rows, k < i PROVE Audit!Sound(table, k)
    <2>1. k # i /\ table[k] = rows[k]
      BY <1>1, <1>2, <1>4
    <2>2. Audit!Linked(table, k)
      <3>1. CASE (\A j \in DOMAIN rows : k <= j) /\ rows[k].previousHash = Null
        BY <1>1, <2>1, <3>1, Zenon DEF Audit!Linked
      <3>2. CASE \E j \in DOMAIN rows : Audit!Before(rows, j, k) /\ rows[k].previousHash = rows[j].eventHash
        <4>1. PICK j \in DOMAIN rows : Audit!Before(rows, j, k) /\ rows[k].previousHash = rows[j].eventHash
          BY <3>2, Zenon
        <4>2. Audit!Before(table, j, k) /\ table[j].eventHash = rows[j].eventHash
          BY <1>1, <4>1, Zenon DEF Audit!Before
        <4> QED  BY <1>1, <2>1, <4>1, <4>2, Zenon DEF Audit!Linked
      <3> QED  BY <1>2, <3>1, <3>2, Zenon DEF Audit!Sound, Audit!Linked
    <2> QED  BY <1>2, <2>1, <2>2, Zenon DEF Audit!Sound
  <1> QED  BY <1>1, <1>3, <1>4, Zenon DEF Audit!BrokenAt, table

\* verify of audit.service.ts accepts every log that concurrent, failing and
\* interrupted calls of record leave, and names the first row that was changed.
THEOREM LogAlwaysVerifies == AdministrationSpec => []LogVerifies
  <1>1. AuditInv => LogVerifies
    BY ChangeIsFound, Zenon DEF AuditInv, LogVerifies, Audit!LogVerifies
  <1> QED  BY <1>1, AuditPart, AuditInvInit, AuditInvNext, PTL

\* record only ever adds a row, behind all that are there, however many calls
\* wait for the advisory lock, fail or are cut off.
THEOREM LogIsAppendOnly == AdministrationSpec => AppendOnly
  <1>1. AuditInv /\ [Audit!Next]_auditVars => [Audit!Appends]_auditVars
    <2> SUFFICES ASSUME AuditInv, [Audit!Next]_auditVars PROVE Audit!Appends
      BY Zenon
    <2>1. CASE UNCHANGED rows
      BY <2>1, Zenon DEF Audit!Appends
    <2>2. ASSUME NEW r \in Recorders, Audit!Commit(r) PROVE Audit!Appends
      <3>1. \A i \in DOMAIN rows : i \in Nat /\ i < tx[r].number
        BY <2>2 DEF Audit!Commit, AuditInv, Audit!TypeOK, NumberIsBehind
      <3>2. /\ DOMAIN rows' = DOMAIN rows \cup {tx[r].number}
            /\ \A i \in DOMAIN rows \ {tx[r].number} : rows'[i] = rows[i]
        BY <2>2, Zenon DEF Audit!Commit
      <3> QED  BY <3>1, <3>2 DEF Audit!Appends
    <2> QED  BY <2>1, <2>2, Zenon DEF Audit!Next, Audit!Begin, Audit!Lock, Audit!ReadLast, Audit!Insert, Audit!Rollback, auditVars
  <1> QED  BY <1>1, AuditPart, AuditInvInit, AuditInvNext, PTL DEF AppendOnly

-----------------------------------------------------------------------------
(* The sessions (AdminSessions). *)

\* A session's key, while it is there, is that of who logged in ...
KeysAreOwners ==
  \A k \in Panel!Tokens : sessions[k] # Nobody => k <= Len(owner) /\ sessions[k] = owner[k]

\* ... and what a tab shows belongs to its CSRF token.
TabsShowOwners ==
  \A t \in Tabs : tab[t].admin # Nobody => tab[t].csrf # 0 /\ tab[t].admin = owner[tab[t].csrf]

\* What a request carries and what the guard has found out about it so far.
RequestOk(r) ==
  /\ r.at # "none" => r.kind # "none"
  /\ r.kind \in {"change", "logout"} => r.csrf # 0 /\ r.shown = owner[r.csrf]
  /\ r.late => r.token # 0 /\ owner[r.token] \notin active
  /\ r.at \in {"admin", "delete", "refresh", "handler"} => r.token # 0 /\ r.admin = owner[r.token]
  /\ r.at \in {"refresh", "handler"} => ~r.late
  /\ r.at = "handler" => Panel!CsrfOk(r)

RequestsOk == \A t \in Tabs : RequestOk(request[t])

PanelInv == Panel!TypeOK /\ KeysAreOwners /\ TabsShowOwners /\ RequestsOk /\ ActsAsShown

LEMMA PanelInit == Panel!Init => PanelInv
  <1> SUFFICES ASSUME Panel!Init PROVE PanelInv
    BY Zenon
  <1> USE AdministrationAssumption DEF Panel!Init
  <1>1. owner \in Seq(Admins) /\ Len(owner) = 0
    OBVIOUS
  <1>2. Panel!TypeOK
    BY <1>1 DEF Panel!TypeOK, Panel!NoRequest, Panel!NoToken, Panel!Steps, Panel!Kinds, Panel!Tokens
  <1>3. KeysAreOwners /\ TabsShowOwners /\ RequestsOk /\ ActsAsShown
    BY Zenon DEF KeysAreOwners, TabsShowOwners, RequestsOk, RequestOk, ActsAsShown, Panel!ActsAsShown, Panel!NoRequest,
           Panel!Tokens
  <1> QED  BY <1>2, <1>3, Zenon DEF PanelInv

Request ==
  [kind : Panel!Kinds \cup {"none"}, at : Panel!Steps, token : 0..Len(owner), csrf : 0..Len(owner),
   admin : Admins \cup {Nobody}, shown : Admins \cup {Nobody}, late : BOOLEAN]

\* What is written to request[t] when a tab sends something.
Sending(t, kind) ==
  [kind |-> kind, at |-> "key", token |-> cookie, csrf |-> tab[t].csrf, admin |-> Nobody,
   shown |-> tab[t].admin, late |-> cookie # 0 /\ owner[cookie] \notin active]

\* A tab that shows an administrator may send any request, another only asks who
\* is logged in.
LEMMA SendStep ==
  ASSUME PanelInv, NEW t \in Tabs, NEW kind \in Panel!Kinds, Panel!Send(t, kind),
         kind = "me" \/ tab[t].admin # Nobody
  PROVE  request' \in [Tabs -> Request] /\ sent' \in 0..MaxRequests /\ \A u \in Tabs : RequestOk(request'[u])
  <1>0. Panel!TypeOK /\ TabsShowOwners /\ RequestsOk  BY Zenon DEF PanelInv
  <1>1. request' = [request EXCEPT ![t] = Sending(t, kind)] /\ sent < MaxRequests /\ sent' = sent + 1
    BY Zenon DEF Panel!Send, Sending, Panel!NoToken
  <1>2. Sending(t, kind) \in Request
    <2> DEFINE late == cookie # 0 /\ owner[cookie] \notin active
    <2>1. late \in BOOLEAN
      BY Zenon
    <2> HIDE DEF late
    <2>2. cookie \in 0..Len(owner) /\ tab[t].csrf \in 0..Len(owner) /\ tab[t].admin \in Admins \cup {Nobody}
      BY <1>0, Zenon DEF Panel!TypeOK
    <2>3. [kind |-> kind, at |-> "key", token |-> cookie, csrf |-> tab[t].csrf, admin |-> Nobody,
           shown |-> tab[t].admin, late |-> late] \in Request
      BY <2>1, <2>2, Zenon DEF Request, Panel!Steps
    <2> QED  BY <2>3, Zenon DEF Sending, late
  <1>3. RequestOk(Sending(t, kind))
    BY <1>0, Zenon DEF RequestOk, Sending, TabsShowOwners, Panel!Kinds
  <1>4. \A u \in Tabs : RequestOk(request'[u])
    BY <1>0, <1>1, <1>3, Zenon DEF RequestsOk, Panel!TypeOK
  <1>5. sent' \in 0..MaxRequests
    BY <1>0, <1>1, AdministrationAssumption DEF Panel!TypeOK
  <1>6. request' \in [Tabs -> Request]
    BY <1>0, <1>1, <1>2, Zenon DEF Panel!TypeOK, Request
  <1> QED  BY <1>4, <1>5, <1>6, Zenon

\* The request of a tab is answered, or goes on as it should.
LEMMA RequestStep ==
  ASSUME PanelInv, NEW t \in Tabs, NEW r, r \in Request, RequestOk(r) , request' = [request EXCEPT ![t] = r]
  PROVE  request' \in [Tabs -> Request] /\ \A u \in Tabs : RequestOk(request'[u])
  BY Zenon DEF PanelInv, RequestsOk, Panel!TypeOK, Request

LEMMA NoRequestOk == Panel!TypeOK => Panel!NoRequest \in Request /\ RequestOk(Panel!NoRequest)
  BY DEF Panel!TypeOK, Panel!NoRequest, Panel!NoToken, Request, RequestOk, Panel!Steps, Panel!Kinds

\* A request that is refused leaves its tab without an administrator, or as it was.
LEMMA RefuseStep ==
  ASSUME PanelInv, NEW t \in Tabs, Panel!Refuse(t), UNCHANGED owner
  PROVE  /\ request' \in [Tabs -> Request] /\ \A u \in Tabs : RequestOk(request'[u])
         /\ tab' \in [Tabs -> [admin : Admins \cup {Nobody}, csrf : 0..Len(owner)]] /\ TabsShowOwners'
  <1>0. Panel!TypeOK /\ TabsShowOwners  BY Zenon DEF PanelInv
  <1>1. request' = [request EXCEPT ![t] = Panel!NoRequest]
    BY Zenon DEF Panel!Refuse
  <1>2. request' \in [Tabs -> Request] /\ \A u \in Tabs : RequestOk(request'[u])
    BY <1>0, <1>1, RequestStep, NoRequestOk, Zenon
  <1>3. tab' = tab \/ tab' = [tab EXCEPT ![t] = [admin |-> Nobody, csrf |-> tab[t].csrf]]
    BY Zenon DEF Panel!Refuse, Panel!SessionShown
  <1>4. /\ tab' \in [Tabs -> [admin : Admins \cup {Nobody}, csrf : 0..Len(owner)]]
        /\ \A u \in Tabs : tab'[u].admin \in {Nobody, tab[u].admin} /\ tab'[u].csrf = tab[u].csrf
    <2>1. CASE tab' = tab
      BY <1>0, <2>1, Zenon DEF Panel!TypeOK
    <2>2. CASE tab' = [tab EXCEPT ![t] = [admin |-> Nobody, csrf |-> tab[t].csrf]]
      BY <1>0, <2>2, Zenon DEF Panel!TypeOK
    <2> QED  BY <1>3, <2>1, <2>2, Zenon
  <1>5. TabsShowOwners'
    BY <1>0, <1>4, Zenon DEF TabsShowOwners
  <1> QED  BY <1>2, <1>4, <1>5, Zenon

\* The guard moves a request on: it keeps what it carries.
LEMMA MoveStep ==
  ASSUME PanelInv, NEW t \in Tabs, NEW step \in Panel!Steps, Panel!Move(t, step),
         RequestOk([request[t] EXCEPT !.at = step])
  PROVE  request' \in [Tabs -> Request] /\ \A u \in Tabs : RequestOk(request'[u])
  <1>1. request' = [request EXCEPT ![t] = [request[t] EXCEPT !.at = step]]
    BY Zenon DEF Panel!Move
  <1>2. [request[t] EXCEPT !.at = step] \in Request
    BY Zenon DEF PanelInv, Panel!TypeOK, Request
  <1> QED  BY <1>1, <1>2, RequestStep, Zenon

\* Steps of a browser and of a login.
LEMMA BrowserStep ==
  ASSUME PanelInv, NEW t \in Tabs,
         \/ Panel!Load(t) \/ \E kind \in Panel!Kinds \ {"me"} : Panel!Use(t, kind)
         \/ \E a \in Admins : Panel!LoggedIn(t, a)
  PROVE  PanelInv'
  <1> USE AdministrationAssumption
  <1>0. Panel!TypeOK /\ KeysAreOwners /\ TabsShowOwners /\ RequestsOk /\ ActsAsShown  BY Zenon DEF PanelInv
  <1>1. CASE Panel!Load(t)
    <2>1. /\ tab' = [tab EXCEPT ![t] = [admin |-> Nobody, csrf |-> 0]] /\ Panel!Send(t, "me")
          /\ UNCHANGED <<sessions, owner, active, cookie, effects>>
      BY <1>1, Zenon DEF Panel!Load, Panel!NoToken
    <2>2. request' \in [Tabs -> Request] /\ sent' \in 0..MaxRequests /\ \A u \in Tabs : RequestOk(request'[u])
      BY <2>1, SendStep, Zenon DEF Panel!Kinds
    <2>3. RequestsOk'
      BY <2>1, <2>2, Zenon DEF RequestsOk, RequestOk
    <2>4. tab' \in [Tabs -> [admin : Admins \cup {Nobody}, csrf : 0..Len(owner)]] /\ TabsShowOwners'
      BY <1>0, <2>1 DEF Panel!TypeOK, TabsShowOwners
    <2>5. Panel!TypeOK'
      BY <1>0, <2>1, <2>2, <2>4, Zenon DEF Panel!TypeOK, Request
    <2>6. KeysAreOwners' /\ ActsAsShown'
      BY <1>0, <2>1, Zenon DEF KeysAreOwners, ActsAsShown, Panel!ActsAsShown
    <2> QED  BY <2>3, <2>4, <2>5, <2>6, Zenon DEF PanelInv
  <1>2. ASSUME NEW kind \in Panel!Kinds \ {"me"}, Panel!Use(t, kind) PROVE PanelInv'
    <2>1. /\ tab[t].admin # Nobody /\ Panel!Send(t, kind)
          /\ UNCHANGED <<sessions, owner, active, cookie, tab, effects>>
      BY <1>2, Zenon DEF Panel!Use
    <2>2. request' \in [Tabs -> Request] /\ sent' \in 0..MaxRequests /\ \A u \in Tabs : RequestOk(request'[u])
      BY <2>1, SendStep, Zenon
    <2>3. RequestsOk'
      BY <2>1, <2>2, Zenon DEF RequestsOk, RequestOk
    <2>4. Panel!TypeOK'
      BY <1>0, <2>1, <2>2, Zenon DEF Panel!TypeOK, Request
    <2>5. TabsShowOwners' /\ KeysAreOwners' /\ ActsAsShown'
      BY <1>0, <2>1, Zenon DEF TabsShowOwners, KeysAreOwners, ActsAsShown, Panel!ActsAsShown
    <2> QED  BY <2>3, <2>4, <2>5, Zenon DEF PanelInv
  <1>3. ASSUME NEW a \in Admins, Panel!LoggedIn(t, a) PROVE PanelInv'
    <2>1. /\ Len(owner) < MaxLogins /\ owner' = Append(owner, a)
          /\ sessions' = [sessions EXCEPT ![Len(owner')] = a] /\ cookie' = Len(owner')
          /\ tab' = [tab EXCEPT ![t] = [admin |-> a, csrf |-> Len(owner')]]
          /\ UNCHANGED <<active, request, effects, sent>>
      BY <1>3, Zenon DEF Panel!LoggedIn
    <2>2. /\ owner' \in Seq(Admins) /\ Len(owner) \in Nat /\ Len(owner') = Len(owner) + 1 /\ Len(owner') \in Panel!Tokens
          /\ owner'[Len(owner')] = a /\ \A k \in 1..Len(owner) : owner'[k] = owner[k]
      BY <1>0, <2>1 DEF Panel!TypeOK, Panel!Tokens
    <2>3. 0..Len(owner) \subseteq 0..Len(owner')
      BY <2>2
    <2>4. sessions' \in [Panel!Tokens -> Admins \cup {Nobody}] /\ cookie' \in 0..Len(owner')
      BY <1>0, <2>1, <2>2 DEF Panel!TypeOK
    <2>5. tab' \in [Tabs -> [admin : Admins \cup {Nobody}, csrf : 0..Len(owner')]]
      BY <1>0, <2>1, <2>2, <2>3 DEF Panel!TypeOK
    <2>6. request' \in [Tabs -> [kind : Panel!Kinds \cup {"none"}, at : Panel!Steps, token : 0..Len(owner'),
                                 csrf : 0..Len(owner'), admin : Admins \cup {Nobody},
                                 shown : Admins \cup {Nobody}, late : BOOLEAN]]
      BY <1>0, <2>1, <2>3, Zenon DEF Panel!TypeOK
    <2>7. Panel!TypeOK'
      BY <1>0, <2>1, <2>2, <2>4, <2>5, <2>6 DEF Panel!TypeOK
    <2>8. KeysAreOwners'
      BY <1>0, <2>1, <2>2 DEF KeysAreOwners, Panel!TypeOK, Panel!Tokens
    <2>9. TabsShowOwners'
      BY <1>0, <2>1, <2>2 DEF TabsShowOwners, Panel!TypeOK
    <2>10. RequestsOk'
      <3>1. \A u \in Tabs : request'[u] = request[u] /\ request[u] \in Request
        BY <1>0, <2>1, Zenon DEF Panel!TypeOK, Request
      <3> QED  BY <1>0, <2>1, <2>2, <3>1 DEF RequestsOk, RequestOk, Request
    <2>11. ActsAsShown'
      BY <1>0, <2>1, Zenon DEF ActsAsShown, Panel!ActsAsShown
    <2> QED  BY <2>7, <2>8, <2>9, <2>10, <2>11, Zenon DEF PanelInv
  <1> QED  BY <1>1, <1>2, <1>3, Zenon

\* Steps of the server on the request of a tab.
LEMMA ServerStep ==
  ASSUME PanelInv, NEW t \in Tabs,
         \/ Panel!GetKey(t) \/ Panel!ReadAdmin(t) \/ Panel!DeleteKey(t) \/ Panel!RefreshKey(t)
         \/ Panel!Handle(t) \/ Panel!Logout(t)
  PROVE  PanelInv'
  <1> USE AdministrationAssumption
  <1>0. Panel!TypeOK /\ KeysAreOwners /\ TabsShowOwners /\ RequestsOk /\ ActsAsShown  BY Zenon DEF PanelInv
  <1> DEFINE r == request[t]
  <1>1. r \in Request /\ RequestOk(r)
    BY <1>0, Zenon DEF Panel!TypeOK, Request, RequestsOk
  <1>2. \A k \in 1..Len(owner) : k \in Panel!Tokens /\ owner[k] \in Admins
    BY <1>0 DEF Panel!TypeOK, Panel!Tokens
  <1>3. CASE Panel!GetKey(t)
    <2>1. UNCHANGED <<sessions, owner, active, cookie, effects, sent>>
      BY <1>3, Zenon DEF Panel!GetKey
    <2>2. /\ request' \in [Tabs -> Request] /\ \A u \in Tabs : RequestOk(request'[u])
          /\ tab' \in [Tabs -> [admin : Admins \cup {Nobody}, csrf : 0..Len(owner)]] /\ TabsShowOwners'
      <3>1. CASE Panel!AdminOf(r.token) = Nobody
        BY <1>3, <2>1, <3>1, RefuseStep, Zenon DEF Panel!GetKey
      <3>2. CASE Panel!AdminOf(r.token) # Nobody
        <4>0. Len(owner) \in Nat /\ r.token \in 0..Len(owner)
          BY <1>0, <1>1 DEF Request, Panel!TypeOK
        <4>1. r.token # 0 /\ r.token \in 1..Len(owner) /\ r.token \in Panel!Tokens
          <5> HIDE DEF r
          <5>1. r.token # 0
            BY <3>2, Zenon DEF Panel!AdminOf, Panel!NoToken
          <5> QED  BY <1>2, <4>0, <5>1
        <4>2. Panel!AdminOf(r.token) = owner[r.token] /\ owner[r.token] \in Admins
          BY <1>0, <1>2, <3>2, <4>1, Zenon DEF Panel!AdminOf, Panel!NoToken, KeysAreOwners
        <4> DEFINE q == [r EXCEPT !.at = "admin", !.admin = owner[r.token]]
        <4>3. request' = [request EXCEPT ![t] = q] /\ UNCHANGED tab /\ r.at = "key"
          BY <1>3, <3>2, <4>2, Zenon DEF Panel!GetKey
        <4>4. q \in Request
          BY <1>1, <4>2, Zenon DEF Request, Panel!Steps
        <4>5. RequestOk(q)
          BY <1>1, <4>1, <4>3, Zenon DEF Request, RequestOk
        <4> HIDE DEF q
        <4>6. request' \in [Tabs -> Request] /\ \A u \in Tabs : RequestOk(request'[u])
          BY <4>3, <4>4, <4>5, RequestStep, Zenon
        <4> QED  BY <1>0, <2>1, <4>3, <4>6, Zenon DEF Panel!TypeOK, TabsShowOwners
      <3> QED  BY <3>1, <3>2, Zenon
    <2>3. Panel!TypeOK'
      BY <1>0, <2>1, <2>2, Zenon DEF Panel!TypeOK, Request
    <2>4. RequestsOk' /\ KeysAreOwners' /\ ActsAsShown'
      BY <1>0, <2>1, <2>2, Zenon DEF RequestsOk, RequestOk, KeysAreOwners, ActsAsShown, Panel!ActsAsShown
    <2> QED  BY <2>2, <2>3, <2>4, Zenon DEF PanelInv
  <1>4. CASE Panel!ReadAdmin(t)
    <2>1. UNCHANGED <<sessions, owner, active, cookie, tab, effects, sent>> /\ r.at = "admin"
      BY <1>4, Zenon DEF Panel!ReadAdmin
    <2> DEFINE step == IF Panel!MayEnter(r.admin) THEN "refresh" ELSE "delete"
    <2>2. step \in Panel!Steps /\ Panel!Move(t, step)
      BY <1>4, Zenon DEF Panel!ReadAdmin, Panel!Steps
    <2>3. RequestOk([r EXCEPT !.at = step])
      BY <1>1, <2>1, Zenon DEF Request, RequestOk, Panel!MayEnter
    <2> HIDE DEF step
    <2>4. request' \in [Tabs -> Request] /\ \A u \in Tabs : RequestOk(request'[u])
      BY <2>2, <2>3, MoveStep, Zenon
    <2>5. Panel!TypeOK'
      BY <1>0, <2>1, <2>4, Zenon DEF Panel!TypeOK, Request
    <2>6. RequestsOk' /\ KeysAreOwners' /\ TabsShowOwners' /\ ActsAsShown'
      BY <1>0, <2>1, <2>4, Zenon DEF RequestsOk, RequestOk, KeysAreOwners, TabsShowOwners, ActsAsShown, Panel!ActsAsShown
    <2> QED  BY <2>5, <2>6, Zenon DEF PanelInv
  <1>5. CASE Panel!DeleteKey(t)
    <2>1. /\ r.at = "delete" /\ sessions' = [sessions EXCEPT ![r.token] = Nobody] /\ Panel!Refuse(t)
          /\ UNCHANGED <<owner, active, cookie, effects, sent>>
      BY <1>5, Zenon DEF Panel!DeleteKey
    <2>2. /\ request' \in [Tabs -> Request] /\ \A u \in Tabs : RequestOk(request'[u])
          /\ tab' \in [Tabs -> [admin : Admins \cup {Nobody}, csrf : 0..Len(owner)]] /\ TabsShowOwners'
      BY <2>1, RefuseStep, Zenon
    <2>3. Panel!TypeOK'
      BY <1>0, <2>1, <2>2, Zenon DEF Panel!TypeOK, Request
    <2>4. RequestsOk' /\ KeysAreOwners' /\ ActsAsShown'
      BY <1>0, <2>1, <2>2, Zenon DEF RequestsOk, RequestOk, KeysAreOwners, ActsAsShown, Panel!ActsAsShown, Panel!TypeOK
    <2> QED  BY <2>2, <2>3, <2>4, Zenon DEF PanelInv
  <1>6. CASE Panel!RefreshKey(t)
    <2>1. /\ r.at = "refresh" /\ sessions' = [sessions EXCEPT ![r.token] = r.admin]
          /\ UNCHANGED <<owner, active, cookie, effects, sent>>
      BY <1>6, Zenon DEF Panel!RefreshKey
    <2>2. r.token \in 1..Len(owner) /\ r.admin = owner[r.token]
      BY <1>1, <2>1 DEF Request, RequestOk
    <2>3. /\ request' \in [Tabs -> Request] /\ \A u \in Tabs : RequestOk(request'[u])
          /\ tab' \in [Tabs -> [admin : Admins \cup {Nobody}, csrf : 0..Len(owner)]] /\ TabsShowOwners'
      <3>1. CASE Panel!CsrfOk(r)
        <4>1. Panel!Move(t, "handler") /\ UNCHANGED tab
          BY <1>6, <3>1, Zenon DEF Panel!RefreshKey
        <4>2. RequestOk([r EXCEPT !.at = "handler"])
          BY <1>1, <2>1, <3>1, Zenon DEF Request, RequestOk, Panel!CsrfOk
        <4>3. request' \in [Tabs -> Request] /\ \A u \in Tabs : RequestOk(request'[u])
          BY <4>1, <4>2, MoveStep, Zenon DEF Panel!Steps
        <4> QED  BY <1>0, <2>1, <4>1, <4>3, Zenon DEF Panel!TypeOK, TabsShowOwners
      <3>2. CASE ~Panel!CsrfOk(r)
        BY <1>6, <2>1, <3>2, RefuseStep, Zenon DEF Panel!RefreshKey
      <3> QED  BY <3>1, <3>2, Zenon
    <2>4. Panel!TypeOK'
      BY <1>0, <1>2, <2>1, <2>2, <2>3, Zenon DEF Panel!TypeOK, Request
    <2>5. KeysAreOwners'
      BY <1>0, <1>2, <2>1, <2>2 DEF KeysAreOwners, Panel!TypeOK
    <2>6. RequestsOk' /\ ActsAsShown'
      BY <1>0, <2>1, <2>3, Zenon DEF RequestsOk, RequestOk, ActsAsShown, Panel!ActsAsShown
    <2> QED  BY <2>3, <2>4, <2>5, <2>6, Zenon DEF PanelInv
  <1>7. CASE Panel!Handle(t)
    <2>1. /\ r.at = "handler" /\ r.kind # "logout"
          /\ effects' = IF r.kind = "me" THEN effects
                        ELSE effects \cup {[shown |-> r.shown, admin |-> r.admin, late |-> r.late]}
          /\ request' = [request EXCEPT ![t] = Panel!NoRequest]
          /\ tab' = IF r.kind = "me" THEN [tab EXCEPT ![t] = [admin |-> r.admin, csrf |-> r.token]] ELSE tab
          /\ UNCHANGED <<sessions, owner, active, cookie, sent>>
      BY <1>7, Zenon DEF Panel!Handle, Panel!SessionShown
    <2>2. r.token \in 1..Len(owner) /\ r.admin = owner[r.token] /\ r.admin \in Admins /\ ~r.late
      BY <1>1, <1>2, <2>1 DEF Request, RequestOk
    <2>3. request' \in [Tabs -> Request] /\ \A u \in Tabs : RequestOk(request'[u])
      BY <1>0, <2>1, RequestStep, NoRequestOk, Zenon
    <2>4. tab' \in [Tabs -> [admin : Admins \cup {Nobody}, csrf : 0..Len(owner)]] /\ TabsShowOwners'
      BY <1>0, <2>1, <2>2 DEF Panel!TypeOK, TabsShowOwners
    <2>5. effects' \subseteq [shown : Admins \cup {Nobody}, admin : Admins, late : BOOLEAN]
      BY <1>0, <1>1, <2>1, <2>2 DEF Panel!TypeOK, Request
    <2>6. r.kind # "me" => r.admin = r.shown
      BY <1>1, <2>1, <2>2, Zenon DEF Request, RequestOk, Panel!CsrfOk, Panel!Kinds
    <2>7. ActsAsShown'
      BY <1>0, <2>1, <2>2, <2>6 DEF ActsAsShown, Panel!ActsAsShown
    <2>8. Panel!TypeOK'
      BY <1>0, <2>1, <2>3, <2>4, <2>5, Zenon DEF Panel!TypeOK, Request
    <2>9. RequestsOk' /\ KeysAreOwners'
      BY <1>0, <2>1, <2>3, Zenon DEF RequestsOk, RequestOk, KeysAreOwners
    <2> QED  BY <2>4, <2>7, <2>8, <2>9, Zenon DEF PanelInv
  <1>8. CASE Panel!Logout(t)
    <2>1. /\ r.at = "handler" /\ sessions' = [sessions EXCEPT ![r.token] = Nobody] /\ cookie' = 0
          /\ tab' = [tab EXCEPT ![t] = [admin |-> Nobody, csrf |-> 0]]
          /\ request' = [request EXCEPT ![t] = Panel!NoRequest]
          /\ UNCHANGED <<owner, active, effects, sent>>
      BY <1>8, Zenon DEF Panel!Logout, Panel!NoToken
    <2>2. request' \in [Tabs -> Request] /\ \A u \in Tabs : RequestOk(request'[u])
      BY <1>0, <2>1, RequestStep, NoRequestOk, Zenon
    <2>3. tab' \in [Tabs -> [admin : Admins \cup {Nobody}, csrf : 0..Len(owner)]] /\ TabsShowOwners'
      BY <1>0, <2>1 DEF Panel!TypeOK, TabsShowOwners
    <2>4. Panel!TypeOK'
      BY <1>0, <2>1, <2>2, <2>3, Zenon DEF Panel!TypeOK, Request
    <2>5. RequestsOk' /\ KeysAreOwners' /\ ActsAsShown'
      BY <1>0, <2>1, <2>2 DEF RequestsOk, RequestOk, KeysAreOwners, ActsAsShown, Panel!ActsAsShown, Panel!TypeOK
    <2> QED  BY <2>3, <2>4, <2>5, Zenon DEF PanelInv
  <1> QED  BY <1>3, <1>4, <1>5, <1>6, <1>7, <1>8, Zenon

LEMMA PanelStep == PanelInv /\ [Panel!Next]_panelVars => PanelInv'
  <1> SUFFICES ASSUME PanelInv, [Panel!Next]_panelVars PROVE PanelInv'
    BY Zenon
  <1>0. Panel!TypeOK /\ KeysAreOwners /\ TabsShowOwners /\ RequestsOk /\ ActsAsShown  BY Zenon DEF PanelInv
  <1>1. ASSUME NEW t \in Tabs,
               \/ Panel!Load(t) \/ \E kind \in Panel!Kinds \ {"me"} : Panel!Use(t, kind)
               \/ \E a \in Admins : Panel!LoggedIn(t, a)
        PROVE  PanelInv'
    BY <1>1, BrowserStep, Zenon
  <1>2. ASSUME NEW t \in Tabs,
               \/ Panel!GetKey(t) \/ Panel!ReadAdmin(t) \/ Panel!DeleteKey(t) \/ Panel!RefreshKey(t)
               \/ Panel!Handle(t) \/ Panel!Logout(t)
        PROVE  PanelInv'
    BY <1>2, ServerStep, Zenon
  <1>3. ASSUME NEW a \in Admins, Panel!Disable(a) PROVE PanelInv'
    <2>1. active' \subseteq active /\ UNCHANGED <<sessions, owner, cookie, tab, request, effects, sent>>
      BY <1>3, Zenon DEF Panel!Disable
    <2>2. Panel!TypeOK' /\ KeysAreOwners' /\ TabsShowOwners' /\ ActsAsShown'
      BY <1>0, <2>1, Zenon DEF Panel!TypeOK, KeysAreOwners, TabsShowOwners, ActsAsShown, Panel!ActsAsShown
    <2>3. RequestsOk'
      BY <1>0, <2>1, Zenon DEF RequestsOk, RequestOk
    <2> QED  BY <2>2, <2>3, Zenon DEF PanelInv
  <1>4. ASSUME NEW k \in Panel!Tokens, Panel!Expire(k) PROVE PanelInv'
    <2>1. /\ sessions' = [sessions EXCEPT ![k] = Nobody]
          /\ UNCHANGED <<owner, active, cookie, tab, request, effects, sent>>
      BY <1>4, Zenon DEF Panel!Expire
    <2>2. Panel!TypeOK' /\ KeysAreOwners'
      BY <1>0, <2>1, Zenon DEF Panel!TypeOK, KeysAreOwners
    <2>3. TabsShowOwners' /\ RequestsOk' /\ ActsAsShown'
      BY <1>0, <2>1, Zenon DEF TabsShowOwners, RequestsOk, RequestOk, ActsAsShown, Panel!ActsAsShown
    <2> QED  BY <2>2, <2>3, Zenon DEF PanelInv
  <1>5. CASE UNCHANGED panelVars
    <2>1. UNCHANGED <<sessions, owner, active, cookie, tab, request, effects, sent>>
      BY <1>5, Zenon DEF panelVars
    <2>2. Panel!TypeOK' /\ KeysAreOwners' /\ TabsShowOwners'
      BY <1>0, <2>1, Zenon DEF Panel!TypeOK, KeysAreOwners, TabsShowOwners
    <2>3. RequestsOk' /\ ActsAsShown'
      BY <1>0, <2>1, Zenon DEF RequestsOk, RequestOk, ActsAsShown, Panel!ActsAsShown
    <2> QED  BY <2>2, <2>3, Zenon DEF PanelInv
  <1> QED  BY <1>1, <1>2, <1>3, <1>4, <1>5, Zenon DEF Panel!Next

\* A request that has not found its session cannot bring it back.
LEMMA OverStays == PanelInv /\ Panel!Next => Panel!KeepsOver
  <1> SUFFICES ASSUME PanelInv, Panel!Next, NEW k \in 1..Len(owner), Panel!Over(k) PROVE Panel!Over(k)'
    BY Zenon DEF Panel!KeepsOver
  <1> USE AdministrationAssumption
  <1>0. Panel!TypeOK /\ RequestsOk  BY Zenon DEF PanelInv
  <1>1. /\ sessions[k] = Nobody /\ k \in Panel!Tokens /\ k # 0
        /\ \A t \in Tabs : request[t].token = k => request[t].at \notin {"admin", "refresh"}
    BY <1>0 DEF Panel!Over, Panel!TypeOK, Panel!Tokens
  <1> DEFINE Found(r) == r.token = k /\ r.at \in {"admin", "refresh"}
  <1>2. SUFFICES sessions'[k] = Nobody /\ \A u \in Tabs : ~Found(request'[u])
    BY Zenon DEF Panel!Over
  <1>3. ~Found(Panel!NoRequest) /\ \A u \in Tabs : ~Found(request[u])
    BY <1>1, Zenon DEF Panel!NoRequest
  <1>4. ASSUME NEW t \in Tabs, NEW q, ~Found(q), request' = [request EXCEPT ![t] = q]
        PROVE  \A u \in Tabs : ~Found(request'[u])
    BY <1>0, <1>3, <1>4, Zenon DEF Panel!TypeOK
  <1> HIDE DEF Found
  <1>5. ASSUME NEW t \in Tabs, NEW kind, Panel!Send(t, kind)
        PROVE  \A u \in Tabs : ~Found(request'[u])
    <2>1. request' = [request EXCEPT ![t] = Sending(t, kind)]
      BY <1>5, Zenon DEF Panel!Send, Sending, Panel!NoToken
    <2>2. ~Found(Sending(t, kind))
      BY Zenon DEF Found, Sending
    <2> QED  BY <1>4, <2>1, <2>2, Zenon
  <1>6. ASSUME NEW t \in Tabs, Panel!Refuse(t) PROVE \A u \in Tabs : ~Found(request'[u])
    BY <1>3, <1>4, <1>6, Zenon DEF Panel!Refuse
  <1>7. ASSUME NEW t \in Tabs, Panel!Load(t) \/ \E kind \in Panel!Kinds \ {"me"} : Panel!Use(t, kind)
        PROVE  sessions'[k] = Nobody /\ \A u \in Tabs : ~Found(request'[u])
    BY <1>1, <1>5, <1>7, Zenon DEF Panel!Load, Panel!Use
  <1>8. ASSUME NEW t \in Tabs, NEW a \in Admins, Panel!LoggedIn(t, a)
        PROVE  sessions'[k] = Nobody /\ \A u \in Tabs : ~Found(request'[u])
    <2>1. Len(owner') = Len(owner) + 1 /\ sessions' = [sessions EXCEPT ![Len(owner')] = a] /\ UNCHANGED request
      BY <1>0, <1>8 DEF Panel!LoggedIn, Panel!TypeOK
    <2>2. sessions'[k] = sessions[k]
      BY <1>0, <1>1, <2>1 DEF Panel!TypeOK
    <2> QED  BY <1>1, <1>3, <2>1, <2>2, Zenon
  <1>9. ASSUME NEW t \in Tabs, Panel!GetKey(t)
        PROVE  sessions'[k] = Nobody /\ \A u \in Tabs : ~Found(request'[u])
    <2>1. UNCHANGED sessions
      BY <1>9, Zenon DEF Panel!GetKey
    <2>2. CASE Panel!AdminOf(request[t].token) = Nobody
      BY <1>1, <1>6, <1>9, <2>1, <2>2, Zenon DEF Panel!GetKey
    <2>3. CASE Panel!AdminOf(request[t].token) # Nobody
      <3>1. request[t].token # k
        BY <1>1, <2>3, Zenon DEF Panel!AdminOf, Panel!NoToken
      <3> DEFINE q == [request[t] EXCEPT !.at = "admin", !.admin = Panel!AdminOf(request[t].token)]
      <3>2. request' = [request EXCEPT ![t] = q]
        BY <1>9, <2>3, Zenon DEF Panel!GetKey
      <3>3. ~Found(q)
        BY <1>0, <3>1, Zenon DEF Found, Panel!TypeOK
      <3> HIDE DEF q
      <3> QED  BY <1>1, <1>4, <2>1, <3>2, <3>3, Zenon
    <2> QED  BY <2>2, <2>3, Zenon
  <1>10. ASSUME NEW t \in Tabs, Panel!ReadAdmin(t)
         PROVE  sessions'[k] = Nobody /\ \A u \in Tabs : ~Found(request'[u])
    <2>1. PICK step : request' = [request EXCEPT ![t] = [request[t] EXCEPT !.at = step]]
      BY <1>10, Zenon DEF Panel!ReadAdmin, Panel!Move
    <2>2. ~Found([request[t] EXCEPT !.at = step])
      BY <1>0, <1>1, <1>10 DEF Found, Panel!TypeOK, Panel!ReadAdmin
    <2> QED  BY <1>1, <1>4, <1>10, <2>1, <2>2, Zenon DEF Panel!ReadAdmin
  <1>11. ASSUME NEW t \in Tabs, Panel!DeleteKey(t)
         PROVE  sessions'[k] = Nobody /\ \A u \in Tabs : ~Found(request'[u])
    BY <1>0, <1>1, <1>6, <1>11, Zenon DEF Panel!DeleteKey, Panel!TypeOK
  <1>12. ASSUME NEW t \in Tabs, Panel!RefreshKey(t)
         PROVE  sessions'[k] = Nobody /\ \A u \in Tabs : ~Found(request'[u])
    <2>1. request[t].token # k /\ sessions' = [sessions EXCEPT ![request[t].token] = request[t].admin]
      BY <1>1, <1>12, Zenon DEF Panel!RefreshKey
    <2>2. sessions'[k] = Nobody
      BY <1>0, <1>1, <2>1, Zenon DEF Panel!TypeOK
    <2>3. CASE Panel!Move(t, "handler")
      <3>1. ~Found([request[t] EXCEPT !.at = "handler"])
        BY <1>0, Zenon DEF Found, Panel!TypeOK
      <3> QED  BY <1>4, <2>2, <2>3, <3>1, Zenon DEF Panel!Move
    <2> QED  BY <1>6, <1>12, <2>2, <2>3, Zenon DEF Panel!RefreshKey
  <1>13. ASSUME NEW t \in Tabs, Panel!Handle(t) \/ Panel!Logout(t)
         PROVE  sessions'[k] = Nobody /\ \A u \in Tabs : ~Found(request'[u])
    <2>1. /\ request' = [request EXCEPT ![t] = Panel!NoRequest]
          /\ sessions' = sessions \/ sessions' = [sessions EXCEPT ![request[t].token] = Nobody]
      BY <1>13, Zenon DEF Panel!Handle, Panel!Logout
    <2>2. sessions'[k] = Nobody
      BY <1>0, <1>1, <2>1, Zenon DEF Panel!TypeOK
    <2> QED  BY <1>3, <1>4, <2>1, <2>2, Zenon
  <1>14. ASSUME \/ \E a \in Admins : Panel!Disable(a)
                \/ \E j \in Panel!Tokens : Panel!Expire(j)
         PROVE  sessions'[k] = Nobody /\ \A u \in Tabs : ~Found(request'[u])
    BY <1>0, <1>1, <1>3, <1>14, Zenon DEF Panel!Disable, Panel!Expire, Panel!TypeOK
  <1> QED
    BY <1>7, <1>8, <1>9, <1>10, <1>11, <1>12, <1>13, <1>14, Zenon DEF Panel!Next

\* The panel moves by its own steps only, whatever the other parts do.
LEMMA PanelPart == AdministrationSpec => Panel!Init /\ [][Panel!Next]_panelVars
  <1>1. AdministrationInit => Panel!Init
    BY Zenon DEF AdministrationInit
  <1>2. [AdministrationNext]_allVars => [Panel!Next]_panelVars
    BY Zenon DEF AdministrationNext, InAudit, InLogin, InPanel, allVars
  <1> QED  BY <1>1, <1>2, PTL DEF AdministrationSpec

\* Whatever the tabs of a browser send, in any order and with any cookie, is
\* carried out for the administrator the tab showed, and never with the session
\* of one who was disabled before (canActivate of auth.guard.ts).
THEOREM TabsActAsShown == AdministrationSpec => []ActsAsShown
  <1>1. PanelInv => ActsAsShown
    BY Zenon DEF PanelInv
  <1> QED  BY <1>1, PanelPart, PanelInit, PanelStep, PTL

\* No request revives a session that is over: getSession writes the key again
\* only when it had found it.
THEOREM EndedSessionsStay == AdministrationSpec => EndedStaysEnded
  <1>1. PanelInv /\ [Panel!Next]_panelVars => [Panel!KeepsOver]_panelVars
    BY OverStays, Zenon
  <1> QED  BY <1>1, PanelPart, PanelInit, PanelStep, PTL DEF EndedStaysEnded

-----------------------------------------------------------------------------
(* The login (AdminLogin). *)

\* The login moves by its own steps only, whatever the other parts do; so
\* it keeps what AdminLoginProofs has of it.
LEMMA LoginPart == AdministrationSpec => Spec
  <1>1. AdministrationInit => Init
    BY Zenon DEF AdministrationInit
  <1>2. [AdministrationNext]_allVars => [Next]_vars
    BY Zenon DEF AdministrationNext, InAudit, InLogin, InPanel, allVars
  <1> QED  BY <1>1, <1>2, PTL DEF AdministrationSpec, Spec

-----------------------------------------------------------------------------
(* The login (AdminLogin). *)

\* Logins that have passed a backup code and not opened their session yet.
InSession(e) == {l \in Logins : call[l].step = "session" /\ call[l].input = Backup(e)}

\* The steps behind the comparison are reached with what they need.
CallsOk ==
  \A l \in Logins :
    /\ call[l].step = "consume" => \E e \in Enables : call[l].input = Backup(e)
    /\ call[l].step = "session" =>
         call[l].input = NoCode \/ \E e \in Enables : call[l].input = Backup(e)
    /\ call[l].step = "codes" => ~Locked(call[l].row)

\* A code is there once its setup is done, and has let in at most one login that
\* has taken it, while it is unused none.
CodesOk ==
  \A e \in Enables :
    /\ enable[e].step # "done" => codes[e] = "absent"
    /\ codes[e] = "unused" \/ enable[e].step # "done" => admitted[e] = 0 /\ InSession(e) = {}
    /\ InSession(e) # {} => admitted[e] = 0
    /\ \A l, m \in InSession(e) : l = m

\* A transaction of enableTotp that has begun holds the row, and what it has
\* deleted are all codes that there are.
RowLockOk ==
  \A e \in Enables :
    /\ enable[e].step \in {"delete", "create"} <=> rowLock = e
    /\ enable[e].step = "create" => enable[e].deleted = Present

\* Logins that may still turn out wrong, and those that did and are not counted
\* or have not locked the account yet.
MayGuess == {l \in Logins : call[l].step \in {"check", "codes"} /\ ~Locked(call[l].row)}
Counting == {l \in Logins : call[l].step \in {"count", "lock"} /\ ~Locked(call[l].row)}

Least(a, b) == IF a < b THEN a ELSE b

\* While the account is open, the count lags behind by the calls on their way
\* and those that failed; once it is locked, only calls that had read it before
\* can still guess.
GuessInv ==
  IF account.lockedUntil = "future"
  THEN guesses + Cardinality(MayGuess) <= Attempts - 1 + Cardinality(Logins) + faults
  ELSE guesses <= Least(failed, Attempts - 1) + Cardinality(Counting) + faults

LoginInv == TypeOK /\ CallsOk /\ CodesOk /\ RowLockOk /\ CodesOfOneSetup /\ CodeAdmitsOnce /\ GuessInv

Step == {"idle", "check", "codes", "consume", "session", "reset", "count", "lock", "audit"}
Call == [step : Step, row : Account, password : BOOLEAN, input : Inputs]

\* A login moves on and the others stay where they are.
MovesTo(l, step) ==
  /\ call' \in [Logins -> Call] /\ call'[l].step = step
  /\ \A m \in Logins : m # l => call'[m] = call[m]

LEMMA CallType == TypeOK => call \in [Logins -> Call]
  BY Zenon DEF TypeOK, Call, Step

LEMMA NewAccountType == NewAccount \in Account
  BY LoginAssumption DEF NewAccount, Account

LEMMA GotoIs ==
  ASSUME TypeOK, NEW l \in Logins, NEW step \in Step, Goto(l, step)
  PROVE  MovesTo(l, step) /\ call'[l].input = call[l].input /\ call'[l].row = call[l].row
  <1>1. call \in [Logins -> Call]  BY CallType, Zenon
  <1> QED  BY <1>1, Zenon DEF Goto, MovesTo, Call

LEMMA GoOnIs ==
  ASSUME TypeOK, NEW l \in Logins, NEW step \in Step, GoOn(l, step)
  PROVE  MovesTo(l, step) /\ call'[l].input = NoCode /\ ~Locked(call'[l].row)
  <1>1. call \in [Logins -> Call]  BY CallType, Zenon
  <1>2. At(step) \in Call
    BY NewAccountType, Zenon DEF At, Call, Inputs
  <1>3. /\ At(step).step = step /\ At(step).input = NoCode
        /\ ~Locked(At(step).row)
    BY Zenon DEF At, Locked, NewAccount
  <1> QED  BY <1>1, <1>2, <1>3, Zenon DEF GoOn, MovesTo

LEMMA BackupIs == \A e, f : /\ Backup(e) = Backup(f) => e = f
                            /\ Backup(e) # NoCode /\ Backup(e)[2] = e
  BY Zenon DEF Backup, NoCode

\* Two sets of logins that differ in one.
LEMMA OneApart ==
  ASSUME NEW S, S \subseteq Logins, NEW T, T \subseteq Logins, NEW l \in Logins,
         \A m \in Logins : m # l => (m \in S <=> m \in T)
  PROVE  /\ Cardinality(S) \in Nat /\ Cardinality(T) \in Nat
         /\ l \in S /\ l \notin T => Cardinality(T) = Cardinality(S) - 1
         /\ l \notin S /\ l \in T => Cardinality(T) = Cardinality(S) + 1
         /\ (l \in S <=> l \in T) => Cardinality(T) = Cardinality(S)
  <1>1. IsFiniteSet(S) /\ IsFiniteSet(T)
    BY FS_Subset, LoginAssumption, Zenon
  <1>2. Cardinality(S) \in Nat /\ Cardinality(T) \in Nat
    BY <1>1, FS_CardinalityType, Zenon
  <1>3. ASSUME l \in S, l \notin T PROVE Cardinality(T) = Cardinality(S) - 1
    <2>1. T = S \ {l}  BY <1>3, Zenon
    <2> QED  BY <1>1, <1>3, <2>1, FS_RemoveElement, Zenon
  <1>4. ASSUME l \notin S, l \in T PROVE Cardinality(T) = Cardinality(S) + 1
    <2>1. T = S \cup {l}  BY <1>4, Zenon
    <2> QED  BY <1>1, <1>4, <2>1, FS_AddElement, Zenon
  <1>5. ASSUME l \in S <=> l \in T PROVE Cardinality(T) = Cardinality(S)
    <2>1. T = S  BY <1>5
    <2> QED  BY <2>1, Zenon
  <1> QED  BY <1>2, <1>3, <1>4, <1>5, Zenon

LEMMA MovedSets ==
  ASSUME NEW l \in Logins, NEW step, MovesTo(l, step)
  PROVE  /\ Cardinality(MayGuess) \in Nat /\ Cardinality(MayGuess') \in Nat
         /\ l \in MayGuess /\ l \notin MayGuess' => Cardinality(MayGuess') = Cardinality(MayGuess) - 1
         /\ l \notin MayGuess /\ l \in MayGuess' => Cardinality(MayGuess') = Cardinality(MayGuess) + 1
         /\ (l \in MayGuess <=> l \in MayGuess') => Cardinality(MayGuess') = Cardinality(MayGuess)
         /\ Cardinality(Counting) \in Nat /\ Cardinality(Counting') \in Nat
         /\ l \in Counting /\ l \notin Counting' => Cardinality(Counting') = Cardinality(Counting) - 1
         /\ l \notin Counting /\ l \in Counting' => Cardinality(Counting') = Cardinality(Counting) + 1
         /\ (l \in Counting <=> l \in Counting') => Cardinality(Counting') = Cardinality(Counting)
         /\ l \in MayGuess <=> call[l].step \in {"check", "codes"} /\ ~Locked(call[l].row)
         /\ l \in Counting <=> call[l].step \in {"count", "lock"} /\ ~Locked(call[l].row)
         /\ l \in MayGuess' <=> step \in {"check", "codes"} /\ ~Locked(call'[l].row)
         /\ l \in Counting' <=> step \in {"count", "lock"} /\ ~Locked(call'[l].row)
  <1>1. MayGuess \subseteq Logins /\ MayGuess' \subseteq Logins /\ Counting \subseteq Logins /\ Counting' \subseteq Logins
    BY Zenon DEF MayGuess, Counting
  <1>2. \A m \in Logins : m # l => (m \in MayGuess <=> m \in MayGuess') /\ (m \in Counting <=> m \in Counting')
    BY Zenon DEF MovesTo, MayGuess, Counting, Locked
  <1>3. /\ l \in MayGuess <=> call[l].step \in {"check", "codes"} /\ ~Locked(call[l].row)
        /\ l \in Counting <=> call[l].step \in {"count", "lock"} /\ ~Locked(call[l].row)
    BY Zenon DEF MayGuess, Counting
  <1>4. /\ l \in MayGuess' <=> step \in {"check", "codes"} /\ ~Locked(call'[l].row)
        /\ l \in Counting' <=> step \in {"count", "lock"} /\ ~Locked(call'[l].row)
    BY Zenon DEF MovesTo, MayGuess, Counting, Locked
  <1> DEFINE A == MayGuess  B == MayGuess'  C == Counting  D == Counting'
  <1> HIDE DEF A, B, C, D
  <1>5. /\ Cardinality(A) \in Nat /\ Cardinality(B) \in Nat
        /\ l \in A /\ l \notin B => Cardinality(B) = Cardinality(A) - 1
        /\ l \notin A /\ l \in B => Cardinality(B) = Cardinality(A) + 1
        /\ (l \in A <=> l \in B) => Cardinality(B) = Cardinality(A)
    BY <1>1, <1>2, OneApart DEF A, B
  <1>6. /\ Cardinality(C) \in Nat /\ Cardinality(D) \in Nat
        /\ l \in C /\ l \notin D => Cardinality(D) = Cardinality(C) - 1
        /\ l \notin C /\ l \in D => Cardinality(D) = Cardinality(C) + 1
        /\ (l \in C <=> l \in D) => Cardinality(D) = Cardinality(C)
    BY <1>1, <1>2, OneApart DEF C, D
  <1> QED  BY <1>3, <1>4, <1>5, <1>6, Zenon DEF A, B, C, D

\* Calls that may guess and calls that did are different ones.
LEMMA GuessersAreLogins == Cardinality(MayGuess) + Cardinality(Counting) <= Cardinality(Logins)
  <1>1. MayGuess \cap Counting = {} /\ MayGuess \cup Counting \subseteq Logins
    BY Zenon DEF MayGuess, Counting
  <1>2. IsFiniteSet(MayGuess) /\ IsFiniteSet(Counting)
    BY <1>1, FS_Subset, LoginAssumption, Zenon
  <1>3. Cardinality(MayGuess \cup Counting) = Cardinality(MayGuess) + Cardinality(Counting)
    <2>1. Cardinality(MayGuess \cup Counting) =
            Cardinality(MayGuess) + Cardinality(Counting) - Cardinality(MayGuess \cap Counting)
      BY <1>2, FS_Union, Zenon
    <2>2. Cardinality(MayGuess \cap Counting) = 0
      BY <1>1, FS_EmptySet, Zenon
    <2>3. Cardinality(MayGuess) \in Nat /\ Cardinality(Counting) \in Nat
      BY <1>2, FS_CardinalityType, Zenon
    <2> QED  BY <2>1, <2>2, <2>3
  <1> QED  BY <1>1, <1>3, FS_Subset, LoginAssumption, Zenon

\* What login keeps: its own step decides.
LEMMA LoginReadStep ==
  ASSUME LoginInv, NEW l \in Logins, NEW password \in BOOLEAN, NEW input \in Inputs,
         LoginRead(l, password, input)
  PROVE  LoginInv'
  <1>0. /\ TypeOK /\ CallsOk /\ CodesOk /\ RowLockOk /\ CodesOfOneSetup /\ CodeAdmitsOnce
        /\ GuessInv
    BY Zenon DEF LoginInv
  <1>1. call[l].step = "idle"
    BY Zenon DEF LoginRead
  <1>2. UNCHANGED <<account, failed, codes, enable, rowLock, admitted, guesses, faults>>
    BY Zenon DEF LoginRead, setupVars
  <1>3. budget' \in [{"guesses", "setups", "faults"} -> Nat]
    BY <1>0 DEF LoginRead, Spend, TypeOK
  <1> DEFINE c == [step |-> "check", row |-> account, password |-> password, input |-> input]
  <1>4. c \in Call /\ c.step = "check" /\ c.row = account
    BY <1>0, Zenon DEF Call, Step, TypeOK
  <1>5. call' = [call EXCEPT ![l] = c]
    BY Zenon DEF LoginRead
  <1> HIDE DEF c
  <1>6. MovesTo(l, "check") /\ call'[l].row = account
    BY <1>0, <1>4, <1>5, CallType, Zenon DEF MovesTo
  <1>7. TypeOK'
    BY <1>0, <1>2, <1>3, <1>6, Zenon DEF TypeOK, MovesTo, Call, Step
  <1>8. CallsOk' /\ \A e \in Enables : InSession(e)' = InSession(e)
    BY <1>0, <1>1, <1>6, Zenon DEF CallsOk, InSession, MovesTo, Locked, NoCode, Backup
  <1>9. CodesOk' /\ RowLockOk' /\ CodesOfOneSetup' /\ CodeAdmitsOnce'
    BY <1>0, <1>2, <1>8 DEF CodesOk, RowLockOk, CodesOfOneSetup, CodeAdmitsOnce, Present
  <1>10. GuessInv'
    BY <1>0, <1>1, <1>2, <1>6, MovedSets, Zenon DEF GuessInv, Locked
  <1> QED  BY <1>7, <1>8, <1>9, <1>10, Zenon DEF LoginInv

\* A login that goes on without touching the codes or the setups.
LEMMA LoginMovesAny ==
  ASSUME LoginInv, NEW l \in Logins, NEW step \in Step, MovesTo(l, step),
         account' \in Account, failed' \in 0..Attempts, UNCHANGED <<codes, enable, rowLock, admitted>>,
         budget' \in [{"guesses", "setups", "faults"} -> Nat], guesses' \in Nat, faults' \in Nat,
         call[l].step # "session",
         step = "consume" => \E e \in Enables : call'[l].input = Backup(e),
         step = "session" => call'[l].input = NoCode,
         step = "codes" => ~Locked(call'[l].row)
  PROVE  /\ TypeOK' /\ CallsOk' /\ CodesOk' /\ RowLockOk'
         /\ CodesOfOneSetup' /\ CodeAdmitsOnce'
  <1>0. TypeOK /\ CallsOk /\ CodesOk /\ RowLockOk /\ CodesOfOneSetup /\ CodeAdmitsOnce
    BY Zenon DEF LoginInv
  <1>1. TypeOK'
    BY <1>0, Zenon DEF TypeOK, MovesTo, Call, Step
  <1>2. CallsOk'
    BY <1>0, Zenon DEF CallsOk, MovesTo, Locked, NoCode, Backup
  <1>3. \A e \in Enables : InSession(e)' = InSession(e)
    <2> SUFFICES ASSUME NEW e \in Enables PROVE InSession(e)' = InSession(e)
      BY Zenon
    <2>1. \A m \in Logins : m # l => (m \in InSession(e)' <=> m \in InSession(e))
      BY Zenon DEF InSession, MovesTo, Backup
    <2>2. l \notin InSession(e)
      BY Zenon DEF InSession
    <2>3. l \notin InSession(e)'
      BY BackupIs, Zenon DEF InSession, MovesTo, Backup, NoCode
    <2>4. InSession(e) \subseteq Logins /\ InSession(e)' \subseteq Logins
      BY Zenon DEF InSession
    <2> QED  BY <2>1, <2>2, <2>3, <2>4
  <1>4. CodesOk' /\ RowLockOk' /\ CodesOfOneSetup' /\ CodeAdmitsOnce'
    BY <1>0, <1>3 DEF CodesOk, RowLockOk, CodesOfOneSetup, CodeAdmitsOnce, Present
  <1> QED  BY <1>1, <1>2, <1>4, Zenon

\* A login that goes on without touching the account either.
LEMMA LoginMoves ==
  ASSUME LoginInv, NEW l \in Logins, NEW step \in Step, MovesTo(l, step),
         UNCHANGED <<account, failed, codes, enable, rowLock, admitted>>,
         budget' \in [{"guesses", "setups", "faults"} -> Nat], guesses' \in Nat, faults' \in Nat,
         call[l].step # "session",
         step = "consume" => \E e \in Enables : call'[l].input = Backup(e),
         step = "session" => call'[l].input = NoCode,
         step = "codes" => ~Locked(call'[l].row)
  PROVE  /\ TypeOK' /\ CallsOk' /\ CodesOk' /\ RowLockOk'
         /\ CodesOfOneSetup' /\ CodeAdmitsOnce'
  BY LoginMovesAny, Zenon DEF LoginInv, TypeOK

\* A login that leaves the calls that may guess, and no guess with it.
LEMMA NoGuess ==
  ASSUME LoginInv, NEW l \in Logins, NEW step, MovesTo(l, step), UNCHANGED <<account, failed, guesses, faults>>,
         l \in MayGuess' => l \in MayGuess, l \in Counting => l \in Counting'
  PROVE  GuessInv'
  <1>1. /\ Cardinality(MayGuess') <= Cardinality(MayGuess)
        /\ Cardinality(Counting') >= Cardinality(Counting)
        /\ Cardinality(MayGuess) \in Nat /\ Cardinality(Counting) \in Nat
        /\ Cardinality(MayGuess') \in Nat /\ Cardinality(Counting') \in Nat
    BY MovedSets
  <1>2. Cardinality(Logins) \in Nat
    BY FS_CardinalityType, LoginAssumption, Zenon
  <1>3. guesses \in Nat /\ faults \in Nat /\ Least(failed, Attempts - 1) \in Int
    BY LoginAssumption DEF LoginInv, TypeOK, Least
  <1> QED  BY <1>1, <1>2, <1>3, LoginAssumption DEF LoginInv, GuessInv

LEMMA LoginCheckStep == LoginInv /\ (\E l \in Logins : LoginCheck(l)) => LoginInv'
  <1> SUFFICES ASSUME LoginInv, NEW l \in Logins, LoginCheck(l) PROVE LoginInv'
    BY Zenon
  <1>0. TypeOK /\ GuessInv  BY Zenon DEF LoginInv
  <1> DEFINE c == call[l]
  <1>1. /\ c.step = "check" /\ UNCHANGED <<account, failed, codes, enable, rowLock, admitted, faults, budget>>
        /\ guesses \in Nat /\ faults \in Nat /\ budget \in [{"guesses", "setups", "faults"} -> Nat]
    BY <1>0, Zenon DEF LoginCheck, setupVars, TypeOK
  <1>2. CASE GoOn(l, "session") /\ UNCHANGED guesses
    <2>1. MovesTo(l, "session") /\ call'[l].input = NoCode
      BY <1>0, <1>2, GoOnIs, Zenon DEF Step
    <2>2. GuessInv'
      BY <1>1, <1>2, <2>1, MovedSets, NoGuess
    <2> QED  BY <1>1, <1>2, <2>1, <2>2, LoginMoves, Zenon DEF LoginInv, Step
  <1>3. CASE ~Locked(c.row) /\ Goto(l, "codes") /\ UNCHANGED guesses
    <2>1. MovesTo(l, "codes") /\ call'[l].row = c.row
      BY <1>0, <1>3, GotoIs, Zenon DEF Step
    <2>2. ~Locked(call'[l].row)
      BY <1>3, <2>1, Zenon
    <2>3. GuessInv'
      BY <1>0, <1>1, <1>3, <2>1, <2>2, MovedSets, Zenon DEF GuessInv
    <2> QED  BY <1>1, <1>3, <2>1, <2>2, <2>3, LoginMoves, Zenon DEF LoginInv, Step
  <1>4. CASE Goto(l, "count") /\ guesses' = IF Locked(c.row) THEN guesses ELSE guesses + 1
    <2>1. MovesTo(l, "count") /\ call'[l].row = c.row
      BY <1>0, <1>4, GotoIs, Zenon DEF Step
    <2>2. guesses' \in Nat
      BY <1>1, <1>4
    <2>3. Locked(call'[l].row) <=> Locked(c.row)
      BY <2>1, Zenon
    <2>4. failed \in Nat /\ Least(failed, Attempts - 1) \in Int
      BY <1>0, LoginAssumption DEF TypeOK, Least
    <2>5. CASE Locked(c.row)
      <3>1. /\ Cardinality(MayGuess') = Cardinality(MayGuess)
            /\ Cardinality(Counting') = Cardinality(Counting)
        BY <1>1, <2>1, <2>3, <2>5, MovedSets, Zenon
      <3>2. GuessInv'
        BY <1>0, <1>1, <1>4, <2>5, <3>1, Zenon DEF GuessInv
      <3> QED  BY <1>1, <2>1, <2>2, <3>2, LoginMoves, Zenon DEF LoginInv, Step
    <2>6. CASE ~Locked(c.row)
      <3>1. /\ Cardinality(MayGuess') = Cardinality(MayGuess) - 1
            /\ Cardinality(Counting') = Cardinality(Counting) + 1
            /\ Cardinality(MayGuess) \in Nat /\ Cardinality(Counting) \in Nat
        BY <1>1, <2>1, <2>3, <2>6, MovedSets, Zenon
      <3>2. GuessInv'
        BY <1>0, <1>1, <1>4, <2>4, <2>6, <3>1 DEF GuessInv
      <3> QED  BY <1>1, <2>1, <2>2, <3>2, LoginMoves, Zenon DEF LoginInv, Step
    <2> QED  BY <2>5, <2>6, Zenon
  <1> QED  BY <1>2, <1>3, <1>4, Zenon DEF LoginCheck

\* The other steps that only move the call: no code is found, a code that was
\* used meanwhile, the audit record, a call that fails.
LEMMA LoginMovesOn ==
  LoginInv /\ (\E l \in Logins : FindCode(l) \/ LoginAudited(l) \/ LoginFails(l)) => LoginInv'
  <1> SUFFICES ASSUME LoginInv, NEW l \in Logins, FindCode(l) \/ LoginAudited(l) \/ LoginFails(l)
               PROVE  LoginInv'
    BY Zenon
  <1>0. TypeOK /\ CallsOk /\ CodesOk /\ GuessInv  BY Zenon DEF LoginInv
  <1>1. /\ guesses \in Nat /\ faults \in Nat /\ budget \in [{"guesses", "setups", "faults"} -> Nat]
        /\ failed \in Nat /\ Least(failed, Attempts - 1) \in Int
    BY <1>0, LoginAssumption DEF TypeOK, Least
  <1>2. CASE FindCode(l)
    <2> DEFINE found == \E e \in Enables : call[l].input = Backup(e) /\ codes[e] = "unused"
    <2>1. /\ call[l].step = "codes" /\ ~Locked(call[l].row)
          /\ Goto(l, IF found THEN "consume" ELSE "count")
          /\ guesses' = IF found THEN guesses ELSE guesses + 1
          /\ UNCHANGED <<account, failed, codes, enable, rowLock, admitted, faults, budget>>
      BY <1>0, <1>2, Zenon DEF FindCode, CallsOk, setupVars
    <2>2. CASE found
      <3>1. MovesTo(l, "consume") /\ call'[l].input = call[l].input
        BY <1>0, <2>1, <2>2, GotoIs, Zenon DEF Step
      <3>2. \E e \in Enables : call'[l].input = Backup(e)
        BY <2>2, <3>1, Zenon
      <3>3. GuessInv'
        BY <2>1, <2>2, <3>1, MovedSets, NoGuess, Zenon
      <3>4. guesses' \in Nat
        BY <1>1, <2>1
      <3> HIDE DEF found
      <3> QED  BY <1>1, <2>1, <3>1, <3>2, <3>3, <3>4, LoginMoves, Zenon DEF LoginInv, Step
    <2>3. CASE ~found
      <3>1. MovesTo(l, "count") /\ call'[l].row = call[l].row /\ guesses' = guesses + 1
        BY <1>0, <2>1, <2>3, GotoIs, Zenon DEF Step
      <3>2. ~Locked(call'[l].row)
        BY <2>1, <3>1, Zenon
      <3>3. /\ Cardinality(MayGuess') = Cardinality(MayGuess) - 1
            /\ Cardinality(Counting') = Cardinality(Counting) + 1
            /\ Cardinality(MayGuess) \in Nat /\ Cardinality(Counting) \in Nat
        BY <2>1, <3>1, <3>2, MovedSets, Zenon
      <3> HIDE DEF found
      <3>4. GuessInv'
        BY <1>0, <1>1, <2>1, <3>1, <3>3 DEF GuessInv
      <3> QED  BY <1>1, <2>1, <3>1, <3>4, LoginMoves DEF LoginInv, Step
    <2> QED  BY <2>2, <2>3, Zenon
  <1>3. CASE LoginAudited(l)
    <2>1. /\ call[l].step = "audit" /\ GoOn(l, "idle")
          /\ UNCHANGED <<account, failed, codes, enable, rowLock, admitted, guesses, faults, budget>>
      BY <1>3, Zenon DEF LoginAudited, Return, setupVars
    <2>2. MovesTo(l, "idle")
      BY <1>0, <2>1, GoOnIs, Zenon DEF Step
    <2>3. GuessInv'
      BY <1>0, <2>1, <2>2, MovedSets DEF GuessInv
    <2> QED  BY <1>1, <2>1, <2>2, <2>3, LoginMoves, Zenon DEF LoginInv, Step
  <1>4. CASE LoginFails(l)
    <2>1. /\ GoOn(l, "idle") /\ faults' = faults + 1
          /\ budget' \in [{"guesses", "setups", "faults"} -> Nat]
          /\ UNCHANGED <<account, failed, codes, enable, rowLock, admitted, guesses>>
      BY <1>1, <1>4 DEF LoginFails, Return, Spend, setupVars
    <2>2. MovesTo(l, "idle")
      BY <1>0, <2>1, GoOnIs, Zenon DEF Step
    <2>3. /\ Cardinality(MayGuess') <= Cardinality(MayGuess)
          /\ Cardinality(Counting') >= Cardinality(Counting) - 1
          /\ Cardinality(MayGuess) \in Nat /\ Cardinality(Counting) \in Nat
          /\ Cardinality(MayGuess') \in Nat /\ Cardinality(Counting') \in Nat
      BY <2>2, MovedSets
    <2>4. Cardinality(Logins) \in Nat
      BY FS_CardinalityType, LoginAssumption, Zenon
    <2>5. GuessInv'
      BY <1>0, <1>1, <2>1, <2>3, <2>4, LoginAssumption DEF GuessInv
    <2>6. CASE call[l].step # "session"
      BY <1>1, <2>1, <2>2, <2>5, <2>6, LoginMoves DEF LoginInv, Step
    <2>7. CASE call[l].step = "session"
      <3>1. TypeOK' /\ CallsOk'
        BY <1>0, <1>1, <2>1, <2>2
        DEF TypeOK, CallsOk, MovesTo, Call, Step, Locked, NoCode, Backup
      <3>2. \A e \in Enables : InSession(e)' \subseteq InSession(e)
        BY <2>2, Zenon DEF InSession, MovesTo, Backup
      <3>3. CodesOk'
        BY <1>0, <2>1, <3>2 DEF CodesOk
      <3>4. RowLockOk' /\ CodesOfOneSetup' /\ CodeAdmitsOnce'
        BY <2>1, Zenon DEF LoginInv, RowLockOk, CodesOfOneSetup, CodeAdmitsOnce, Present
      <3> QED  BY <2>5, <3>1, <3>3, <3>4, Zenon DEF LoginInv
    <2> QED  BY <2>6, <2>7, Zenon
  <1> QED  BY <1>2, <1>3, <1>4, Zenon

\* A code is taken by one login, or is gone.
LEMMA ConsumeStep == LoginInv /\ (\E l \in Logins : ConsumeCode(l)) => LoginInv'
  <1> SUFFICES ASSUME LoginInv, NEW l \in Logins, ConsumeCode(l) PROVE LoginInv'
    BY Zenon
  <1>0. /\ TypeOK /\ CallsOk /\ CodesOk /\ RowLockOk /\ CodesOfOneSetup /\ CodeAdmitsOnce
        /\ GuessInv
    BY Zenon DEF LoginInv
  <1>1. /\ call[l].step = "consume"
        /\ UNCHANGED <<account, failed, enable, rowLock, admitted, guesses, faults, budget>>
        /\ guesses \in Nat /\ faults \in Nat /\ budget \in [{"guesses", "setups", "faults"} -> Nat]
    BY <1>0, Zenon DEF ConsumeCode, setupVars, TypeOK
  <1>2. PICK e \in Enables : call[l].input = Backup(e)
    BY <1>0, <1>1, Zenon DEF CallsOk
  <1>3. CodeOf(l) = e
    BY <1>2, BackupIs, Zenon DEF CodeOf
  <1>4. CASE codes[e] # "unused"
    <2>1. UNCHANGED codes /\ GoOn(l, "idle")
      BY <1>3, <1>4, Zenon DEF ConsumeCode, Consumable, Return
    <2>2. MovesTo(l, "idle")
      BY <1>0, <2>1, GoOnIs, Zenon DEF Step
    <2>3. GuessInv'
      BY <1>1, <2>2, MovedSets, NoGuess
    <2> QED  BY <1>1, <2>1, <2>2, <2>3, LoginMoves, Zenon DEF LoginInv, Step
  <1>5. CASE codes[e] = "unused"
    <2>1. codes' = [codes EXCEPT ![e] = "used"] /\ Goto(l, "session")
      BY <1>3, <1>5, Zenon DEF ConsumeCode, Consumable
    <2>2. MovesTo(l, "session") /\ call'[l].input = Backup(e)
      BY <1>0, <1>2, <2>1, GotoIs, Zenon DEF Step
    <2>3. codes'[e] = "used" /\ \A f \in Enables : f # e => codes'[f] = codes[f]
      BY <1>0, <2>1, Zenon DEF TypeOK
    <2>4. TypeOK' /\ CallsOk'
      <3>1. codes' \in [Enables -> {"absent", "unused", "used"}]
        BY <1>0, <2>1, Zenon DEF TypeOK
      <3>2. TypeOK'
        BY <1>0, <1>1, <2>2, <3>1, Zenon DEF TypeOK, MovesTo, Call, Step
      <3>3. CallsOk'
        BY <1>0, <2>2, Zenon DEF CallsOk, MovesTo, Locked, NoCode, Backup
      <3> QED  BY <3>2, <3>3, Zenon
    <2>5. /\ InSession(e)' \subseteq InSession(e) \cup {l}
          /\ \A f \in Enables : f # e => InSession(f)' \subseteq InSession(f)
      BY <2>2, BackupIs, Zenon DEF InSession, MovesTo, Backup
    <2>6. enable[e].step = "done" /\ admitted[e] = 0 /\ InSession(e) = {}
      BY <1>0, <1>5, Zenon DEF CodesOk
    <2>7. CodesOk'
      BY <1>0, <1>1, <2>3, <2>5, <2>6 DEF CodesOk
    <2>8. Present' = Present
      BY <1>5, <2>3, Zenon DEF Present
    <2>9. RowLockOk' /\ CodesOfOneSetup' /\ CodeAdmitsOnce'
      BY <1>0, <1>1, <2>8, Zenon DEF RowLockOk, CodesOfOneSetup, CodeAdmitsOnce
    <2>10. GuessInv'
      BY <1>1, <2>2, MovedSets, NoGuess
    <2> QED  BY <2>4, <2>7, <2>9, <2>10, Zenon DEF LoginInv
  <1> QED  BY <1>4, <1>5, Zenon

\* The session of a code is opened by the login that took it.
LEMMA SessionSetStep == LoginInv /\ (\E l \in Logins : SetSession(l)) => LoginInv'
  <1> SUFFICES ASSUME LoginInv, NEW l \in Logins, SetSession(l) PROVE LoginInv'
    BY Zenon
  <1>0. /\ TypeOK /\ CallsOk /\ CodesOk /\ RowLockOk /\ CodesOfOneSetup /\ CodeAdmitsOnce
        /\ GuessInv
    BY Zenon DEF LoginInv
  <1>1. /\ call[l].step = "session" /\ GoOn(l, "reset")
        /\ UNCHANGED <<account, failed, codes, enable, rowLock, guesses, faults, budget>>
    BY Zenon DEF SetSession, setupVars
  <1>2. MovesTo(l, "reset")
    BY <1>0, <1>1, GoOnIs, Zenon DEF Step
  <1>3. GuessInv'
    BY <1>1, <1>2, MovedSets, NoGuess
  <1>4. CallsOk'
    BY <1>0, <1>2, Zenon DEF CallsOk, MovesTo, Locked, NoCode, Backup
  <1>5. \A e \in Enables : InSession(e)' = InSession(e) \ {l}
    BY <1>2, Zenon DEF InSession, MovesTo, Backup
  <1>6. RowLockOk' /\ CodesOfOneSetup'
    BY <1>0, <1>1, Zenon DEF RowLockOk, CodesOfOneSetup, Present
  <1>7. CASE call[l].input = NoCode
    <2>1. UNCHANGED admitted
      BY <1>7, Zenon DEF SetSession
    <2>2. TypeOK'
      BY <1>0, <1>1, <1>2, <2>1, Zenon DEF TypeOK, MovesTo, Call, Step
    <2>3. CodesOk' /\ CodeAdmitsOnce'
      BY <1>0, <1>1, <1>5, <2>1, Zenon DEF CodesOk, CodeAdmitsOnce
    <2> QED  BY <1>3, <1>4, <1>6, <2>2, <2>3, Zenon DEF LoginInv
  <1>8. CASE call[l].input # NoCode
    <2>1. PICK e \in Enables : call[l].input = Backup(e)
      BY <1>0, <1>1, <1>8, Zenon DEF CallsOk
    <2>2. admitted' = [admitted EXCEPT ![e] = @ + 1]
      BY <1>8, <2>1, BackupIs, Zenon DEF SetSession, CodeOf
    <2>3. l \in InSession(e)
      BY <1>1, <2>1, Zenon DEF InSession
    <2>4. /\ admitted[e] = 0 /\ InSession(e)' = {} /\ codes[e] # "unused" /\ enable[e].step = "done"
      BY <1>0, <1>5, <2>3, Zenon DEF CodesOk
    <2>5. /\ admitted'[e] = 1 /\ \A f \in Enables : f # e => admitted'[f] = admitted[f]
          /\ admitted' \in [Enables -> Nat]
      BY <1>0, <2>2, <2>4 DEF TypeOK
    <2>6. TypeOK'
      BY <1>0, <1>1, <1>2, <2>5, Zenon DEF TypeOK, MovesTo, Call, Step
    <2>7. CodesOk'
      BY <1>0, <1>1, <1>5, <2>4, <2>5, Zenon DEF CodesOk
    <2>8. CodeAdmitsOnce'
      BY <1>0, <2>5 DEF CodeAdmitsOnce
    <2> QED  BY <1>3, <1>4, <1>6, <2>6, <2>7, <2>8, Zenon DEF LoginInv
  <1> QED  BY <1>7, <1>8, Zenon

\* The count, the lock, and what clears them.
LEMMA CountStep ==
  LoginInv /\ (\E l \in Logins : ResetCount(l) \/ CountFailure(l) \/ LockAccount(l)) => LoginInv'
  <1> SUFFICES ASSUME LoginInv, NEW l \in Logins,
                      ResetCount(l) \/ CountFailure(l) \/ LockAccount(l)
               PROVE  LoginInv'
    BY Zenon
  <1> USE LoginAssumption
  <1>0. TypeOK /\ GuessInv  BY Zenon DEF LoginInv
  <1>1. /\ guesses \in Nat /\ faults \in Nat /\ budget \in [{"guesses", "setups", "faults"} -> Nat]
        /\ failed \in 0..Attempts /\ account \in Account
    BY <1>0, Zenon DEF TypeOK
  <1>2. CASE ResetCount(l)
    <2>1. /\ call[l].step = "reset" /\ GoOn(l, "audit")
          /\ account' = [account EXCEPT !.lockedUntil = "null"] /\ failed' = 0 /\ guesses' = 0
          /\ UNCHANGED <<codes, enable, rowLock, admitted, faults, budget>>
      BY <1>2, Zenon DEF ResetCount, setupVars
    <2>2. MovesTo(l, "audit")
      BY <1>0, <2>1, GoOnIs, Zenon DEF Step
    <2>3. account' \in Account /\ account'.lockedUntil = "null"
      BY <1>1, <2>1, Zenon DEF Account
    <2>4. Cardinality(Counting') \in Nat
      BY <2>2, MovedSets, Zenon
    <2>5. Least(failed', Attempts - 1) >= 0 /\ Least(failed', Attempts - 1) \in Int
      BY <2>1 DEF Least
    <2>6. GuessInv'
      BY <1>1, <2>1, <2>3, <2>4, <2>5 DEF GuessInv, Least
    <2> QED  BY <1>1, <2>1, <2>2, <2>3, <2>6, LoginMovesAny DEF LoginInv, Step
  <1>3. CASE CountFailure(l)
    <2> DEFINE step == IF Reached /\ ~Locked(call[l].row) THEN "lock" ELSE "audit"
    <2>1. /\ call[l].step = "count" /\ GoOn(l, step) /\ failed' = AtMost(failed + 1, Attempts)
          /\ UNCHANGED <<account, codes, enable, rowLock, admitted, guesses, faults, budget>>
      BY <1>3, Zenon DEF CountFailure, setupVars
    <2>2. step \in Step /\ step \in {"lock", "audit"} /\ MovesTo(l, step) /\ ~Locked(call'[l].row)
      BY <1>0, <2>1, GoOnIs, Zenon DEF Step
    <2>3. failed' \in 0..Attempts
      BY <1>1, <2>1 DEF AtMost
    <2>4. /\ Cardinality(MayGuess') = Cardinality(MayGuess)
          /\ Cardinality(Counting) \in Nat /\ Cardinality(Counting') \in Nat
          /\ step = "lock" => Cardinality(Counting') = Cardinality(Counting)
          /\ step = "audit" /\ Locked(call[l].row) => Cardinality(Counting') = Cardinality(Counting)
          /\ step = "audit" /\ ~Locked(call[l].row) => Cardinality(Counting') = Cardinality(Counting) - 1
      BY <2>1, <2>2, MovedSets, Zenon
    <2>5. /\ Least(failed', Attempts - 1) \in Int /\ Least(failed, Attempts - 1) \in Int
          /\ Least(failed', Attempts - 1) >= Least(failed, Attempts - 1)
          /\ step = "audit" /\ ~Locked(call[l].row) =>
               Least(failed', Attempts - 1) = Least(failed, Attempts - 1) + 1
      BY <1>1, <2>1 DEF AtMost, Reached, Least
    <2>6. (step = "lock" => ~Locked(call[l].row)) /\ step \in {"lock", "audit"}
      BY Zenon
    <2> HIDE DEF step
    <2>7. Cardinality(Counting') + Least(failed', Attempts - 1) >= Cardinality(Counting) + Least(failed, Attempts - 1)
      BY <2>4, <2>5, <2>6
    <2>8. GuessInv'
      BY <1>0, <1>1, <2>1, <2>4, <2>5, <2>7 DEF GuessInv
    <2> QED  BY <1>1, <2>1, <2>2, <2>3, <2>8, LoginMovesAny, Zenon DEF LoginInv
  <1>4. CASE LockAccount(l)
    <2>1. /\ call[l].step = "lock" /\ GoOn(l, "audit")
          /\ account' = [account EXCEPT !.lockedUntil = "future"]
          /\ UNCHANGED <<failed, codes, enable, rowLock, admitted, guesses, faults, budget>>
      BY <1>4, Zenon DEF LockAccount, setupVars
    <2>2. MovesTo(l, "audit")
      BY <1>0, <2>1, GoOnIs, Zenon DEF Step
    <2>3. account' \in Account /\ account'.lockedUntil = "future"
      BY <1>1, <2>1, Zenon DEF Account
    <2>4. /\ Cardinality(MayGuess') = Cardinality(MayGuess)
          /\ Cardinality(MayGuess) \in Nat /\ Cardinality(Counting) \in Nat
      BY <2>1, <2>2, MovedSets
    <2>5. Least(failed, Attempts - 1) <= Attempts - 1 /\ Least(failed, Attempts - 1) \in Int
      BY <1>1 DEF Least
    <2>6. Cardinality(Logins) \in Nat
      BY FS_CardinalityType, Zenon
    <2>7. GuessInv'
      BY <1>0, <1>1, <2>1, <2>3, <2>4, <2>5, <2>6, GuessersAreLogins DEF GuessInv
    <2> QED  BY <1>1, <2>1, <2>2, <2>3, <2>7, LoginMovesAny, Zenon DEF LoginInv, Step
  <1> QED  BY <1>2, <1>3, <1>4, Zenon

\* A lock ends, for the account and for rows that were read and not checked yet.
LEMMA LockEndsStep == LoginInv /\ LockEnds => LoginInv'
  <1> SUFFICES ASSUME LoginInv, LockEnds PROVE LoginInv'
    BY Zenon
  <1> USE LoginAssumption
  <1>0. TypeOK /\ CallsOk /\ CodesOk /\ RowLockOk /\ CodesOfOneSetup /\ CodeAdmitsOnce
    BY Zenon DEF LoginInv
  <1>1. /\ account' = [account EXCEPT !.lockedUntil = "past"] /\ guesses' = 0
        /\ call' = [l \in Logins |->
             [call[l] EXCEPT !.row.lockedUntil = IF call[l].step = "check" THEN Ended(@) ELSE @]]
        /\ UNCHANGED <<failed, codes, enable, rowLock, admitted, faults, budget>>
    BY Zenon DEF LockEnds, Ended, setupVars
  <1>2. account' \in Account /\ account'.lockedUntil = "past"
    BY <1>0, <1>1, Zenon DEF TypeOK, Account
  <1>3. ASSUME NEW l \in Logins
        PROVE  /\ call'[l] \in Call /\ call'[l].step = call[l].step /\ call'[l].input = call[l].input
               /\ call[l].step # "check" => call'[l].row.lockedUntil = call[l].row.lockedUntil
    <2>1. call[l] \in Call
      BY <1>0, CallType, Zenon
    <2> DEFINE until == IF call[l].step = "check" THEN Ended(call[l].row.lockedUntil)
                        ELSE call[l].row.lockedUntil
    <2>2. until \in {"null", "future", "past"}
      BY <2>1, Zenon DEF Call, Account, Ended
    <2>3. call'[l] = [call[l] EXCEPT !.row = [call[l].row EXCEPT !.lockedUntil = until]]
      BY <1>1, Zenon
    <2>4. [call[l].row EXCEPT !.lockedUntil = until] \in Account
      BY <2>1, <2>2, Zenon DEF Call, Account
    <2>5. [call[l].row EXCEPT !.lockedUntil = until].lockedUntil = until
      BY <2>1, Zenon DEF Call, Account
    <2> DEFINE row == [call[l].row EXCEPT !.lockedUntil = until]
    <2>6. call[l].step # "check" => row.lockedUntil = call[l].row.lockedUntil
      BY <2>5, Zenon
    <2>7. row \in Account /\ call'[l] = [call[l] EXCEPT !.row = row]
      BY <2>3, <2>4, Zenon
    <2> HIDE DEF row, until
    <2> QED  BY <2>1, <2>6, <2>7, Zenon DEF Call
  <1>4. call' \in [Logins -> Call]
    <2>1. call' = [l \in Logins |-> call'[l]]
      BY <1>1, Zenon
    <2> QED  BY <1>3, <2>1, Zenon
  <1>5. TypeOK'
    BY <1>0, <1>1, <1>2, <1>4, Zenon DEF TypeOK, Call, Step
  <1>6. CallsOk'
    BY <1>0, <1>3 DEF CallsOk, Locked, NoCode, Backup
  <1>7. \A e \in Enables : InSession(e)' = InSession(e)
    BY <1>3, Zenon DEF InSession, Backup
  <1>8. CodesOk' /\ RowLockOk' /\ CodesOfOneSetup' /\ CodeAdmitsOnce'
    BY <1>0, <1>1, <1>7 DEF CodesOk, RowLockOk, CodesOfOneSetup, CodeAdmitsOnce, Present
  <1>9. Cardinality(Counting') \in Nat
    BY FS_Subset, FS_CardinalityType, Zenon DEF Counting
  <1>10. Least(failed', Attempts - 1) >= 0 /\ Least(failed', Attempts - 1) \in Int
    <2>1. failed' = failed /\ failed \in 0..Attempts
      BY <1>0, <1>1, Zenon DEF TypeOK
    <2> QED  BY <2>1 DEF Least
  <1>11. GuessInv'
    BY <1>0, <1>1, <1>2, <1>9, <1>10 DEF GuessInv, TypeOK
  <1> QED  BY <1>5, <1>6, <1>8, <1>11, Zenon DEF LoginInv

\* The setup leaves the logins, the count and the lock alone.
LEMMA SetupKeepsCalls ==
  ASSUME LoginInv, UNCHANGED <<call, failed, guesses, faults>>, account'.lockedUntil = account.lockedUntil
  PROVE  CallsOk' /\ GuessInv' /\ \A e \in Enables : InSession(e)' = InSession(e)
  <1>1. MayGuess' = MayGuess /\ Counting' = Counting
    BY Zenon DEF MayGuess, Counting, Locked
  <1>2. CallsOk' /\ \A e \in Enables : InSession(e)' = InSession(e)
    BY Zenon DEF LoginInv, CallsOk, InSession, Locked, NoCode, Backup
  <1> QED  BY <1>1, <1>2, Zenon DEF LoginInv, GuessInv

LEMMA SetupStep ==
  LoginInv /\ (BeginTotp \/ \E e \in Enables : EnableRead(e) \/ EnableStep(e) \/ EnableFails(e))
    => LoginInv'
  <1> USE LoginAssumption
  <1>0. LoginInv => /\ TypeOK /\ CodesOk /\ RowLockOk /\ CodesOfOneSetup /\ CodeAdmitsOnce
    BY Zenon DEF LoginInv
  <1>1. ASSUME LoginInv, BeginTotp PROVE LoginInv'
    <2>1. /\ account' = [account EXCEPT !.secret = @ + 1, !.totp = FALSE] /\ account.secret < MaxSecrets
          /\ UNCHANGED <<failed, codes, call, guesses, faults, enable, rowLock, admitted>>
          /\ budget' \in [{"guesses", "setups", "faults"} -> Nat]
      BY <1>0, <1>1 DEF BeginTotp, callVars, setupVars, Spend, TypeOK
    <2>2. account' \in Account /\ account'.lockedUntil = account.lockedUntil
      <3>1. account \in Account
        BY <1>0, <1>1, Zenon DEF TypeOK
      <3>2. account.secret + 1 \in 0..MaxSecrets
        BY <2>1, <3>1 DEF Account
      <3>3. account' = [account EXCEPT !.secret = account.secret + 1, !.totp = FALSE]
        BY <2>1, Zenon
      <3> QED  BY <3>1, <3>2, <3>3, Zenon DEF Account
    <2>3. CallsOk' /\ GuessInv' /\ \A e \in Enables : InSession(e)' = InSession(e)
      BY <1>1, <2>1, <2>2, SetupKeepsCalls, Zenon
    <2>4. TypeOK'
      BY <1>0, <1>1, <2>1, <2>2, Zenon DEF TypeOK
    <2>5. CodesOk' /\ RowLockOk' /\ CodesOfOneSetup' /\ CodeAdmitsOnce'
      BY <1>0, <1>1, <2>1, <2>3 DEF CodesOk, RowLockOk, CodesOfOneSetup, CodeAdmitsOnce, Present
    <2> QED  BY <2>3, <2>4, <2>5, Zenon DEF LoginInv
  <1>2. ASSUME LoginInv, NEW e \in Enables, EnableRead(e) \/ EnableUpdate(e) \/ EnableDelete(e)
        PROVE  LoginInv'
    <2>1. UNCHANGED <<account, failed, codes, call, guesses, faults, admitted, budget>>
      BY <1>2, Zenon DEF EnableRead, EnableUpdate, EnableDelete, callVars
    <2>2. CallsOk' /\ GuessInv' /\ \A f \in Enables : InSession(f)' = InSession(f)
      BY <1>2, <2>1, SetupKeepsCalls, Zenon
    <2>3. CodesOfOneSetup' /\ CodeAdmitsOnce' /\ Present' = Present
      BY <1>0, <1>2, <2>1, Zenon DEF CodesOfOneSetup, CodeAdmitsOnce, Present
    <2> DEFINE Setup == [step : {"new", "update", "delete", "create", "done"}, deleted : SUBSET Enables]
    <2>4. enable \in [Enables -> Setup] /\ rowLock \in Enables \cup {Nobody}
      BY <1>0, <1>2, Zenon DEF TypeOK
    <2>5. /\ enable' \in [Enables -> Setup] /\ \A f \in Enables : f # e => enable'[f] = enable[f]
          /\ \/ /\ enable[e].step = "new" /\ enable'[e].step = "update" /\ rowLock' = rowLock
             \/ /\ enable[e].step = "update" /\ enable'[e].step = "delete" /\ rowLock = Nobody /\ rowLock' = e
             \/ /\ enable[e].step = "delete" /\ enable'[e].step = "create" /\ rowLock' = rowLock
                /\ enable'[e].deleted = Present
      <3>1. CASE EnableRead(e)
        BY <2>4, <3>1 DEF EnableRead
      <3>2. CASE EnableUpdate(e)
        BY <2>4, <3>2 DEF EnableUpdate, RowIsFree
      <3>3. CASE EnableDelete(e)
        <4>1. Present \in SUBSET Enables
          BY Zenon DEF Present
        <4> DEFINE created == [enable EXCEPT ![e].step = "create"]
        <4>2. /\ created \in [Enables -> Setup] /\ created[e].step = "create"
              /\ \A f \in Enables : f # e => created[f] = enable[f]
          BY <2>4
        <4>3. enable' = [created EXCEPT ![e].deleted = Present] /\ UNCHANGED rowLock /\ enable[e].step = "delete"
          BY <3>3, Zenon DEF EnableDelete
        <4> HIDE DEF created
        <4> QED  BY <4>1, <4>2, <4>3, Zenon
      <3> QED  BY <1>2, <3>1, <3>2, <3>3, Zenon
    <2>6. TypeOK'
      <3>1. rowLock' \in Enables \cup {Nobody}
        BY <2>4, <2>5, Zenon
      <3> QED  BY <1>0, <1>2, <2>1, <2>5, <3>1, Zenon DEF TypeOK
    <2>7. CodesOk'
      BY <1>0, <1>2, <2>1, <2>2, <2>5 DEF CodesOk
    <2>8. RowLockOk'
      BY <1>0, <1>2, <2>3, <2>4, <2>5 DEF RowLockOk
    <2> QED  BY <2>2, <2>3, <2>6, <2>7, <2>8, Zenon DEF LoginInv
  <1>3. ASSUME LoginInv, NEW e \in Enables, EnableCommit(e) PROVE LoginInv'
    <2>1. /\ enable[e].step = "create" /\ account' = [account EXCEPT !.totp = TRUE]
          /\ enable' = [enable EXCEPT ![e] = [step |-> "done", deleted |-> {}]] /\ rowLock' = Nobody
          /\ UNCHANGED <<failed, call, guesses, faults, admitted, budget>>
      BY <1>3, Zenon DEF EnableCommit, callVars
    <2>2. account' \in Account /\ account'.lockedUntil = account.lockedUntil
      BY <1>0, <1>3, <2>1, Zenon DEF TypeOK, Account
    <2>3. CallsOk' /\ GuessInv' /\ \A f \in Enables : InSession(f)' = InSession(f)
      BY <1>3, <2>1, <2>2, SetupKeepsCalls, Zenon
    <2>4. enable[e].deleted = Present
      BY <1>0, <1>3, <2>1, Zenon DEF RowLockOk
    <2>5. /\ codes' \in [Enables -> {"absent", "unused", "used"}]
          /\ codes'[e] = "unused" /\ \A f \in Enables : f # e => codes'[f] = "absent"
      BY <1>0, <1>3, <2>4, Zenon DEF EnableCommit, Present, TypeOK
    <2>6. /\ enable' \in [Enables -> [step : {"new", "update", "delete", "create", "done"}, deleted : SUBSET Enables]]
          /\ enable'[e].step = "done" /\ \A f \in Enables : f # e => enable'[f] = enable[f]
      BY <1>0, <1>3, <2>1, Zenon DEF TypeOK
    <2>7. TypeOK'
      BY <1>0, <1>3, <2>1, <2>2, <2>5, <2>6, Zenon DEF TypeOK
    <2>8. CodesOk'
      BY <1>0, <1>3, <2>1, <2>3, <2>5, <2>6 DEF CodesOk
    <2>9. RowLockOk'
      BY <1>0, <1>3, <2>1, <2>6 DEF RowLockOk
    <2>10. CodesOfOneSetup' /\ CodeAdmitsOnce'
      BY <1>0, <1>3, <2>1, <2>5, Zenon DEF CodesOfOneSetup, CodeAdmitsOnce, Present
    <2> QED  BY <2>3, <2>7, <2>8, <2>9, <2>10, Zenon DEF LoginInv
  <1>4. ASSUME LoginInv, NEW e \in Enables, EnableFails(e) PROVE LoginInv'
    <2>1. /\ enable[e].step \in {"update", "delete", "create"}
          /\ enable' = [enable EXCEPT ![e] = [step |-> "done", deleted |-> {}]]
          /\ rowLock' = IF rowLock = e THEN Nobody ELSE rowLock
          /\ UNCHANGED <<account, failed, codes, call, guesses, faults, admitted>>
          /\ budget' \in [{"guesses", "setups", "faults"} -> Nat]
      BY <1>0, <1>4 DEF EnableFails, callVars, Spend, TypeOK
    <2>2. CallsOk' /\ GuessInv' /\ \A f \in Enables : InSession(f)' = InSession(f)
      BY <1>4, <2>1, SetupKeepsCalls, Zenon
    <2>3. /\ enable' \in [Enables -> [step : {"new", "update", "delete", "create", "done"}, deleted : SUBSET Enables]]
          /\ enable'[e].step = "done" /\ \A f \in Enables : f # e => enable'[f] = enable[f]
      BY <1>0, <1>4, <2>1, Zenon DEF TypeOK
    <2>4. TypeOK'
      BY <1>0, <1>4, <2>1, <2>3, Zenon DEF TypeOK
    <2>5. CodesOk'
      BY <1>0, <1>4, <2>1, <2>2, <2>3 DEF CodesOk
    <2>6. RowLockOk' /\ CodesOfOneSetup' /\ CodeAdmitsOnce'
      BY <1>0, <1>4, <2>1, <2>3 DEF RowLockOk, CodesOfOneSetup, CodeAdmitsOnce, Present
    <2> QED  BY <2>2, <2>4, <2>5, <2>6, Zenon DEF LoginInv
  <1> QED  BY <1>1, <1>2, <1>3, <1>4, Zenon DEF EnableStep

LEMMA LoginInvInit == Init => LoginInv
  <1> SUFFICES ASSUME Init PROVE LoginInv
    BY Zenon
  <1> USE LoginAssumption DEF Init
  <1>1. \A l \in Logins : call[l] = At("idle")
    BY Zenon
  <1>2. At("idle") \in Call /\ At("idle").step = "idle"
    BY NewAccountType, Zenon DEF At, Call, Step, Inputs
  <1>3. TypeOK
    <2>1. call \in [Logins -> Call]
      BY <1>2, Zenon
    <2>2. enable \in [Enables -> [step : {"new", "update", "delete", "create", "done"}, deleted : SUBSET Enables]]
      BY Zenon
    <2>3. /\ account \in Account /\ failed \in 0..Attempts /\ guesses \in Nat /\ faults \in Nat
          /\ codes \in [Enables -> {"absent", "unused", "used"}] /\ admitted \in [Enables -> Nat]
          /\ rowLock \in Enables \cup {Nobody} /\ budget \in [{"guesses", "setups", "faults"} -> Nat]
      BY NewAccountType
    <2> QED  BY <2>1, <2>2, <2>3, Zenon DEF TypeOK, Call, Step
  <1>4. \A l \in Logins : call[l].step = "idle"
    BY <1>1, <1>2, Zenon
  <1>5. CallsOk /\ Counting = {} /\ \A e \in Enables : InSession(e) = {}
    BY <1>4, Zenon DEF CallsOk, Counting, InSession
  <1>6. CodesOk /\ RowLockOk /\ CodesOfOneSetup /\ CodeAdmitsOnce
    BY <1>5 DEF CodesOk, RowLockOk, CodesOfOneSetup, CodeAdmitsOnce, Present
  <1>7. account.lockedUntil = "null" /\ Cardinality(Counting) = 0 /\ Least(failed, Attempts - 1) = 0
    BY <1>5, FS_EmptySet DEF NewAccount, Least
  <1>8. GuessInv
    BY <1>7 DEF GuessInv
  <1> QED  BY <1>3, <1>5, <1>6, <1>8, Zenon DEF LoginInv

LEMMA LoginInvNext == LoginInv /\ [Next]_vars => LoginInv'
  <1> SUFFICES ASSUME LoginInv, [Next]_vars PROVE LoginInv'
    BY Zenon
  <1>1. ASSUME NEW l \in Logins, LoginStep(l) \/ LoginFails(l) PROVE LoginInv'
    BY <1>1, LoginCheckStep, LoginMovesOn, ConsumeStep, SessionSetStep, CountStep, Zenon DEF LoginStep
  <1>2. ASSUME NEW l \in Logins,
               LoginRead(l, FALSE, NoCode) \/ \E input \in Inputs : LoginRead(l, TRUE, input)
        PROVE  LoginInv'
    <2>1. NoCode \in Inputs /\ TRUE \in BOOLEAN /\ FALSE \in BOOLEAN
      BY Zenon DEF Inputs
    <2> QED  BY <1>2, <2>1, LoginReadStep, Zenon
  <1>3. CASE LockEnds
    BY <1>3, LockEndsStep, Zenon
  <1>4. CASE BeginTotp \/ \E e \in Enables : EnableRead(e) \/ EnableStep(e) \/ EnableFails(e)
    BY <1>4, SetupStep, Zenon
  <1>5. CASE UNCHANGED vars
    <2>1. UNCHANGED <<account, failed, codes, call, enable, rowLock, admitted, guesses, faults, budget>>
      BY <1>5, Zenon DEF vars
    <2>2. CallsOk' /\ GuessInv' /\ \A e \in Enables : InSession(e)' = InSession(e)
      BY <2>1, SetupKeepsCalls, Zenon
    <2>3. TypeOK'
      BY <2>1, Zenon DEF LoginInv, TypeOK
    <2>4. CodesOk' /\ RowLockOk' /\ CodesOfOneSetup' /\ CodeAdmitsOnce'
      BY <2>1, <2>2
      DEF LoginInv, CodesOk, RowLockOk, CodesOfOneSetup, CodeAdmitsOnce, Present
    <2> QED  BY <2>2, <2>3, <2>4, Zenon DEF LoginInv
  <1> QED  BY <1>1, <1>2, <1>3, <1>4, <1>5, Zenon DEF Next

LEMMA GuessesAreBounded == LoginInv => GuessesBounded
  <1> SUFFICES ASSUME LoginInv PROVE GuessesBounded
    BY Zenon
  <1> USE LoginAssumption
  <1>1. guesses \in Nat /\ faults \in Nat /\ failed \in 0..Attempts
    BY Zenon DEF LoginInv, TypeOK
  <1>2. Least(failed, Attempts - 1) <= Attempts - 1 /\ Least(failed, Attempts - 1) \in Int
    BY <1>1 DEF Least
  <1>3. /\ Cardinality(MayGuess) \in Nat /\ Cardinality(Counting) \in Nat /\ Cardinality(Logins) \in Nat
        /\ Cardinality(Counting) <= Cardinality(Logins)
    BY FS_Subset, FS_CardinalityType, Zenon DEF MayGuess, Counting
  <1>4. \/ guesses + Cardinality(MayGuess) <= Attempts - 1 + Cardinality(Logins) + faults
        \/ guesses <= Least(failed, Attempts - 1) + Cardinality(Counting) + faults
    BY Zenon DEF LoginInv, GuessInv
  <1> HIDE DEF MayGuess, Counting, Least
  <1>5. guesses <= Attempts - 1 + Cardinality(Logins) + faults
    BY <1>1, <1>2, <1>3, <1>4
  <1> QED  BY <1>5, Zenon DEF GuessesBounded

\* However calls of login, the lockout and calls of enableTotp overlap: a backup
\* code opens one session at most, only the codes of the last setup count, and
\* wrong logins are looked at Attempts times and once more for each call that
\* was on its way or failed, before the account is locked.
THEOREM LoginsStayBounded == Spec => []LoginsAreBounded
  <1>1. LoginInv => LoginsAreBounded
    BY GuessesAreBounded, Zenon DEF LoginInv, LoginsAreBounded
  <1> QED  BY <1>1, LoginInvInit, LoginInvNext, PTL DEF Spec
=============================================================================
