------------------------ MODULE CounterpartiesProofs ------------------------
(***************************************************************************)
(* What is proved of Counterparties for any numbers of addresses, secrets, *)
(* endpoints and concurrent requests.  Each part has an invariant of its   *)
(* own, which the steps of the others leave alone.                         *)
(***************************************************************************)
EXTENDS Counterparties, TLAPS

-----------------------------------------------------------------------------
(* Accounts at the pools *)

Rows == [account : Pools!Keys, terms : Pools!Terms]
EditFields == {"step", "id", "key", "account", "dto", "before", "peers"}

\* What an edit carries at each of its steps.
EditOK(x) ==
  /\ DOMAIN x = EditFields
  /\ x.step \in {"idle", "create", "peers", "update"}
  /\ x.step # "idle" => x.id \in Endpoints /\ x.account \in Pools!Keys
  /\ x.step = "create" => x.before = None /\ x.dto \in Pools!Terms
  /\ x.step \in {"peers", "update"} =>
       /\ x.before \in Rows /\ x.dto \in Pools!Dtos
       /\ x.account = IF x.key = None THEN x.before.account ELSE x.key

\* Rows are not deleted: those that an edit is about are there.
There(x) ==
  /\ x.step \in {"peers", "update"} => row[x.id] # None
  /\ x.step = "update" => \A p \in x.peers : p.id \in Endpoints /\ row[p.id] # None

PoolType ==
  /\ row \in [Endpoints -> {None} \cup Rows]
  /\ DOMAIN edit = Editors
  /\ \A a \in Editors : EditOK(edit[a]) /\ There(edit[a])

Alone(a) == \A b \in Editors \ {a} : edit[b].step = "idle"

\* What the edit x has read is how things are.  An edit that moves an endpoint
\* has read terms too, the others only who is in the account.
ReadIsCurrent(x) ==
  /\ x.step = "create" => \/ x.peers = {} /\ Pools!Of(x.account) = {}
                          \/ \E p \in Pools!Of(x.account) : x.peers = {[id |-> p, terms |-> row[p].terms]}
  /\ x.step \in {"peers", "update"} =>
       /\ row[x.id] # None /\ row[x.id].account = x.before.account
       /\ Pools!Moves(x) => row[x.id] = x.before
  /\ x.step = "update" =>
       /\ {p.id : p \in x.peers} = Pools!Of(x.account) \ {x.id}
       /\ Pools!Moves(x) => \A p \in x.peers : p.terms = row[p.id].terms

\* The inductive invariant: as long as no edit that moves an endpoint has
\* overlapped another one, those that move are alone and nothing read is stale.
PoolInv ==
  /\ PoolType
  /\ ~crossed =>
       /\ Pools!Agree
       /\ \A a \in Editors : Pools!Moves(edit[a]) => Alone(a)
       /\ \A a \in Editors : ReadIsCurrent(edit[a])

LEMMA RowIsNotNone == \A x \in Rows : x # None
  BY CounterpartiesAssumption, Zenon DEF Rows, Pools!Keys, Pools!Terms

LEMMA PoolInit == Pools!Init => PoolInv
  <1> SUFFICES ASSUME Pools!Init PROVE PoolInv
    BY Zenon
  <1>1. \A a \in Editors : edit[a] = Pools!NoEdit
    BY Zenon DEF Pools!Init
  <1>2. PoolType
    BY <1>1, Zenon DEF PoolType, EditOK, There, EditFields, Pools!Init, Pools!NoEdit, Rows
  <1>3. \A a \in Editors : ReadIsCurrent(edit[a]) /\ ~Pools!Moves(edit[a])
    BY <1>1 DEF ReadIsCurrent, Pools!NoEdit, Pools!Moves
  <1> QED  BY <1>2, <1>3, Zenon DEF PoolInv, Pools!Init

\* An edit that begins: what it has read is current, and it is alone if it moves.
LEMMA BeginKeeps ==
  ASSUME PoolInv, NEW a \in Editors, NEW x, Pools!Begin(a, x), EditOK(x), x.step \in {"create", "peers"},
         ReadIsCurrent(x)
  PROVE  PoolInv'
  <1>1. /\ edit[a].step = "idle" /\ row' = row
        /\ DOMAIN edit' = Editors
        /\ \A b \in Editors : edit'[b] = IF b = a THEN x ELSE edit[b]
    BY Zenon DEF Pools!Begin, PoolInv, PoolType
  <1>2. PoolType'
    <2>1. There(x)
      BY Zenon DEF There, ReadIsCurrent
    <2>2. \A y : There(y)' <=> There(y)
      BY <1>1, Zenon DEF There
    <2> QED  BY <1>1, <2>1, <2>2, Zenon DEF PoolInv, PoolType
  <1>3. ASSUME ~crossed'
        PROVE  /\ Pools!Agree'
               /\ \A b \in Editors : Pools!Moves(edit[b])' => Alone(b)'
               /\ \A b \in Editors : ReadIsCurrent(edit[b])'
    <2>1. ~crossed /\ ~Pools!Crosses(a, x)
      BY <1>3, Zenon DEF Pools!Begin
    <2>2. Pools!Agree'
      BY <1>1, <2>1, Zenon DEF PoolInv, Pools!Agree, Pools!Existing
    <2>3. \A y : ReadIsCurrent(y)' <=> ReadIsCurrent(y)
      BY <1>1 DEF ReadIsCurrent, Pools!Of, Pools!Existing, Pools!Moves
    <2>4. \A b \in Editors : ReadIsCurrent(edit[b])'
      BY <1>1, <2>1, <2>3, Zenon DEF PoolInv
    <2>5. ASSUME NEW b \in Editors, Pools!Moves(edit'[b]) PROVE Alone(b)'
      <3>1. CASE b = a
        <4>1. Pools!Moves(x)
          BY <1>1, <2>5, <3>1, Zenon
        <4>2. \A c \in Editors \ {a} : edit[c].step = "idle"
          BY <2>1, <4>1, Zenon DEF Pools!Crosses
        <4> QED  BY <1>1, <3>1, <4>2, Zenon DEF Alone
      <3>2. CASE b # a
        <4>1. Pools!Moves(edit[b])
          BY <1>1, <2>5, <3>2, Zenon
        <4>2. edit[b].step # "idle"
          BY <4>1, Zenon DEF Pools!Moves
        <4> QED  BY <2>1, <3>2, <4>1, <4>2, Zenon DEF Pools!Crosses
      <3> QED  BY <3>1, <3>2, Zenon
    <2> QED  BY <2>2, <2>4, <2>5, Zenon
  <1> QED  BY <1>2, <1>3, Zenon DEF PoolInv

\* An edit that ends without writing.
LEMMA EndKeeps ==
  ASSUME PoolInv, NEW a \in Editors, row' = row, crossed' = crossed,
         edit' = [edit EXCEPT ![a] = Pools!NoEdit]
  PROVE  PoolInv'
  <1>1. /\ DOMAIN edit' = Editors
        /\ \A b \in Editors : edit'[b] = IF b = a THEN Pools!NoEdit ELSE edit[b]
    BY Zenon DEF PoolInv, PoolType
  <1>2. PoolType'
    <2>1. EditOK(Pools!NoEdit) /\ There(Pools!NoEdit)
      BY Zenon DEF EditOK, There, EditFields, Pools!NoEdit
    <2>2. \A y : There(y)' <=> There(y)
      BY Zenon DEF There
    <2> QED  BY <1>1, <2>1, <2>2, Zenon DEF PoolInv, PoolType
  <1>3. ASSUME ~crossed'
        PROVE  /\ Pools!Agree'
               /\ \A b \in Editors : Pools!Moves(edit'[b]) => Alone(b)'
               /\ \A b \in Editors : ReadIsCurrent(edit[b])'
    <2>1. ~crossed /\ Pools!Agree'
      BY <1>3, Zenon DEF PoolInv, Pools!Agree, Pools!Existing
    <2>2. \A y : ReadIsCurrent(y)' <=> ReadIsCurrent(y)
      BY DEF ReadIsCurrent, Pools!Of, Pools!Existing, Pools!Moves
    <2>3. ReadIsCurrent(Pools!NoEdit) /\ ~Pools!Moves(Pools!NoEdit) /\ Pools!NoEdit.step = "idle"
      BY Zenon DEF ReadIsCurrent, Pools!NoEdit, Pools!Moves
    <2>4. \A b \in Editors : ReadIsCurrent(edit[b])'
      BY <1>1, <2>1, <2>2, <2>3, Zenon DEF PoolInv
    <2>5. \A b \in Editors : Pools!Moves(edit'[b]) => Alone(b)'
      BY <1>1, <2>1, <2>3 DEF PoolInv, Alone
    <2> QED  BY <2>1, <2>4, <2>5, Zenon
  <1> QED  BY <1>2, <1>3, Zenon DEF PoolInv

\* What findMany gives of a set of endpoints.
LEMMA PeerIds ==
  ASSUME NEW S
  PROVE  LET found == {[id |-> p, terms |-> row[p].terms] : p \in S}
         IN  {p.id : p \in found} = S /\ \A p \in found : p.terms = row[p.id].terms
  <1> DEFINE found == {[id |-> p, terms |-> row[p].terms] : p \in S}
  <1>1. \A q \in found : q.id \in S /\ q.terms = row[q.id].terms
    OBVIOUS
  <1>2. ASSUME NEW p \in S PROVE \E q \in found : q.id = p
    <2>1. [id |-> p, terms |-> row[p].terms] \in found
      BY Zenon
    <2>2. [id |-> p, terms |-> row[p].terms].id = p
      BY Zenon
    <2> QED  BY <2>1, <2>2, Zenon
  <1> HIDE DEF found
  <1>3. {p.id : p \in found} = S
    BY <1>1, <1>2, Zenon
  <1> QED  BY <1>1, <1>3, Zenon DEF found

LEMMA CreateBegins ==
  ASSUME PoolInv, NEW a \in Editors, NEW e \in Endpoints, NEW terms \in Pools!Terms,
         NEW account \in Accounts \cup {e}, Pools!CreateFinds(a, e, account, terms)
  PROVE  PoolInv'
  <1>1. PICK peers \in {{p} : p \in Pools!Of(account)} \cup {q \in {{}} : Pools!Of(account) = {}} :
          Pools!Begin(a, [step |-> "create", id |-> e, key |-> account, account |-> account, dto |-> terms,
                          before |-> None, peers |-> {[id |-> p, terms |-> row[p].terms] : p \in peers}])
    BY Zenon DEF Pools!CreateFinds
  <1> DEFINE found == {[id |-> p, terms |-> row[p].terms] : p \in peers}
             x == [step |-> "create", id |-> e, key |-> account, account |-> account, dto |-> terms,
                   before |-> None, peers |-> found]
  <1>2. EditOK(x) /\ x.step = "create" /\ x.account = account /\ x.peers = found
    BY Zenon DEF EditOK, EditFields, Pools!Keys
  <1>3. \/ found = {} /\ Pools!Of(account) = {}
        \/ \E p \in Pools!Of(account) : found = {[id |-> p, terms |-> row[p].terms]}
    <2>1. CASE peers = {} /\ Pools!Of(account) = {}
      BY <2>1, Zenon
    <2>2. CASE \E p \in Pools!Of(account) : peers = {p}
      BY <2>2, Zenon
    <2> QED  BY <1>1, <2>1, <2>2, Zenon
  <1>4. ReadIsCurrent(x)
    BY <1>2, <1>3, Zenon DEF ReadIsCurrent
  <1>5. Pools!Begin(a, x)
    BY <1>1, Zenon
  <1> HIDE DEF x
  <1> QED  BY <1>2, <1>4, <1>5, BeginKeeps, Zenon

LEMMA UpdateBegins ==
  ASSUME PoolInv, NEW a \in Editors, NEW e \in Endpoints, NEW key \in Pools!Keys \cup {None},
         NEW dto \in Pools!Dtos, Pools!UpdateReads(a, e, key, dto)
  PROVE  PoolInv'
  <1> DEFINE account == IF key = None THEN row[e].account ELSE key
             x == [step |-> "peers", id |-> e, key |-> key, account |-> account, dto |-> dto,
                   before |-> row[e], peers |-> {}]
  <1>1. row[e] # None /\ Pools!Begin(a, x)
    BY Zenon DEF Pools!UpdateReads
  <1>2. row[e] \in Rows
    BY <1>1, Zenon DEF PoolInv, PoolType
  <1>3. account \in Pools!Keys
    BY <1>2, Zenon DEF Rows
  <1>4. EditOK(x)
    BY <1>2, <1>3, Zenon DEF EditOK, EditFields
  <1>5. ReadIsCurrent(x) /\ x.step = "peers"
    BY <1>1, Zenon DEF ReadIsCurrent
  <1> HIDE DEF x
  <1> QED  BY <1>1, <1>4, <1>5, BeginKeeps, Zenon

LEMMA PeersFound ==
  ASSUME PoolInv, NEW a \in Editors, Pools!UpdateFindsPeers(a)
  PROVE  PoolInv'
  <1> DEFINE x == edit[a]
             found == {[id |-> p, terms |-> row[p].terms] : p \in Pools!Of(x.account) \ {x.id}}
             y == [x EXCEPT !.step = "update", !.peers = found]
  <1>0. x.step = "peers" /\ EditOK(x)
    BY Zenon DEF Pools!UpdateFindsPeers, PoolInv, PoolType
  <1>1. /\ DOMAIN edit' = Editors /\ row' = row /\ crossed' = crossed
        /\ \A b \in Editors : edit'[b] = IF b = a THEN y ELSE edit[b]
    BY <1>0, Zenon DEF Pools!UpdateFindsPeers, PoolInv, PoolType, EditOK, EditFields
  <1>2. /\ DOMAIN y = EditFields /\ y.step = "update" /\ y.peers = found
        /\ y.id = x.id /\ y.key = x.key /\ y.account = x.account /\ y.dto = x.dto /\ y.before = x.before
    BY <1>0, Zenon DEF EditOK, EditFields
  <1> HIDE DEF y
  <1>3. EditOK(y)
    BY <1>0, <1>2, Zenon DEF EditOK
  <1>4. PoolType'
    <2>1. There(y)
      <3>1. row[x.id] # None
        BY <1>0, Zenon DEF PoolInv, PoolType, There
      <3>2. \A p \in found : p.id \in Endpoints /\ row[p.id] # None
        BY DEF Pools!Of, Pools!Existing
      <3> QED  BY <1>2, <3>1, <3>2, Zenon DEF There
    <2>2. \A z : There(z)' <=> There(z)
      BY <1>1, Zenon DEF There
    <2> QED  BY <1>1, <1>3, <2>1, <2>2, Zenon DEF PoolInv, PoolType
  <1>5. ASSUME ~crossed'
        PROVE  /\ Pools!Agree'
               /\ \A b \in Editors : Pools!Moves(edit'[b]) => Alone(b)'
               /\ \A b \in Editors : ReadIsCurrent(edit[b])'
    <2>1. ~crossed /\ Pools!Agree'
      BY <1>1, <1>5, Zenon DEF PoolInv, Pools!Agree, Pools!Existing
    <2>2. \A z : ReadIsCurrent(z)' <=> ReadIsCurrent(z)
      BY <1>1 DEF ReadIsCurrent, Pools!Of, Pools!Existing, Pools!Moves
    <2>3. Pools!Moves(y) <=> Pools!Moves(x)
      BY <1>0, <1>2, Zenon DEF Pools!Moves
    <2>4. ReadIsCurrent(y)
      <3>1. ReadIsCurrent(x)
        BY <2>1, Zenon DEF PoolInv
      <3>2. {p.id : p \in found} = Pools!Of(x.account) \ {x.id} /\ \A p \in found : p.terms = row[p.id].terms
        BY PeerIds, Zenon
      <3> QED  BY <1>0, <1>2, <2>3, <3>1, <3>2, Zenon DEF ReadIsCurrent
    <2>5. \A b \in Editors : ReadIsCurrent(edit[b])'
      BY <1>1, <2>1, <2>2, <2>4, Zenon DEF PoolInv
    <2>6. \A b \in Editors : Pools!Moves(edit'[b]) => Alone(b)'
      <3>1. \A b \in Editors : edit'[b].step = "idle" <=> edit[b].step = "idle"
        BY <1>0, <1>1, <1>2, Zenon
      <3>2. \A b \in Editors : Pools!Moves(edit'[b]) => Pools!Moves(edit[b])
        BY <1>1, <2>3, Zenon
      <3> QED  BY <2>1, <3>1, <3>2, Zenon DEF PoolInv, Alone
    <2> QED  BY <2>1, <2>5, <2>6, Zenon
  <1> QED  BY <1>4, <1>5, Zenon DEF PoolInv

\* create inserts its row.
LEMMA CreateEnds ==
  ASSUME PoolInv, NEW a \in Editors, Pools!CreateInserts(a)
  PROVE  PoolInv'
  <1> DEFINE x == edit[a]
             new == [account |-> x.account, terms |-> x.dto]
  <1>0. /\ x.step = "create" /\ EditOK(x) /\ crossed' = crossed
        /\ edit' = [edit EXCEPT ![a] = Pools!NoEdit]
    BY Zenon DEF Pools!CreateInserts, PoolInv, PoolType
  <1>1. CASE ~Pools!Agrees(x.peers, x.dto)
    BY <1>0, <1>1, EndKeeps, Zenon DEF Pools!CreateInserts
  <1>2. CASE Pools!Agrees(x.peers, x.dto)
    <2>1. /\ new \in Rows /\ x.id \in Endpoints
          /\ DOMAIN edit' = Editors
          /\ \A b \in Editors : edit'[b] = IF b = a THEN Pools!NoEdit ELSE edit[b]
      BY <1>0, Zenon DEF EditOK, Rows, PoolInv, PoolType
    <2>2. /\ row' \in [Endpoints -> {None} \cup Rows]
          /\ row'[x.id] = new /\ \A e \in Endpoints \ {x.id} : row'[e] = row[e]
      BY <1>0, <1>2, <2>1, Zenon DEF Pools!CreateInserts, PoolInv, PoolType
    <2>3. new # None /\ new.account = x.account /\ new.terms = x.dto
      BY <2>1, RowIsNotNone, Zenon
    <2> HIDE DEF new
    <2>4. PoolType'
      <3>1. EditOK(Pools!NoEdit) /\ There(Pools!NoEdit)'
        BY Zenon DEF EditOK, There, EditFields, Pools!NoEdit
      <3>2. \A e \in Endpoints : row[e] # None => row'[e] # None
        BY <2>2, <2>3, Zenon
      <3>3. \A b \in Editors : There(edit[b]) /\ EditOK(edit[b])
        BY Zenon DEF PoolInv, PoolType
      <3>4. ASSUME NEW b \in Editors, b # a PROVE There(edit[b])'
        BY <2>1, <3>2, <3>3, <3>4, Zenon DEF There, EditOK
      <3> QED  BY <2>1, <2>2, <3>1, <3>3, <3>4, Zenon DEF PoolType
    <2>5. ASSUME ~crossed'
          PROVE  /\ Pools!Agree'
                 /\ \A b \in Editors : Pools!Moves(edit'[b]) => Alone(b)'
                 /\ \A b \in Editors : ReadIsCurrent(edit[b])'
      <3>1. Pools!Agree /\ ReadIsCurrent(x) /\ Alone(a)
        BY <1>0, <2>5, Zenon DEF PoolInv, Pools!Moves, EditOK
      <3>2. \A b \in Editors : edit'[b].step = "idle"
        BY <2>1, <3>1 DEF Alone, Pools!NoEdit
      <3>3. ASSUME NEW e \in Endpoints, e # x.id, row[e] # None, row[e].account = x.account
            PROVE  row[e].terms = x.dto
        <4>1. e \in Pools!Of(x.account)
          BY <3>3, Zenon DEF Pools!Of, Pools!Existing
        <4>2. PICK p \in Pools!Of(x.account) : x.peers = {[id |-> p, terms |-> row[p].terms]}
          BY <1>0, <3>1, <4>1, Zenon DEF ReadIsCurrent
        <4>3. row[p].terms = x.dto
          BY <1>2, <4>2 DEF Pools!Agrees
        <4> QED  BY <3>1, <4>1, <4>2, <4>3, Zenon DEF Pools!Agree, Pools!Of
      <3>4. Pools!Agree'
        <4> SUFFICES ASSUME NEW d \in Endpoints, NEW e \in Endpoints, row'[d] # None, row'[e] # None,
                            row'[d].account = row'[e].account
                     PROVE  row'[d].terms = row'[e].terms
          BY Zenon DEF Pools!Agree, Pools!Existing
        <4>1. CASE d # x.id /\ e # x.id
          BY <2>2, <3>1, <4>1 DEF Pools!Agree, Pools!Existing
        <4>2. CASE d = x.id /\ e # x.id
          BY <2>2, <2>3, <3>3, <4>2, Zenon
        <4>3. CASE d # x.id /\ e = x.id
          BY <2>2, <2>3, <3>3, <4>3, Zenon
        <4> QED  BY <4>1, <4>2, <4>3, Zenon
      <3> QED  BY <3>2, <3>4, Zenon DEF ReadIsCurrent, Pools!Moves
    <2> QED  BY <2>4, <2>5, Zenon DEF PoolInv
  <1> QED  BY <1>1, <1>2, Zenon

\* update writes its rows.  One that moves an endpoint was alone and has compared
\* the terms; another one changes all endpoints of the account alike.
LEMMA UpdateEnds ==
  ASSUME PoolInv, NEW a \in Editors, Pools!UpdateCommits(a)
  PROVE  PoolInv'
  <1> DEFINE x == edit[a]
             W == Pools!Written(x)
             to(e) == IF e = x.id /\ x.key # None THEN x.key ELSE row[e].account
             terms(e) == Pools!Amended(row[e].terms, x.dto)
             refused == Pools!Joining(x) /\ ~Pools!Agrees(x.peers, Pools!Amended(x.before.terms, x.dto))
  <1>0. /\ x.step = "update" /\ EditOK(x) /\ There(x) /\ crossed' = crossed
        /\ edit' = [edit EXCEPT ![a] = Pools!NoEdit]
    BY Zenon DEF Pools!UpdateCommits, PoolInv, PoolType
  <1>1. CASE refused
    BY <1>0, <1>1, EndKeeps, Zenon DEF Pools!UpdateCommits
  <1>2. CASE ~refused
    <2>1. /\ DOMAIN edit' = Editors
          /\ \A b \in Editors : edit'[b] = IF b = a THEN Pools!NoEdit ELSE edit[b]
      BY <1>0, Zenon DEF PoolInv, PoolType
    <2>2. /\ x.before \in Rows /\ x.dto \in Pools!Dtos /\ x.id \in Endpoints /\ x.account \in Pools!Keys
          /\ x.account = IF x.key = None THEN x.before.account ELSE x.key
          /\ x.before # None /\ (Pools!Moves(x) <=> Pools!Joining(x))
      BY <1>0, RowIsNotNone, Zenon DEF EditOK, Pools!Moves, Pools!Joining
    <2>3. W \subseteq Endpoints /\ x.id \in W /\ \A e \in W : row[e] \in Rows
      <3>1. \A e \in W : e \in Endpoints /\ row[e] # None
        BY <1>0, <2>2, Zenon DEF There, Pools!Written
      <3> QED  BY <3>1, Zenon DEF PoolInv, PoolType, Pools!Written
    <2>4. row' = [e \in Endpoints |-> IF e \in W THEN [account |-> to(e), terms |-> terms(e)] ELSE row[e]]
      BY <1>2, Zenon DEF Pools!UpdateCommits
    <2>5. ASSUME NEW e \in W PROVE to(e) \in Pools!Keys /\ terms(e) \in Pools!Terms
      <3>1. row[e].account \in Pools!Keys /\ row[e].terms \in Pools!Terms
        BY <2>3, Zenon DEF Rows
      <3>2. to(e) \in Pools!Keys
        BY <2>2, <3>1, Zenon
      <3>3. terms(e) \in Pools!Terms
        BY <2>2, <3>1, Zenon DEF Pools!Terms, Pools!Dtos, Pools!Amended
      <3> QED  BY <3>2, <3>3, Zenon
    <2>6. /\ row' \in [Endpoints -> {None} \cup Rows]
          /\ \A e \in W : row'[e] # None /\ row'[e].account = to(e) /\ row'[e].terms = terms(e)
          /\ \A e \in Endpoints \ W : row'[e] = row[e]
      <3>1. \A e \in W : [account |-> to(e), terms |-> terms(e)] \in Rows
        BY <2>5, Zenon DEF Rows
      <3>2. \A e \in Endpoints : row[e] \in {None} \cup Rows
        BY Zenon DEF PoolInv, PoolType
      <3> HIDE DEF W, to, terms
      <3> QED  BY <2>3, <2>4, <3>1, <3>2, RowIsNotNone, Zenon
    <2> HIDE DEF W, terms, refused
    <2>7. PoolType'
      <3>1. EditOK(Pools!NoEdit) /\ There(Pools!NoEdit)'
        BY Zenon DEF EditOK, There, EditFields, Pools!NoEdit
      <3>2. \A e \in Endpoints : row[e] # None => row'[e] # None
        BY <2>6, Zenon
      <3>3. \A b \in Editors : There(edit[b]) /\ EditOK(edit[b])
        BY Zenon DEF PoolInv, PoolType
      <3>4. ASSUME NEW b \in Editors, b # a PROVE There(edit[b])'
        BY <2>1, <3>2, <3>3, <3>4, Zenon DEF There, EditOK
      <3> QED  BY <2>1, <2>6, <3>1, <3>3, <3>4, Zenon DEF PoolType
    <2>8. ASSUME ~crossed', Pools!Moves(x)
          PROVE  /\ Pools!Agree'
                 /\ \A b \in Editors : Pools!Moves(edit'[b]) => Alone(b)'
                 /\ \A b \in Editors : ReadIsCurrent(edit[b])'
      <3>1. Pools!Agree /\ ReadIsCurrent(x) /\ Alone(a)
        BY <1>0, <2>8, Zenon DEF PoolInv
      <3>2. \A b \in Editors : edit'[b].step = "idle"
        BY <2>1, <3>1 DEF Alone, Pools!NoEdit
      <3>3. /\ row[x.id] = x.before /\ W = {x.id} /\ to(x.id) = x.account
            /\ Pools!Agrees(x.peers, terms(x.id))
        BY <1>0, <1>2, <2>2, <2>8, <3>1, Zenon DEF ReadIsCurrent, W, terms, refused, Pools!Written, Pools!Joining
      <3>4. ASSUME NEW e \in Endpoints, e # x.id, row[e] # None, row[e].account = x.account
            PROVE  row[e].terms = terms(x.id)
        <4>1. e \in Pools!Of(x.account) \ {x.id}
          BY <3>4, Zenon DEF Pools!Of, Pools!Existing
        <4>2. PICK p \in x.peers : p.id = e
          BY <1>0, <3>1, <4>1 DEF ReadIsCurrent
        <4>3. p.terms = row[e].terms
          BY <1>0, <2>8, <3>1, <4>2, Zenon DEF ReadIsCurrent
        <4> QED  BY <3>3, <4>2, <4>3, Zenon DEF Pools!Agrees
      <3>5. Pools!Agree'
        <4> SUFFICES ASSUME NEW d \in Endpoints, NEW e \in Endpoints, row'[d] # None, row'[e] # None,
                            row'[d].account = row'[e].account
                     PROVE  row'[d].terms = row'[e].terms
          BY Zenon DEF Pools!Agree, Pools!Existing
        <4>1. CASE d # x.id /\ e # x.id
          BY <2>6, <3>1, <3>3, <4>1 DEF Pools!Agree, Pools!Existing
        <4>2. CASE d = x.id /\ e # x.id
          BY <2>6, <3>3, <3>4, <4>2
        <4>3. CASE d # x.id /\ e = x.id
          BY <2>6, <3>3, <3>4, <4>3
        <4> QED  BY <4>1, <4>2, <4>3, Zenon
      <3> QED  BY <3>2, <3>5, Zenon DEF ReadIsCurrent, Pools!Moves
    <2>9. ASSUME ~crossed', ~Pools!Moves(x)
          PROVE  /\ Pools!Agree'
                 /\ \A b \in Editors : Pools!Moves(edit'[b]) => Alone(b)'
                 /\ \A b \in Editors : ReadIsCurrent(edit[b])'
      <3>1. Pools!Agree /\ ReadIsCurrent(x) /\ ~crossed
        BY <1>0, <2>9, Zenon DEF PoolInv
      <3>2. x.account = x.before.account /\ row[x.id].account = x.account /\ row[x.id] # None
        BY <1>0, <2>2, <2>9, <3>1, Zenon DEF ReadIsCurrent, Pools!Joining
      <3>3. W = Pools!Of(x.account)
        <4>1. x.id \in Pools!Of(x.account)
          BY <2>2, <3>2, Zenon DEF Pools!Of, Pools!Existing
        <4>2. W = {x.id} \cup {p.id : p \in x.peers}
          BY <2>2, <2>9, Zenon DEF W, Pools!Written
        <4>3. {p.id : p \in x.peers} = Pools!Of(x.account) \ {x.id}
          BY <1>0, <3>1, Zenon DEF ReadIsCurrent
        <4> QED  BY <4>1, <4>2, <4>3, Zenon
      <3>4. \A e \in Endpoints : /\ row'[e] # None <=> row[e] # None
                                 /\ row'[e].account = row[e].account
        BY <2>2, <2>3, <2>6, <3>2, RowIsNotNone, Zenon
      <3>5. \A k : Pools!Of(k)' = Pools!Of(k)
        BY <3>4, Zenon DEF Pools!Of, Pools!Existing
      <3>6. Pools!Agree'
        <4> SUFFICES ASSUME NEW d \in Endpoints, NEW e \in Endpoints, row'[d] # None, row'[e] # None,
                            row'[d].account = row'[e].account
                     PROVE  row'[d].terms = row'[e].terms
          BY Zenon DEF Pools!Agree, Pools!Existing
        <4>1. row[d] # None /\ row[e] # None /\ row[d].account = row[e].account
          BY <3>4, Zenon
        <4>2. row[d].terms = row[e].terms
          BY <3>1, <4>1, Zenon DEF Pools!Agree, Pools!Existing
        <4>3. d \in W <=> e \in W
          BY <3>3, <4>1, Zenon DEF Pools!Of, Pools!Existing
        <4> QED  BY <2>6, <4>2, <4>3, Zenon DEF terms
      <3>7. ASSUME NEW b \in Editors PROVE ~Pools!Moves(edit'[b]) /\ ReadIsCurrent(edit[b])'
        <4>1. CASE b = a
          BY <2>1, <4>1 DEF Pools!NoEdit, Pools!Moves, ReadIsCurrent
        <4>2. CASE b # a
          <5>1. edit'[b] = edit[b] /\ ReadIsCurrent(edit[b]) /\ EditOK(edit[b])
            BY <2>1, <3>1, <4>2, Zenon DEF PoolInv, PoolType
          <5>2. ~Pools!Moves(edit[b])
            BY <1>0, <3>1, <4>2, Zenon DEF PoolInv, Alone
          <5>3. edit[b].step # "create"
            BY <5>1, <5>2, Zenon DEF EditOK, Pools!Moves
          <5> QED  BY <3>4, <3>5, <5>1, <5>2, <5>3, Zenon DEF ReadIsCurrent, EditOK
        <4> QED  BY <4>1, <4>2, Zenon
      <3> QED  BY <3>6, <3>7, Zenon
    <2> QED  BY <2>7, <2>8, <2>9, Zenon DEF PoolInv
  <1> QED  BY <1>1, <1>2, Zenon

LEMMA PoolStep == PoolInv /\ Pools!Next => PoolInv'
  <1> SUFFICES ASSUME PoolInv, NEW a \in Editors,
                      \/ \E e \in Endpoints, terms \in Pools!Terms : \E account \in Accounts \cup {e} :
                           Pools!CreateFinds(a, e, account, terms)
                      \/ \E e \in Endpoints, key \in Pools!Keys \cup {None}, dto \in Pools!Dtos :
                           Pools!UpdateReads(a, e, key, dto)
                      \/ Pools!CreateInserts(a) \/ Pools!UpdateFindsPeers(a) \/ Pools!UpdateCommits(a)
                      \/ Pools!EditFails(a)
               PROVE  PoolInv'
    BY Zenon DEF Pools!Next
  <1>1. Pools!EditFails(a) => PoolInv'
    BY EndKeeps, Zenon DEF Pools!EditFails
  <1> QED  BY <1>1, CreateBegins, UpdateBegins, CreateEnds, PeersFound, UpdateEnds, Zenon

\* What does not touch the endpoints keeps the invariant.
LEMMA PoolsStay == PoolInv /\ UNCHANGED poolVars => PoolInv'
  <1> SUFFICES ASSUME PoolInv, row' = row, edit' = edit, crossed' = crossed PROVE PoolInv'
    BY Zenon DEF poolVars
  <1>1. \A x : There(x)' <=> There(x)
    BY Zenon DEF There
  <1>2. \A x : ReadIsCurrent(x)' <=> ReadIsCurrent(x)
    BY DEF ReadIsCurrent, Pools!Of, Pools!Existing, Pools!Moves
  <1>3. Pools!Agree' <=> Pools!Agree
    BY Zenon DEF Pools!Agree, Pools!Existing
  <1>4. \A a : Alone(a)' <=> Alone(a)
    BY Zenon DEF Alone
  <1> QED  BY <1>1, <1>2, <1>3, <1>4, Zenon DEF PoolInv, PoolType

-----------------------------------------------------------------------------
(* The secrets of a customer *)

\* Tokens carry an end or none.
TokenType ==
  /\ now \in Nat
  /\ DOMAIN token \subseteq Access!Secrets
  /\ \A c \in DOMAIN token : /\ DOMAIN token[c] = {"expires", "revoked"}
                             /\ token[c].expires \in Nat \cup {Never}
  /\ DOMAIN replaced = Access!Secrets
  /\ \A c \in Access!Secrets : replaced[c] \in Nat \cup {Never}
  /\ DOMAIN rotation = Admins
  /\ \A a \in Admins : /\ DOMAIN rotation[a] = {"step", "expires", "seen"}
                       /\ rotation[a].seen \subseteq DOMAIN token
                       /\ rotation[a].step = "update" =>
                            rotation[a].expires \in Nat /\ rotation[a].expires <= now + Grace

\* The inductive invariant: a token has an end exactly from the first rotation
\* that replaced it, and there is one without an end or one that was revoked.
TokenInv ==
  /\ TokenType
  /\ \A c \in Access!Secrets : replaced[c] # Never =>
       /\ c \in DOMAIN token
       /\ token[c].revoked \/ (token[c].expires \in Nat /\ token[c].expires <= replaced[c] + Grace)
  /\ \A c \in DOMAIN token : token[c].expires # Never => replaced[c] # Never
  /\ \E c \in DOMAIN token : token[c].revoked \/ token[c].expires = Never

LEMMA TokenInit == Access!Init => TokenInv
  <1> SUFFICES ASSUME Access!Init PROVE TokenInv
    BY Zenon
  <1>1. /\ DOMAIN token = {1} /\ token[1] = [expires |-> Never, revoked |-> FALSE]
        /\ now = 0 /\ rotation = [a \in Admins |-> Access!NoRotation]
        /\ replaced = [c \in Access!Secrets |-> Never]
    BY Zenon DEF Access!Init
  <1>2. 1 \in Access!Secrets
    BY CounterpartiesAssumption DEF Access!Secrets
  <1>3. \A a \in Admins : /\ DOMAIN rotation[a] = {"step", "expires", "seen"}
                          /\ rotation[a].seen = {} /\ rotation[a].step = "idle"
    BY <1>1, Zenon DEF Access!NoRotation
  <1>4. \A c \in DOMAIN token : DOMAIN token[c] = {"expires", "revoked"} /\ token[c].expires = Never
    BY <1>1
  <1>5. TokenType
    BY <1>1, <1>2, <1>3, <1>4, Zenon DEF TokenType
  <1> QED  BY <1>1, <1>4, <1>5, Zenon DEF TokenInv

LEMMA RotationBegins ==
  ASSUME TokenInv, NEW a \in Admins, Access!RotateCredential(a)
  PROVE  TokenInv'
  <1>1. Access!Lasting \subseteq DOMAIN token
    BY Zenon DEF Access!Lasting, Access!Tokens
  <1> DEFINE x == [step |-> "update", expires |-> now + Grace, seen |-> Access!Lasting]
  <1>2. /\ DOMAIN rotation' = Admins /\ UNCHANGED <<now, token, replaced>>
        /\ \A b \in Admins : rotation'[b] = IF b = a THEN x ELSE rotation[b]
    BY Zenon DEF Access!RotateCredential, TokenInv, TokenType
  <1>3. /\ DOMAIN x = {"step", "expires", "seen"} /\ x.seen \subseteq DOMAIN token
        /\ x.expires \in Nat /\ x.expires <= now + Grace
    BY <1>1, CounterpartiesAssumption DEF TokenInv, TokenType
  <1> HIDE DEF x
  <1>4. TokenType'
    BY <1>2, <1>3, Zenon DEF TokenInv, TokenType
  <1> QED  BY <1>2, <1>4, Zenon DEF TokenInv

\* The transaction of a rotation: the new token is another one, and what the
\* rotation had seen has an end, its own or an earlier one.
LEMMA RotationEnds ==
  ASSUME TokenInv, NEW a \in Admins, Access!RotationCommits(a)
  PROVE  TokenInv'
  <1> DEFINE old == DOMAIN token
             ended == rotation[a].seen \cap Access!Lasting
  <1>1. PICK new \in Access!Secrets \ old :
          token' = [c \in old \cup {new} |->
                      IF c = new THEN [expires |-> Never, revoked |-> FALSE]
                      ELSE IF c \in ended THEN [token[c] EXCEPT !.expires = rotation[a].expires]
                      ELSE token[c]]
    BY Zenon DEF Access!RotationCommits, Access!Unissued, Access!Tokens
  <1>2. /\ rotation[a].step = "update" /\ now' = now
        /\ replaced' = [c \in Access!Secrets |->
                          IF c \in rotation[a].seen /\ replaced[c] = Never THEN now ELSE replaced[c]]
        /\ rotation' = [rotation EXCEPT ![a] = Access!NoRotation]
    BY Zenon DEF Access!RotationCommits
  <1>3. /\ DOMAIN token' = old \cup {new} /\ new \notin old
        /\ token'[new].expires = Never /\ token'[new].revoked = FALSE
        /\ DOMAIN token'[new] = {"expires", "revoked"}
    BY <1>1, Zenon
  <1>4. /\ rotation[a].expires \in Nat /\ rotation[a].expires <= now + Grace
        /\ rotation[a].seen \subseteq old /\ ended \subseteq rotation[a].seen
        /\ old \subseteq Access!Secrets
    BY <1>2, Zenon DEF TokenInv, TokenType
  <1>5. \A c \in old : /\ DOMAIN token'[c] = {"expires", "revoked"} /\ token'[c].revoked = token[c].revoked
                       /\ token'[c].expires = IF c \in ended THEN rotation[a].expires ELSE token[c].expires
    <2> SUFFICES ASSUME NEW c \in old
                 PROVE  /\ DOMAIN token'[c] = {"expires", "revoked"} /\ token'[c].revoked = token[c].revoked
                        /\ token'[c].expires = IF c \in ended THEN rotation[a].expires ELSE token[c].expires
      BY Zenon
    <2>1. DOMAIN token[c] = {"expires", "revoked"}
      BY Zenon DEF TokenInv, TokenType
    <2>2. token'[c] = IF c \in ended THEN [token[c] EXCEPT !.expires = rotation[a].expires] ELSE token[c]
      BY <1>1, Zenon
    <2> HIDE DEF ended
    <2> QED  BY <2>1, <2>2, Zenon
  <1>6. \A c \in ended : token[c].expires = Never /\ c \in old
    BY <1>4, Zenon DEF Access!Lasting
  <1> HIDE DEF ended
  <1>7. TokenType'
    <2>1. \A c \in DOMAIN token' : DOMAIN token'[c] = {"expires", "revoked"} /\ token'[c].expires \in Nat \cup {Never}
      BY <1>3, <1>4, <1>5, Zenon DEF TokenInv, TokenType
    <2>2. DOMAIN replaced' = Access!Secrets /\ \A c \in Access!Secrets : replaced'[c] \in Nat \cup {Never}
      BY <1>2, Zenon DEF TokenInv, TokenType
    <2>3. \A b \in Admins : rotation'[b] = IF b = a THEN Access!NoRotation ELSE rotation[b]
      BY <1>2, Zenon DEF TokenInv, TokenType
    <2>4. \A b \in Admins : /\ DOMAIN rotation'[b] = {"step", "expires", "seen"}
                            /\ rotation'[b].seen \subseteq DOMAIN token'
                            /\ rotation'[b].step = "update" =>
                                 rotation'[b].expires \in Nat /\ rotation'[b].expires <= now + Grace
      BY <1>3, <2>3 DEF TokenInv, TokenType, Access!NoRotation
    <2>5. DOMAIN rotation' = Admins /\ now \in Nat /\ DOMAIN token' \subseteq Access!Secrets
      BY <1>1, <1>2, <1>3, <1>4, Zenon DEF TokenInv, TokenType
    <2> QED  BY <1>2, <2>1, <2>2, <2>4, <2>5, Zenon DEF TokenType
  <1>8. ASSUME NEW c \in Access!Secrets, replaced'[c] # Never
        PROVE  /\ c \in DOMAIN token'
               /\ token'[c].revoked \/ (token'[c].expires \in Nat /\ token'[c].expires <= replaced'[c] + Grace)
    <2>1. CASE replaced[c] # Never
      <3>1. c \in old /\ replaced'[c] = replaced[c]
        BY <1>2, <2>1, Zenon DEF TokenInv
      <3>2. CASE token[c].revoked
        BY <1>3, <1>5, <3>1, <3>2, Zenon
      <3>3. CASE token[c].expires \in Nat /\ token[c].expires <= replaced[c] + Grace
        <4>1. c \notin ended
          BY <1>6, <3>3, CounterpartiesAssumption, Zenon
        <4> QED  BY <1>3, <1>5, <3>1, <3>3, <4>1, Zenon
      <3> QED  BY <2>1, <3>2, <3>3, Zenon DEF TokenInv
    <2>2. CASE replaced[c] = Never
      <3>1. c \in rotation[a].seen /\ replaced'[c] = now /\ c \in old
        BY <1>2, <1>4, <1>8, <2>2, Zenon
      <3>2. token[c].expires = Never
        BY <2>2, <3>1, Zenon DEF TokenInv
      <3>3. CASE token[c].revoked
        BY <1>3, <1>5, <3>1, <3>3, Zenon
      <3>4. CASE ~token[c].revoked
        <4>1. c \in ended
          BY <3>1, <3>2, <3>4, Zenon DEF ended, Access!Lasting, Access!Tokens
        <4> QED  BY <1>3, <1>4, <1>5, <3>1, <4>1, Zenon
      <3> QED  BY <3>3, <3>4, Zenon
    <2> QED  BY <2>1, <2>2, Zenon
  <1>9. ASSUME NEW c \in DOMAIN token', token'[c].expires # Never PROVE replaced'[c] # Never
    <2>1. c \in old /\ c \in Access!Secrets
      BY <1>3, <1>4, <1>9, Zenon
    <2>2. CASE c \in ended
      <3>1. now # Never
        BY CounterpartiesAssumption, Zenon DEF TokenInv, TokenType
      <3> QED  BY <1>2, <1>4, <2>1, <2>2, <3>1, Zenon
    <2>3. CASE c \notin ended
      <3>1. replaced[c] # Never
        BY <1>5, <1>9, <2>1, <2>3, Zenon DEF TokenInv
      <3> QED  BY <1>2, <2>1, <3>1, Zenon
    <2> QED  BY <2>2, <2>3, Zenon
  <1>10. \E c \in DOMAIN token' : token'[c].revoked \/ token'[c].expires = Never
    BY <1>3, Zenon
  <1> QED  BY <1>7, <1>8, <1>9, <1>10, Zenon DEF TokenInv

LEMMA TokenStep == TokenInv /\ Access!WorkerNext => TokenInv'
  <1> SUFFICES ASSUME TokenInv, Access!WorkerNext PROVE TokenInv'
    BY Zenon
  <1>1. CASE Access!Tick
    <2>1. now' = now + 1 /\ token' = token /\ rotation' = rotation /\ replaced' = replaced
      BY <1>1, Zenon DEF Access!Tick, Access!workerVars
    <2>2. TokenType'
      BY <2>1, CounterpartiesAssumption DEF TokenInv, TokenType
    <2> QED  BY <2>1, <2>2, Zenon DEF TokenInv
  <1>2. ASSUME NEW a \in Admins, Access!RotationFails(a) PROVE TokenInv'
    <2>1. /\ UNCHANGED <<now, token, replaced>> /\ DOMAIN rotation' = Admins
          /\ \A b \in Admins : rotation'[b] = IF b = a THEN Access!NoRotation ELSE rotation[b]
      BY <1>2, Zenon DEF Access!RotationFails, TokenInv, TokenType
    <2>2. TokenType'
      BY <2>1 DEF TokenInv, TokenType, Access!NoRotation
    <2> QED  BY <2>1, <2>2, Zenon DEF TokenInv
  <1>3. ASSUME NEW d \in Access!Secrets, Access!RevokeCredential(d) PROVE TokenInv'
    <2>1. /\ UNCHANGED <<now, rotation, replaced>> /\ DOMAIN token' = DOMAIN token /\ d \in DOMAIN token
          /\ \A c \in DOMAIN token : /\ DOMAIN token'[c] = {"expires", "revoked"}
                                     /\ token'[c].expires = token[c].expires
                                     /\ token'[c].revoked = IF c = d THEN TRUE ELSE token[c].revoked
      BY <1>3, Zenon DEF Access!RevokeCredential, Access!Tokens, TokenInv, TokenType
    <2>2. TokenType'
      BY <2>1, Zenon DEF TokenInv, TokenType
    <2>3. \A c \in Access!Secrets : replaced'[c] # Never =>
            /\ c \in DOMAIN token'
            /\ token'[c].revoked \/ (token'[c].expires \in Nat /\ token'[c].expires <= replaced'[c] + Grace)
      BY <2>1, Zenon DEF TokenInv
    <2> QED  BY <2>1, <2>2, <2>3, Zenon DEF TokenInv
  <1> QED  BY <1>1, <1>2, <1>3, RotationBegins, RotationEnds, Zenon DEF Access!WorkerNext

\* The access codes: the row has the one issued last, and a call that began with
\* an older one has a smaller number.
PortalInv ==
  /\ code = issued /\ issued \in Nat
  /\ DOMAIN visit = Visitors
  /\ \A v \in Visitors : /\ DOMAIN visit[v] = {"step", "code", "old"}
                         /\ visit[v].code \in 0..issued
                         /\ visit[v].old => visit[v].code # issued
                         /\ visit[v].step = "in" => ~visit[v].old

LEMMA PortalInit == Access!Init => PortalInv
  BY DEF Access!Init, PortalInv, Access!NoVisit

\* A call goes on to a step other than "in".
LEMMA VisitGoesOn ==
  ASSUME PortalInv, NEW v \in Visitors, NEW step, step # "in", Access!Visit(v, step),
         UNCHANGED <<code, issued>>
  PROVE  PortalInv'
  BY Zenon DEF PortalInv, Access!Visit

LEMMA PortalStep == PortalInv /\ Access!PortalNext => PortalInv'
  <1> SUFFICES ASSUME PortalInv, Access!PortalNext PROVE PortalInv'
    BY Zenon
  <1>1. CASE Access!RotatePortalAccess
    BY <1>1 DEF PortalInv, Access!RotatePortalAccess, Access!Upserted
  <1>2. CASE Access!MinuteEnds
    BY <1>2, Zenon DEF PortalInv, Access!MinuteEnds
  <1>3. ASSUME NEW v \in Visitors, NEW c \in 1..issued, Access!PortalCall(v, c) PROVE PortalInv'
    <2> DEFINE x == visit'[v]
    <2>1. /\ DOMAIN visit' = Visitors /\ UNCHANGED <<code, issued>>
          /\ \A w \in Visitors \ {v} : visit'[w] = visit[w]
          /\ DOMAIN x = {"step", "code", "old"} /\ x.code = c
          /\ x.step \in {"expire", "find", "idle"}
      BY <1>3, Zenon DEF PortalInv, Access!PortalCall
    <2>2. x.old = (c # issued)
      BY <1>3, Zenon DEF PortalInv, Access!PortalCall
    <2>3. x.old => c # issued
      BY <2>2, Zenon
    <2> HIDE DEF x
    <2>4. c \in 0..issued /\ x.step # "in"
      BY <2>1 DEF PortalInv
    <2>5. ASSUME NEW w \in Visitors
          PROVE  /\ DOMAIN visit'[w] = {"step", "code", "old"}
                 /\ visit'[w].code \in 0..issued
                 /\ visit'[w].old => visit'[w].code # issued
                 /\ visit'[w].step = "in" => ~visit'[w].old
      <3>1. CASE w = v
        BY <2>1, <2>3, <2>4, <3>1, Zenon DEF x
      <3>2. CASE w # v
        BY <2>1, <3>2, Zenon DEF PortalInv
      <3> QED  BY <3>1, <3>2, Zenon
    <2> QED  BY <2>1, <2>5, Zenon DEF PortalInv
  <1>4. ASSUME NEW v \in Visitors, Access!PortalExpire(v) \/ Access!PortalEnds(v) PROVE PortalInv'
    BY <1>4, VisitGoesOn, Zenon DEF Access!PortalExpire, Access!PortalEnds
  <1>5. ASSUME NEW v \in Visitors, Access!PortalAuthenticate(v) PROVE PortalInv'
    <2>1. UNCHANGED <<code, issued>>
      BY <1>5, Zenon DEF Access!PortalAuthenticate
    <2>2. CASE code # 0 /\ visit[v].code = code
      <3>1. Access!Visit(v, "in")
        BY <1>5, <2>2, Zenon DEF Access!PortalAuthenticate
      <3>2. ~visit[v].old
        BY <2>2, Zenon DEF PortalInv
      <3>3. /\ DOMAIN visit' = Visitors /\ \A w \in Visitors \ {v} : visit'[w] = visit[w]
            /\ DOMAIN visit'[v] = {"step", "code", "old"}
            /\ visit'[v].code = visit[v].code /\ visit'[v].old = visit[v].old
        BY <3>1, Zenon DEF PortalInv, Access!Visit
      <3> QED  BY <2>1, <3>2, <3>3, Zenon DEF PortalInv
    <2>3. CASE ~(code # 0 /\ visit[v].code = code)
      BY <1>5, <2>1, <2>3, VisitGoesOn, Zenon DEF Access!PortalAuthenticate
    <2> QED  BY <2>2, <2>3, Zenon
  <1> QED  BY <1>1, <1>2, <1>3, <1>4, <1>5, Zenon DEF Access!PortalNext

\* The steps of one half of CustomerAccess leave the other one alone.
LEMMA SecretsStay ==
  /\ TokenInv /\ UNCHANGED <<now, token, rotation, replaced>> => TokenInv'
  /\ PortalInv /\ UNCHANGED <<code, issued, visit>> => PortalInv'
  /\ Access!WorkerNext => UNCHANGED <<code, issued, visit>>
  /\ Access!PortalNext => UNCHANGED <<now, token, rotation, replaced>>
  <1>1. TokenInv /\ UNCHANGED <<now, token, rotation, replaced>> => TokenInv'
    BY Zenon DEF TokenInv, TokenType
  <1>2. PortalInv /\ UNCHANGED <<code, issued, visit>> => PortalInv'
    BY Zenon DEF PortalInv
  <1>3. Access!WorkerNext => UNCHANGED <<code, issued, visit>>
    BY Zenon DEF Access!WorkerNext, Access!Tick, Access!RotateCredential, Access!RotationCommits,
           Access!RotationFails, Access!RevokeCredential, Access!portalVars
  <1>4. Access!PortalNext => UNCHANGED <<now, token, rotation, replaced>>
    BY Zenon DEF Access!PortalNext, Access!RotatePortalAccess, Access!MinuteEnds, Access!PortalCall,
           Access!PortalExpire, Access!PortalAuthenticate, Access!PortalEnds, Access!workerVars
  <1> QED  BY <1>1, <1>2, <1>3, <1>4, Zenon

-----------------------------------------------------------------------------
(* The addresses of a customer and of the operator *)

\* What an activation is about to use is a day old: it was due when it was found.
AddressInv ==
  /\ TypeOK /\ CooledBeforeUse
  /\ \A r \in Runs : /\ run[r].due \subseteq cooled
                     /\ run[r].step \in {"update", "activate"} => run[r].dest \in cooled

LEMMA AddressInit == Init => AddressInv
  <1> SUFFICES ASSUME Init PROVE AddressInv
    BY Zenon
  <1>1. TypeOK
    BY Zenon DEF Init, TypeOK, Idle
  <1>2. CooledBeforeUse
    BY Zenon DEF Init, CooledBeforeUse, WithStatus
  <1>3. \A r \in Runs : run[r].due = {} /\ run[r].step = "idle"
    BY Zenon DEF Init, Idle
  <1> QED  BY <1>1, <1>2, <1>3, Zenon DEF AddressInv

\* One activation goes on to x; what it will use has cooled.
LEMMA RunKeeps ==
  ASSUME AddressInv, NEW r \in Runs, NEW x, run' = [run EXCEPT ![r] = x],
         x \in [step : {"idle", "loop", "update", "activate"}, due : SUBSET Dests,
                dest : Dests \cup {NoDest}, seen : SUBSET Dests, held : SUBSET Dests],
         x.step # "activate" => x.held = {},
         x.due \subseteq cooled, x.step \in {"update", "activate"} => x.dest \in cooled,
         status' \in [Dests -> {"none", "PENDING", "ACTIVE", "REVOKED"}],
         \A d \in Dests : status'[d] = "ACTIVE" => d \in cooled,
         cooled' = cooled, raced' \in BOOLEAN
  PROVE  AddressInv'
  <1>1. \A q \in Runs : run'[q] = IF q = r THEN x ELSE run[q]
    BY Zenon DEF AddressInv, TypeOK
  <1>2. TypeOK'
    BY <1>1, Zenon DEF AddressInv, TypeOK
  <1>3. CooledBeforeUse'
    BY Zenon DEF CooledBeforeUse, WithStatus
  <1> QED  BY <1>1, <1>2, <1>3 DEF AddressInv

LEMMA AddressStep == AddressInv /\ Next => AddressInv'
  <1> SUFFICES ASSUME AddressInv, Next PROVE AddressInv'
    BY Zenon
  <1>0. /\ TypeOK /\ \A d \in Dests : status[d] = "ACTIVE" => d \in cooled
        /\ status \in [Dests -> {"none", "PENDING", "ACTIVE", "REVOKED"}] /\ cooled \subseteq Dests
    BY Zenon DEF AddressInv, TypeOK, CooledBeforeUse, WithStatus
  <1>1. ASSUME NEW d \in Dests, CreateDestination(d) \/ RequestDestination(d) PROVE AddressInv'
    <2>1. /\ status' \in [Dests -> {"none", "PENDING", "ACTIVE", "REVOKED"}]
          /\ \A e \in Dests : status'[e] = "ACTIVE" => status[e] = "ACTIVE"
          /\ UNCHANGED <<cooled, run, raced>>
      BY <1>0, <1>1, Zenon DEF CreateDestination, RequestDestination
    <2>2. TypeOK'
      BY <1>0, <2>1, Zenon DEF TypeOK
    <2>3. CooledBeforeUse'
      BY <1>0, <2>1, Zenon DEF CooledBeforeUse, WithStatus
    <2> QED  BY <2>1, <2>2, <2>3, Zenon DEF AddressInv
  <1>2. ASSUME NEW d \in Dests, Cool(d) PROVE AddressInv'
    <2>1. cooled' = cooled \cup {d} /\ UNCHANGED <<status, run, raced>>
      BY <1>2, Zenon DEF Cool
    <2> QED  BY <1>0, <2>1, Zenon DEF AddressInv, TypeOK, CooledBeforeUse, WithStatus
  <1>3. ASSUME NEW r \in Runs, FindDue(r) PROVE AddressInv'
    <2> DEFINE x == [Idle EXCEPT !.step = "loop", !.due = Due]
    <2>1. /\ run' = [run EXCEPT ![r] = x] /\ UNCHANGED <<status, cooled>> /\ raced' \in BOOLEAN
          /\ Due \subseteq cooled
      BY <1>3, Zenon DEF FindDue, Due
    <2>2. /\ x.step = "loop" /\ x.due = Due /\ x.held = {}
          /\ x \in [step : {"idle", "loop", "update", "activate"}, due : SUBSET Dests,
                    dest : Dests \cup {NoDest}, seen : SUBSET Dests, held : SUBSET Dests]
      BY <1>0, <2>1, Zenon DEF Idle
    <2> HIDE DEF x
    <2> QED  BY <1>0, <2>1, <2>2, RunKeeps, Zenon
  <1>4. ASSUME NEW r \in Runs, NEW d \in Dests, BeginTransaction(r, d) PROVE AddressInv'
    <2> DEFINE x == [run[r] EXCEPT !.step = "update", !.due = @ \ {d}, !.dest = d, !.seen = Seen]
    <2>0. /\ run[r].due \subseteq cooled /\ d \in run[r].due /\ run[r].held = {} /\ Seen \subseteq Dests
          /\ run[r] \in [step : {"idle", "loop", "update", "activate"}, due : SUBSET Dests,
                         dest : Dests \cup {NoDest}, seen : SUBSET Dests, held : SUBSET Dests]
      BY <1>0, <1>4, Zenon DEF BeginTransaction, AddressInv, TypeOK, Seen, WithStatus
    <2>1. run' = [run EXCEPT ![r] = x] /\ UNCHANGED <<status, cooled, raced>> /\ raced \in BOOLEAN
      BY <1>0, <1>4, Zenon DEF BeginTransaction, TypeOK
    <2>2. /\ x.step = "update" /\ x.due \subseteq cooled /\ x.dest \in cooled /\ x.held = {}
          /\ x \in [step : {"idle", "loop", "update", "activate"}, due : SUBSET Dests,
                    dest : Dests \cup {NoDest}, seen : SUBSET Dests, held : SUBSET Dests]
      BY <2>0, Zenon
    <2> HIDE DEF x
    <2> QED  BY <1>0, <2>1, <2>2, RunKeeps, Zenon
  <1>5. ASSUME NEW r \in Runs, RevokeActive(r) PROVE AddressInv'
    <2> DEFINE held == run[r].seen \cap WithStatus("ACTIVE")
               x == [run[r] EXCEPT !.step = "activate", !.held = held]
    <2>0. /\ run[r].due \subseteq cooled /\ run[r].dest \in cooled
          /\ run[r] \in [step : {"idle", "loop", "update", "activate"}, due : SUBSET Dests,
                         dest : Dests \cup {NoDest}, seen : SUBSET Dests, held : SUBSET Dests]
      BY <1>0, <1>5, Zenon DEF RevokeActive, AddressInv, TypeOK
    <2>1. run' = [run EXCEPT ![r] = x] /\ UNCHANGED <<status, cooled, raced>> /\ raced \in BOOLEAN
      BY <1>0, <1>5, Zenon DEF RevokeActive, TypeOK
    <2>2. held \subseteq Dests
      BY Zenon DEF WithStatus
    <2>3. /\ x.step = "activate" /\ x.due \subseteq cooled /\ x.dest \in cooled
          /\ x \in [step : {"idle", "loop", "update", "activate"}, due : SUBSET Dests,
                    dest : Dests \cup {NoDest}, seen : SUBSET Dests, held : SUBSET Dests]
      BY <2>0, <2>2, Zenon
    <2> HIDE DEF x
    <2> QED  BY <1>0, <2>1, <2>3, RunKeeps, Zenon
  <1>6. ASSUME NEW r \in Runs, Activate(r) PROVE AddressInv'
    <2> DEFINE x == IF run[r].due = {} THEN Idle ELSE [Idle EXCEPT !.step = "loop", !.due = run[r].due]
    <2>0. run[r].due \subseteq cooled /\ run[r].dest \in cooled
      BY <1>6, Zenon DEF Activate, AddressInv
    <2>1. run' = [run EXCEPT ![r] = x] /\ UNCHANGED <<cooled, raced>> /\ raced \in BOOLEAN
      BY <1>0, <1>6, Zenon DEF Activate, TypeOK
    <2>2. /\ status' \in [Dests -> {"none", "PENDING", "ACTIVE", "REVOKED"}]
          /\ \A d \in Dests : status'[d] = "ACTIVE" => d \in cooled
      <3>1. status' = Activated(r)
        BY <1>6, Zenon DEF Activate
      <3>2. \A d \in Dests : \/ d = run[r].dest /\ status'[d] = "ACTIVE"
                             \/ status'[d] = "REVOKED" \/ status'[d] = status[d]
        BY <3>1, Zenon DEF Activated
      <3>3. status' = [d \in Dests |-> status'[d]]
        BY <3>1, Zenon DEF Activated
      <3> QED  BY <1>0, <2>0, <3>2, <3>3, Zenon
    <2>3. /\ x.step \in {"idle", "loop"} /\ x.due \subseteq cooled /\ x.held = {}
          /\ x \in [step : {"idle", "loop", "update", "activate"}, due : SUBSET Dests,
                    dest : Dests \cup {NoDest}, seen : SUBSET Dests, held : SUBSET Dests]
      BY <1>0, <2>0, Zenon DEF Idle
    <2> HIDE DEF x
    <2> QED  BY <1>0, <2>1, <2>2, <2>3, RunKeeps, Zenon
  <1>7. ASSUME NEW r \in Runs, Abort(r) PROVE AddressInv'
    <2>1. run' = [run EXCEPT ![r] = Idle] /\ UNCHANGED <<status, cooled, raced>> /\ raced \in BOOLEAN
      BY <1>0, <1>7, Zenon DEF Abort, TypeOK
    <2>2. /\ Idle.step = "idle" /\ Idle.due = {} /\ Idle.held = {}
          /\ Idle \in [step : {"idle", "loop", "update", "activate"}, due : SUBSET Dests,
                       dest : Dests \cup {NoDest}, seen : SUBSET Dests, held : SUBSET Dests]
      BY Zenon DEF Idle
    <2> QED  BY <1>0, <2>1, <2>2, RunKeeps, Zenon
  <1> QED  BY <1>1, <1>2, <1>3, <1>4, <1>5, <1>6, <1>7, Zenon DEF Next

\* The operator's setting: what a reader will write was due when it was read.
OperatorInv ==
  /\ Operator!TypeOK /\ Operator!OperatorCooled
  /\ \A r \in Readers : read[r] # 0 => read[r] \in due

LEMMA OperatorInit == Operator!Init => OperatorInv
  BY CounterpartiesAssumption
  DEF Operator!Init, OperatorInv, Operator!TypeOK, Operator!OperatorCooled, Operator!NoChange

LEMMA OperatorStep == OperatorInv /\ Operator!Next => OperatorInv'
  <1> SUFFICES ASSUME OperatorInv, Operator!Next PROVE OperatorInv'
    BY Zenon
  <1> USE DEF OperatorInv, Operator!TypeOK, Operator!OperatorCooled, Operator!NoChange
  <1>1. CASE Operator!UpdateOperatorPayout
    BY <1>1, CounterpartiesAssumption DEF Operator!UpdateOperatorPayout
  <1>2. ASSUME NEW c \in Operator!Changes, Operator!Cool(c) PROVE OperatorInv'
    BY <1>2, CounterpartiesAssumption, Zenon DEF Operator!Cool, Operator!Changes
  <1>3. ASSUME NEW r \in Readers, Operator!ReadPending(r) PROVE OperatorInv'
    BY <1>3, CounterpartiesAssumption DEF Operator!ReadPending, Operator!IsDue
  <1>4. ASSUME NEW r \in Readers, Operator!Move(r) PROVE OperatorInv'
    BY <1>4, CounterpartiesAssumption DEF Operator!Move
  <1>5. ASSUME NEW r \in Readers, Operator!MoveFails(r) PROVE OperatorInv'
    BY <1>5, CounterpartiesAssumption DEF Operator!MoveFails
  <1> QED  BY <1>1, <1>2, <1>3, <1>4, <1>5, Zenon DEF Operator!Next

LEMMA AddressesStay ==
  /\ AddressInv /\ UNCHANGED vars => AddressInv'
  /\ OperatorInv /\ UNCHANGED operatorVars => OperatorInv'
  <1>1. AddressInv /\ UNCHANGED vars => AddressInv'
    BY Zenon DEF AddressInv, TypeOK, CooledBeforeUse, WithStatus, vars
  <1>2. OperatorInv /\ UNCHANGED operatorVars => OperatorInv'
    BY Zenon DEF OperatorInv, Operator!TypeOK, Operator!OperatorCooled, Operator!NoChange, operatorVars
  <1> QED  BY <1>1, <1>2, Zenon

-----------------------------------------------------------------------------
(* Together *)

Inv == AddressInv /\ OperatorInv /\ TokenInv /\ PortalInv /\ PoolInv

\* Whichever part moves, the others stay.
THEOREM InvHolds == CounterpartiesSpec => []Inv
  <1>1. CounterpartiesInit => Inv
    BY AddressInit, OperatorInit, TokenInit, PortalInit, PoolInit, Zenon DEF CounterpartiesInit, Inv
  <1>2. Inv /\ [CounterpartiesNext]_allVars => Inv'
    <2> SUFFICES ASSUME Inv, [CounterpartiesNext]_allVars PROVE Inv'
      BY Zenon
    <2> USE DEF Inv
    <2>0. UNCHANGED accessVars => UNCHANGED <<now, token, rotation, replaced>> /\ UNCHANGED <<code, issued, visit>>
      BY Zenon DEF accessVars
    <2>1. CASE Next /\ UNCHANGED <<operatorVars, accessVars, poolVars>>
      BY <2>0, <2>1, AddressStep, AddressesStay, SecretsStay, PoolsStay, Zenon
    <2>2. CASE Operator!Next /\ UNCHANGED <<vars, accessVars, poolVars>>
      BY <2>0, <2>2, OperatorStep, AddressesStay, SecretsStay, PoolsStay, Zenon
    <2>3. CASE Access!WorkerNext /\ UNCHANGED <<vars, operatorVars, poolVars>>
      BY <2>3, TokenStep, AddressesStay, SecretsStay, PoolsStay, Zenon
    <2>4. CASE Access!PortalNext /\ UNCHANGED <<vars, operatorVars, poolVars>>
      BY <2>4, PortalStep, AddressesStay, SecretsStay, PoolsStay, Zenon
    <2>5. CASE Pools!Next /\ UNCHANGED <<vars, operatorVars, accessVars>>
      BY <2>0, <2>5, PoolStep, AddressesStay, SecretsStay, Zenon
    <2>6. CASE UNCHANGED allVars
      BY <2>0, <2>6, AddressesStay, SecretsStay, PoolsStay, Zenon DEF allVars
    <2> QED  BY <2>1, <2>2, <2>3, <2>4, <2>5, <2>6, Zenon DEF CounterpartiesNext
  <1> QED  BY <1>1, <1>2, PTL DEF CounterpartiesSpec

\* No payout goes to an address that is less than a day old: activateDueDestinations
\* and operatorPayout, for any number of addresses and overlapping calls.
THEOREM AddressesAreCooled == CounterpartiesSpec => []AddressesCooled
  <1>1. Inv => AddressesCooled
    BY Zenon DEF Inv, AddressInv, OperatorInv, AddressesCooled
  <1> QED  BY <1>1, InvHolds, PTL

\* rotateCredential ends the tokens it replaces within the grace period and never
\* locks a worker out, rotatePortalAccess ends access codes at once, for any
\* number of overlapping requests.
THEOREM SecretsEnd == CounterpartiesSpec => []ReplacedSecretsEnd
  <1>1. TokenInv => Access!GraceIsBounded
    <2> SUFFICES ASSUME TokenInv, NEW c \in DOMAIN token, replaced[c] # Never, now >= replaced[c] + Grace
                 PROVE  ~Access!Usable(c)
      BY Zenon DEF Access!GraceIsBounded, Access!Tokens
    <2>1. c \in Access!Secrets /\ replaced[c] \in Nat /\ now \in Nat
      BY Zenon DEF TokenInv, TokenType
    <2>2. token[c].revoked \/ (token[c].expires \in Nat /\ token[c].expires <= replaced[c] + Grace)
      BY <2>1, Zenon DEF TokenInv
    <2> QED  BY <2>1, <2>2, CounterpartiesAssumption DEF Access!Usable
  <1>2. TokenInv => Access!NeverLockedOut
    BY Zenon DEF TokenInv, Access!NeverLockedOut, Access!Usable, Access!Tokens
  <1>3. PortalInv => Access!OldCodesEnd
    BY Zenon DEF PortalInv, Access!OldCodesEnd
  <1>4. Inv => ReplacedSecretsEnd
    BY <1>1, <1>2, <1>3, Zenon DEF Inv, ReplacedSecretsEnd
  <1> QED  BY <1>4, InvHolds, PTL

\* create and update of upstreams.service.ts keep the terms of an account in
\* common, for any number of endpoints and of requests that overlap, but for the
\* overlaps that put an endpoint into an account.
THEOREM TermsAgree == CounterpartiesSpec => []AccountsAgree
  <1>1. Inv => AccountsAgree
    BY Zenon DEF Inv, PoolInv, AccountsAgree, Pools!AccountsAgree
  <1> QED  BY <1>1, InvHolds, PTL

\* As long as no two activations have overlapped, one at most is under way, and
\* what it saw and holds are the ACTIVE rows, of which there is one at most.
NotRaced ==
  ~raced =>
    /\ \A r, q \in Runs : run[r].step # "idle" /\ run[q].step # "idle" => r = q
    /\ \A r \in Runs : /\ run[r].step = "update" => run[r].seen = WithStatus("ACTIVE")
                       /\ run[r].step = "activate" => run[r].held = WithStatus("ACTIVE")
    /\ \A d, e \in WithStatus("ACTIVE") : d = e

LEMMA NotRacedInit == Init => NotRaced
  BY DEF Init, NotRaced, Idle, WithStatus

\* One activation goes on to x, alone if there was no race, and the ACTIVE rows stay.
LEMMA NotRacedKept ==
  ASSUME TypeOK, NotRaced, NEW r \in Runs, NEW x, run' = [run EXCEPT ![r] = x], status' = status,
         ~raced' => ~raced,
         ~raced' => (run[r].step # "idle" \/ x.step = "idle" \/ \A q \in Runs : run[q].step = "idle"),
         ~raced' => (x.step = "update" => x.seen = WithStatus("ACTIVE")),
         ~raced' => (x.step = "activate" => x.held = WithStatus("ACTIVE"))
  PROVE  NotRaced'
  <1> SUFFICES ASSUME ~raced' PROVE NotRaced'
    BY Zenon DEF NotRaced
  <1>1. \A q \in Runs : run'[q] = IF q = r THEN x ELSE run[q]
    BY Zenon DEF TypeOK
  <1>2. WithStatus("ACTIVE")' = WithStatus("ACTIVE")
    BY Zenon DEF WithStatus
  <1>3. \A q, p \in Runs : run'[q].step # "idle" /\ run'[p].step # "idle" => q = p
    BY <1>1 DEF NotRaced
  <1> QED  BY <1>1, <1>2, <1>3 DEF NotRaced

LEMMA NotRacedStep == AddressInv /\ NotRaced /\ Next => NotRaced'
  <1> SUFFICES ASSUME AddressInv, NotRaced, Next PROVE NotRaced'
    BY Zenon
  <1>0. TypeOK /\ run \in [Runs -> [step : {"idle", "loop", "update", "activate"}, due : SUBSET Dests,
                                    dest : Dests \cup {NoDest}, seen : SUBSET Dests, held : SUBSET Dests]]
    BY Zenon DEF AddressInv, TypeOK
  <1>1. ASSUME NEW d \in Dests, CreateDestination(d) \/ RequestDestination(d) \/ Cool(d) PROVE NotRaced'
    <2>1. WithStatus("ACTIVE")' = WithStatus("ACTIVE") /\ UNCHANGED <<run, raced>>
      BY <1>0, <1>1, Zenon DEF CreateDestination, RequestDestination, Cool, WithStatus, TypeOK
    <2> QED  BY <2>1, Zenon DEF NotRaced
  <1>2. ASSUME NEW r \in Runs, FindDue(r) PROVE NotRaced'
    <2> DEFINE x == [Idle EXCEPT !.step = "loop", !.due = Due]
    <2>1. /\ run' = [run EXCEPT ![r] = x] /\ status' = status
          /\ ~raced' => ~raced /\ \A q \in Runs : run[q].step = "idle"
      BY <1>2, Zenon DEF FindDue
    <2>2. x.step = "loop"
      BY Zenon DEF Idle
    <2> HIDE DEF x
    <2> QED  BY <1>0, <2>1, <2>2, NotRacedKept, Zenon
  <1>3. ASSUME NEW r \in Runs, NEW d \in Dests, BeginTransaction(r, d) PROVE NotRaced'
    <2> DEFINE x == [run[r] EXCEPT !.step = "update", !.due = @ \ {d}, !.dest = d, !.seen = Seen]
    <2>1. run[r].step = "loop" /\ run' = [run EXCEPT ![r] = x] /\ UNCHANGED <<status, raced>>
      BY <1>0, <1>3, Zenon DEF BeginTransaction
    <2>2. x.step = "update" /\ x.seen = WithStatus("ACTIVE")
      BY <1>0, Zenon DEF Seen
    <2> HIDE DEF x
    <2> QED  BY <1>0, <2>1, <2>2, NotRacedKept, Zenon
  <1>4. ASSUME NEW r \in Runs, RevokeActive(r) PROVE NotRaced'
    <2> DEFINE x == [run[r] EXCEPT !.step = "activate", !.held = run[r].seen \cap WithStatus("ACTIVE")]
    <2>1. run[r].step = "update" /\ run' = [run EXCEPT ![r] = x] /\ UNCHANGED <<status, raced>>
      BY <1>0, <1>4, Zenon DEF RevokeActive
    <2>2. x.step = "activate" /\ x.held = run[r].seen \cap WithStatus("ACTIVE")
      BY <1>0, Zenon
    <2>3. ~raced => run[r].seen = WithStatus("ACTIVE")
      BY <2>1, Zenon DEF NotRaced
    <2> HIDE DEF x
    <2> QED  BY <1>0, <2>1, <2>2, <2>3, NotRacedKept, Zenon
  <1>5. ASSUME NEW r \in Runs, Activate(r) PROVE NotRaced'
    <2> DEFINE x == IF run[r].due = {} THEN Idle ELSE [Idle EXCEPT !.step = "loop", !.due = run[r].due]
    <2>1. run[r].step = "activate" /\ run' = [run EXCEPT ![r] = x] /\ status' = Activated(r) /\ raced' = raced
      BY <1>0, <1>5, Zenon DEF Activate
    <2>2. x.step \in {"idle", "loop"}
      BY Zenon DEF Idle
    <2> HIDE DEF x
    <2> SUFFICES ASSUME ~raced PROVE NotRaced'
      BY <2>1, Zenon DEF NotRaced
    <2>3. \A q \in Runs : q # r => run'[q].step = "idle"
      BY <1>0, <2>1, Zenon DEF NotRaced
    <2>4. run'[r].step \in {"idle", "loop"}
      BY <1>0, <2>1, <2>2, Zenon
    <2>5. run[r].held = WithStatus("ACTIVE")
      BY <2>1, Zenon DEF NotRaced
    <2>6. \A e \in WithStatus("ACTIVE")' : e = run[r].dest
      BY <2>1, <2>5, Zenon DEF Activated, WithStatus
    <2> QED  BY <2>3, <2>4, <2>6, Zenon DEF NotRaced
  <1>6. ASSUME NEW r \in Runs, Abort(r) PROVE NotRaced'
    <2>1. run' = [run EXCEPT ![r] = Idle] /\ UNCHANGED <<status, raced>> /\ Idle.step = "idle"
      BY <1>6, Zenon DEF Abort, Idle
    <2> QED  BY <1>0, <2>1, NotRacedKept, Zenon
  <1> QED  BY <1>1, <1>2, <1>3, <1>4, <1>5, <1>6, Zenon DEF Next

\* Only an activation that puts another one in its place takes an ACTIVE row away.
LEMMA ActiveStays == AddressInv /\ Next /\ WithStatus("ACTIVE") # {} => WithStatus("ACTIVE")' # {}
  <1> SUFFICES ASSUME AddressInv, Next, NEW d \in Dests, status[d] = "ACTIVE"
               PROVE  \E e \in Dests : status'[e] = "ACTIVE"
    BY Zenon DEF WithStatus
  <1>1. ASSUME NEW r \in Runs, Activate(r) PROVE \E e \in Dests : status'[e] = "ACTIVE"
    <2>1. run[r].dest \in Dests
      BY <1>1, Zenon DEF Activate, AddressInv, TypeOK
    <2>2. status'[run[r].dest] = "ACTIVE"
      BY <1>1, <2>1, Zenon DEF Activate, Activated
    <2> QED  BY <2>1, <2>2, Zenon
  <1>2. ASSUME NEW e \in Dests, CreateDestination(e) \/ RequestDestination(e) PROVE status'[d] = "ACTIVE"
    BY <1>2, Zenon DEF CreateDestination, RequestDestination, AddressInv, TypeOK
  <1> QED
    BY <1>1, <1>2, Zenon DEF Next, Cool, FindDue, RevokeActive, Abort, BeginTransaction

\* Every change of a customer's addresses leaves one in force if there was one,
\* over transactions that are rolled back or race; and two are in force only after
\* two calls of activateDueDestinations have overlapped.
THEOREM ActiveReplaced == CounterpartiesSpec => ActiveIsReplaced
  <1>1. CounterpartiesInit => NotRaced
    BY NotRacedInit, Zenon DEF CounterpartiesInit
  <1>2. [CounterpartiesNext]_allVars => [Next]_vars
    BY Zenon DEF CounterpartiesNext, allVars
  <1>3. Inv /\ NotRaced /\ [Next]_vars => NotRaced'
    <2>1. NotRaced /\ UNCHANGED vars => NotRaced'
      BY DEF NotRaced, WithStatus, vars
    <2> QED  BY <2>1, NotRacedStep, Zenon DEF Inv
  <1>4. Inv /\ NotRaced' /\ [Next]_vars
          => [OneActive' /\ (WithStatus("ACTIVE") # {} => WithStatus("ACTIVE")' # {})]_vars
    BY ActiveStays, Zenon DEF Inv, NotRaced, OneActive
  <1> QED  BY <1>1, <1>2, <1>3, <1>4, InvHolds, PTL DEF CounterpartiesSpec, ActiveIsReplaced
=============================================================================
