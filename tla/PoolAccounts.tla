---------------------------- MODULE PoolAccounts ----------------------------
(***************************************************************************)
(* The endpoints of pool accounts: create and update of                    *)
(* upstreams.service.ts.  Endpoints with one accountKey are the same       *)
(* account at a pool and have its terms in common: receive address,        *)
(* username template and password.                                         *)
(*                                                                         *)
(* The endpoints are those of one asset, so they have one protocol.  What  *)
(* an edit checks it reads before its transaction; the rows it writes are  *)
(* locked until it ends, so that two transactions take effect in turn.     *)
(***************************************************************************)
EXTENDS Naturals, FiniteSets

CONSTANTS
  Endpoints,
  Accounts,    \* the keys that administrators name; an endpoint without one has its id
  Fields,      \* the terms that are kept in common
  Values,
  Editors,     \* requests of administrators that may overlap
  None,
  MaxEdits     \* bound on the edits

VARIABLES
  row,         \* of an endpoint: None or [account, terms]
  edit,        \* of an editor: the edit it is doing
  edits,       \* edits so far
  crossed      \* an edit that changes who is in an account overlapped another one (history)

vars == <<row, edit, edits, crossed>>

Keys == Accounts \cup Endpoints
NoEdit == [step |-> "idle", id |-> None, key |-> None, account |-> None, dto |-> None,
           before |-> None, peers |-> {}]

\* What an edit may set: any of the fields.
Dtos == [Fields -> Values \cup {None}]
Terms == [Fields -> Values]

Existing == {e \in Endpoints : row[e] # None}
Of(account) == {e \in Existing : row[e].account = account}
Agree == \A d, e \in Existing : row[d].account = row[e].account => row[d].terms = row[e].terms

\* Whatever endpoints the edits before have left.
Init ==
  /\ row \in [Endpoints -> {None} \cup [account : Keys, terms : Terms]] /\ Agree
  /\ edit = [a \in Editors |-> NoEdit]
  /\ edits = 0 /\ crossed = FALSE

Moves(x) == x.step # "idle" /\ (x.before = None \/ x.account # x.before.account)
\* The edit x of an editor begins.
Crosses(a, x) ==
  \E b \in Editors \ {a} : edit[b].step # "idle" /\ (Moves(x) \/ Moves(edit[b]))

Begin(a, x) ==
  /\ edit[a].step = "idle" /\ edits < MaxEdits
  /\ edits' = edits + 1
  /\ edit' = [edit EXCEPT ![a] = x]
  /\ crossed' = (crossed \/ Crosses(a, x))
  /\ UNCHANGED row

-----------------------------------------------------------------------------
(* create *)

\* findFirst: any endpoint of the account.  A key that was given is looked up,
\* an endpoint of its own has no peer.
CreateFinds(a, e, account, terms) ==
  /\ row[e] = None /\ \A b \in Editors : edit[b].id # e
  /\ \E peers \in {{p} : p \in Of(account)} \cup {q \in {{}} : Of(account) = {}} :
       Begin(a, [step |-> "create", id |-> e, key |-> account, account |-> account, dto |-> terms,
                 before |-> None, peers |-> {[id |-> p, terms |-> row[p].terms] : p \in peers}])

\* The peer's terms must be those of the new endpoint.  (Mutant: they are not
\* compared.)
AgreesAny(peers, terms) == TRUE
Agrees(peers, terms) == \A p \in peers : p.terms = terms

CreateInserts(a) ==
  /\ edit[a].step = "create"
  /\ row' = IF Agrees(edit[a].peers, edit[a].dto)
            THEN [row EXCEPT ![edit[a].id] = [account |-> edit[a].account, terms |-> edit[a].dto]]
            ELSE row
  /\ edit' = [edit EXCEPT ![a] = NoEdit]
  /\ UNCHANGED <<edits, crossed>>

-----------------------------------------------------------------------------
(* update *)

\* The key may be left out: the endpoint stays where it is.
UpdateReads(a, e, key, dto) ==
  /\ row[e] # None
  /\ Begin(a, [step |-> "peers", id |-> e, key |-> key, account |-> IF key = None THEN row[e].account ELSE key,
               dto |-> dto, before |-> row[e], peers |-> {}])

Amended(terms, dto) == [f \in Fields |-> IF dto[f] = None THEN terms[f] ELSE dto[f]]

\* After the wallet has looked at the address: the other endpoints of the
\* account that the endpoint is to have.
UpdateFindsPeers(a) ==
  /\ edit[a].step = "peers"
  /\ edit' = [edit EXCEPT ![a].step = "update",
                          ![a].peers = {[id |-> p, terms |-> row[p].terms] : p \in Of(edit[a].account) \ {edit[a].id}}]
  /\ UNCHANGED <<row, edits, crossed>>

Joining(x) == x.account # x.before.account

\* The transaction: a join must agree with all peers, another edit is applied to
\* them.  (Mutant: to the endpoint alone.)
WrittenOne(x) == {x.id}
Written(x) == {x.id} \cup IF Joining(x) THEN {} ELSE {p.id : p \in x.peers}

UpdateCommits(a) ==
  LET x == edit[a] IN
  /\ x.step = "update"
  /\ row' = IF Joining(x) /\ ~Agrees(x.peers, Amended(x.before.terms, x.dto)) THEN row
            ELSE [e \in Endpoints |->
                    IF e \in Written(x)
                    THEN [account |-> IF e = x.id /\ x.key # None THEN x.key ELSE row[e].account,
                          terms |-> Amended(row[e].terms, x.dto)]
                    ELSE row[e]]
  /\ edit' = [edit EXCEPT ![a] = NoEdit]
  /\ UNCHANGED <<edits, crossed>>

\* An address that is not valid, or a transaction that fails.
EditFails(a) ==
  /\ edit[a].step # "idle"
  /\ edit' = [edit EXCEPT ![a] = NoEdit]
  /\ UNCHANGED <<row, edits, crossed>>

Next ==
  \E a \in Editors :
    \/ \E e \in Endpoints, terms \in Terms : \E account \in Accounts \cup {e} : CreateFinds(a, e, account, terms)
    \/ \E e \in Endpoints, key \in Keys \cup {None}, dto \in Dtos : UpdateReads(a, e, key, dto)
    \/ CreateInserts(a) \/ UpdateFindsPeers(a) \/ UpdateCommits(a) \/ EditFails(a)

Spec == Init /\ [][Next]_vars

-----------------------------------------------------------------------------
\* The endpoints of an account agree on its terms, also when edits overlap,
\* unless one of those edits puts an endpoint into an account.
AccountsAgree == crossed \/ Agree

\* Not kept: an endpoint that joins while the account's terms are being changed
\* keeps the old ones.
AlwaysAgree == Agree
=============================================================================
