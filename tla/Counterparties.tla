--------------------------- MODULE Counterparties ---------------------------
(***************************************************************************)
(* What the gateway keeps of those it deals with, and how it changes: the  *)
(* addresses of a customer (PayoutDestinations), which every plan()        *)
(* activates, the operator's (OperatorSetting), which every reader of the  *)
(* settings moves into force, the customer's secrets (CustomerAccess) and  *)
(* the accounts at the pools (PoolAccounts).                               *)
(*                                                                         *)
(* These share no row and no lock, so in one behaviour one of them moves.  *)
(***************************************************************************)
EXTENDS PayoutDestinations

CONSTANTS MaxChanges, Readers    \* see OperatorSetting
CONSTANTS Admins, Visitors, Grace, PortalLimit, Never, MaxSecrets, MaxTime, MaxCalls
                                 \* see CustomerAccess
CONSTANTS Endpoints, Accounts, Fields, Values, Editors, None, MaxEdits   \* see PoolAccounts

ASSUME CounterpartiesAssumption ==
  /\ MaxChanges \in Nat
  /\ Grace \in Nat /\ MaxSecrets \in Nat \ {0} /\ Never \notin Nat
  /\ None \notin Endpoints \cup Accounts \cup [account : Endpoints \cup Accounts, terms : [Fields -> Values]]

VARIABLES last, pending, active, due, read
VARIABLES now, token, rotation, replaced, code, issued, attempts, ttl, visit, calls
VARIABLES row, edit, edits, crossed
VARIABLE part   \* the one that moves

Operator == INSTANCE OperatorSetting
Access == INSTANCE CustomerAccess
Pools == INSTANCE PoolAccounts

operatorVars == <<last, pending, active, due, read>>
accessVars == <<now, token, rotation, replaced, code, issued, attempts, ttl, visit, calls>>
poolVars == <<row, edit, edits, crossed>>
allVars == <<vars, operatorVars, accessVars, poolVars, part>>

CounterpartiesInit ==
  /\ part \in {"customer", "operator", "tokens", "portal", "pools"}
  /\ Init /\ Operator!Init /\ Access!Init /\ Pools!Init
  /\ part # "pools" => Pools!Existing = {}

CounterpartiesNext ==
  /\ UNCHANGED part
  /\ \/ part = "customer" /\ Next /\ UNCHANGED <<operatorVars, accessVars, poolVars>>
     \/ part = "operator" /\ Operator!Next /\ UNCHANGED <<vars, accessVars, poolVars>>
     \/ part = "tokens" /\ Access!WorkerNext /\ UNCHANGED <<vars, operatorVars, poolVars>>
     \/ part = "portal" /\ Access!PortalNext /\ UNCHANGED <<vars, operatorVars, poolVars>>
     \/ part = "pools" /\ Pools!Next /\ UNCHANGED <<vars, operatorVars, accessVars>>

CounterpartiesSpec == CounterpartiesInit /\ [][CounterpartiesNext]_allVars

-----------------------------------------------------------------------------
\* Nobody is paid at an address that is less than a day old, neither a customer
\* nor the operator, whatever requests, activations, readers and rollbacks come
\* between; and the rows and settings are well formed.
AddressesCooled ==
  /\ TypeOK /\ CooledBeforeUse
  /\ Operator!TypeOK /\ Operator!OperatorCooled

\* Secrets that were replaced end, and those that replace them work: a token of a
\* worker is of no use after the grace period of its first rotation, whatever
\* rotations overlap or follow, no rotation leaves the worker without a token,
\* and an access code does not open the portal once another was issued.
ReplacedSecretsEnd == Access!GraceIsBounded /\ Access!NeverLockedOut /\ Access!OldCodesEnd

\* Endpoints of one account at a pool have its terms in common, whatever edits
\* interleave, unless one that changes who is in the account overlapped another.
AccountsAgree == Pools!AccountsAgree
=============================================================================
