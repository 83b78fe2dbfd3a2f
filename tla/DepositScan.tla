----------------------------- MODULE DepositScan -----------------------------
(***************************************************************************)
(* wallets/deposits.service.ts, and ledger.allocateDeposit as it is called *)
(* by the scanner and by an administrator: pool payments are observed,     *)
(* confirmed, allocated to the accepted shares of their pool account, and  *)
(* may lose their confirmations again.                                     *)
(*                                                                         *)
(* Amounts are left out (DepositSplit has them).  All shares and deposits  *)
(* belong to one pool account.                                             *)
(***************************************************************************)
EXTENDS Naturals

CONSTANTS
  Deposits,      \* receipts the wallet may report
  Shares,        \* accepted shares
  MaxFaults      \* bound on confirmations lost again, failed scans and restarts

DepositStatus == {"NONE", "OBSERVED", "CONFIRMED", "ALLOCATED", "REORGED"}

VARIABLES
  chain,       \* chain[d]: "absent", "locked" or "confirmed"
  status,      \* column of Deposit; NONE: no row
  batch,       \* deposits with an AllocationBatch and its journal transactions
  posted,      \* how often d was allocated, for the properties
  share,       \* share[s]: "pending", "free" or the deposit it is allocated to
  scanning,    \* the flag of scanAll
  receipts,    \* receipts this scan has still to visit: <<d, locked>>
  current,     \* the receipt being visited, {} or {[d, locked, existing, step]}
  alert,       \* deposits with an alert deposit-reorg:<id>
  faults

scanVars == <<scanning, receipts, current>>
ledgerVars == <<batch, posted, share>>
vars == <<chain, status, ledgerVars, scanVars, alert, faults>>

Free == "free"
Pending == "pending"

ASSUME DepositsAssumption == Free \notin Deposits /\ Pending \notin Deposits

Init ==
  /\ chain = [d \in Deposits |-> "absent"]
  /\ status = [d \in Deposits |-> "NONE"]
  /\ batch = {}
  /\ posted = [d \in Deposits |-> 0]
  /\ share = [s \in Shares |-> Pending]
  /\ scanning = FALSE
  /\ receipts = {}
  /\ current = {}
  /\ alert = {}
  /\ faults = 0

-----------------------------------------------------------------------------
(* The world. *)

\* A payment appears, is confirmed, or loses its confirmations.
ChainMoves(d) ==
  /\ \/ chain[d] = "absent" /\ chain' = [chain EXCEPT ![d] = "locked"] /\ UNCHANGED faults
     \/ chain[d] = "locked" /\ chain' = [chain EXCEPT ![d] = "confirmed"] /\ UNCHANGED faults
     \/ /\ chain[d] = "confirmed" /\ faults < MaxFaults
        /\ chain' = [chain EXCEPT ![d] = "locked"]
        /\ faults' = faults + 1
  /\ UNCHANGED <<status, ledgerVars, scanVars, alert>>

\* The pool accepts a share.
ShareAccepted(s) ==
  /\ share[s] = Pending
  /\ share' = [share EXCEPT ![s] = Free]
  /\ UNCHANGED <<chain, status, batch, posted, scanVars, alert, faults>>

-----------------------------------------------------------------------------
(* allocateDeposit: one serializable transaction. *)

Work == {s \in Shares : share[s] = Free}

\* AllocationBatch.depositId is unique.  (Mutant: it is not.)
BatchAny(d) == TRUE
BatchAccepts(d) == d \notin batch

\* (Mutant: without work.)
AllocatableNoWork(d) == status[d] = "CONFIRMED" /\ BatchAccepts(d)
Allocatable(d) == status[d] = "CONFIRMED" /\ Work # {} /\ BatchAccepts(d)

\* The batch, its journal transactions, the shares it pays for and the status.
Allocate(d) ==
  /\ status' = [status EXCEPT ![d] = "ALLOCATED"]
  /\ batch' = batch \cup {d}
  /\ posted' = [posted EXCEPT ![d] = @ + 1]
  /\ share' = [s \in Shares |-> IF s \in Work THEN d ELSE share[s]]

\* An ALLOCATED deposit returns the batch it has, any other refusal leaves
\* everything as it was.  (Mutant: a deposit without work is closed.)
allocateDepositClosed(d) ==
  IF Allocatable(d) THEN Allocate(d)
  ELSE status' = [status EXCEPT ![d] = IF @ = "CONFIRMED" THEN "ALLOCATED" ELSE @] /\ UNCHANGED ledgerVars
allocateDeposit(d) == IF Allocatable(d) THEN Allocate(d) ELSE UNCHANGED <<status, ledgerVars>>

\* POST ledger/allocate/:depositId.
AdminAllocates(d) ==
  /\ Allocatable(d)
  /\ Allocate(d)
  /\ UNCHANGED <<chain, scanVars, alert, faults>>

-----------------------------------------------------------------------------
(* scanAll and scanAsset. *)

\* A receipt has fewer confirmations than its asset needs, or Monero's wallet
\* does not spend it yet.
Locked(d) == chain[d] = "locked"

\* What the wallet reports for the addresses of the pools.
scanReceipts == {<<d, Locked(d)>> : d \in {x \in Deposits : chain[x] # "absent"}}

\* The flag keeps scans apart; the wallet is asked once.
ScanStart ==
  /\ ~scanning
  /\ scanning' = TRUE
  /\ receipts' = scanReceipts
  /\ UNCHANGED <<current, chain, status, ledgerVars, alert, faults>>

\* findUnique of the receipt's row.
ScanRead ==
  /\ current = {}
  /\ \E x \in receipts :
       /\ receipts' = receipts \ {x}
       /\ current' = {[d |-> x[1], locked |-> x[2], existing |-> status[x[1]], step |-> "write"]}
  /\ UNCHANGED <<scanning, chain, status, ledgerVars, alert, faults>>

Reorged(x) == x.existing = "ALLOCATED" /\ x.locked

\* (Mutant: the update of a known row leaves its status alone.)
UpsertedOnce(x) ==
  IF x.existing # "NONE" THEN x.existing
  ELSE IF x.locked THEN "OBSERVED" ELSE "CONFIRMED"
Upserted(x) ==
  IF x.existing = "ALLOCATED" THEN "ALLOCATED"
  ELSE IF x.locked THEN "OBSERVED" ELSE "CONFIRMED"

\* The update of an allocated deposit that lost its confirmations, or the
\* upsert; a CONFIRMED row is allocated next.
ScanWrite ==
  /\ \E x \in current :
       /\ x.step = "write"
       /\ \/ /\ Reorged(x)
             /\ status' = [status EXCEPT ![x.d] = "REORGED"]
             /\ current' = {[x EXCEPT !.step = "alert"]}
          \/ /\ ~Reorged(x)
             /\ status' = [status EXCEPT ![x.d] = Upserted(x)]
             /\ current' = IF status'[x.d] = "CONFIRMED" THEN {[x EXCEPT !.step = "allocate"]} ELSE {}
  /\ UNCHANGED <<scanning, receipts, chain, ledgerVars, alert, faults>>

\* The critical alert is raised after the update.
ScanAlert ==
  /\ \E x \in current : x.step = "alert" /\ alert' = alert \cup {x.d}
  /\ current' = {}
  /\ UNCHANGED <<scanning, receipts, chain, status, ledgerVars, faults>>

\* Errors of allocateDeposit are logged and dropped.
ScanAllocate ==
  /\ \E x \in current : x.step = "allocate" /\ allocateDeposit(x.d)
  /\ current' = {}
  /\ UNCHANGED <<scanning, receipts, chain, alert, faults>>

\* The flag is cleared when the loop has ended.
ScanEnd ==
  /\ scanning
  /\ scanning' = FALSE /\ receipts' = {} /\ current' = {}
  /\ UNCHANGED <<chain, status, ledgerVars, alert>>

ScanDone == receipts = {} /\ current = {} /\ ScanEnd /\ UNCHANGED faults

\* The wallet or the database fails, or the process restarts.
ScanFails ==
  /\ faults < MaxFaults
  /\ ScanEnd
  /\ faults' = faults + 1

ScanStep == ScanStart \/ ScanRead \/ ScanWrite \/ ScanAlert \/ ScanAllocate \/ ScanDone

Next ==
  \/ \E d \in Deposits : ChainMoves(d) \/ AdminAllocates(d)
  \/ \E s \in Shares : ShareAccepted(s)
  \/ ScanStep \/ ScanFails

Spec == Init /\ [][Next]_vars

\* monitor starts a scan every minute, and every await of a scan is answered.
FairSpec == Spec /\ WF_vars(ScanStep)

-----------------------------------------------------------------------------
(* Properties. *)

Visit == [d: Deposits, locked: BOOLEAN, existing: DepositStatus, step: {"write", "alert", "allocate"}]

TypeOK ==
  /\ chain \in [Deposits -> {"absent", "locked", "confirmed"}]
  /\ status \in [Deposits -> DepositStatus]
  /\ batch \subseteq Deposits
  /\ posted \in [Deposits -> Nat]
  /\ share \in [Shares -> Deposits \cup {Free, Pending}]
  /\ scanning \in BOOLEAN
  /\ scanning \/ receipts \cup current = {}
  /\ receipts \subseteq Deposits \X BOOLEAN
  /\ current \subseteq Visit
  /\ alert \subseteq Deposits
  /\ faults \in Nat

\* "A confirmed deposit is ... allocated once": over scans with a stale row,
\* administrators, lost confirmations and restarts.
AllocatedOnce == \A d \in Deposits : posted[d] <= 1

\* allocateDeposit never finds an ALLOCATED deposit without its batch
\* ("Deposit state is inconsistent"), although the scanner writes ALLOCATED
\* from what it has read before.
AllocatedHasBatch == \A d \in Deposits : status[d] = "ALLOCATED" => d \in batch

\* Every allocation is backed by accepted work that no other allocation used.
BatchHasWork == \A d \in batch : \E s \in Shares : share[s] = d

\* The three together: a deposit is allocated once, has its batch as soon as it is
\* shown as allocated, and the batch has work of its own.
AllocationsAreSound == AllocatedOnce /\ AllocatedHasBatch /\ BatchHasWork

\* A confirmed payment is allocated by one of the next scans when there is
\* work it can pay for.
ConfirmedIsAllocated ==
  \A d \in Deposits :
    chain[d] = "confirmed" /\ Work # {} /\ d \notin batch
      ~> d \in batch \/ Work = {} \/ chain[d] # "confirmed"

\* "An allocated reorg halts all payouts": executeUnderLock refuses while a
\* deposit is REORGED, so a deposit must stay REORGED until it is confirmed.
HaltLastsUntilConfirmed ==
  [][\A d \in Deposits :
       status[d] = "REORGED" /\ status'[d] # "REORGED" => chain[d] = "confirmed"]_vars

\* "... and raises a critical alert": a REORGED deposit has its alert when the
\* scan that found it is over.
ReorgIsAlerted == \A d \in Deposits : status[d] = "REORGED" /\ ~scanning => d \in alert
=============================================================================
