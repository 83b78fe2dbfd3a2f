------------------------------ MODULE Treasury ------------------------------
(***************************************************************************)
(* The money of one asset: the double-entry ledger (ledger.service.ts),    *)
(* planning of payout batches against balances and reservations (plan,     *)
(* planOperator and canAutoApprove of payouts.service.ts) and the journal  *)
(* transactions of their execution.                                        *)
(*                                                                         *)
(* allocateDeposit and the planning transactions are serializable and take *)
(* an advisory lock, so each is one step; the policy a plan uses was read  *)
(* before.  Execution is the one PayoutExecution describes, reduced to the *)
(* steps that move money or reservations.                                  *)
(***************************************************************************)
EXTENDS Allocation

CONSTANTS
  NCustomers,        \* customers 1..NCustomers, in the order of their destinations
  Planners,          \* concurrent calls of plan and planOperator
  Policies,          \* records [limit, feePayer, maxItems]
  Minimum,           \* effective minimum of every destination
  OperatorMinimum,   \* minPayoutAtomic of the operator setting, which may be 0
  Deposits,          \* amounts of deposits
  Works,             \* work a customer may have done for a deposit
  CustomerBps,       \* split policy
  Fees,              \* network fees the wallet may ask for
  Suspendable,       \* customers whose status may change
  MaxDeposits, MaxBatches, MaxDays   \* bounds

Customers == 1..NCustomers
TreasuryAccount == 0
Revenue == -1
NetworkFee == -2
FeeRecovery == -3
Payable == Customers \cup {Revenue}
Accounts == Payable \cup {TreasuryAccount, NetworkFee, FeeRecovery}

ASSUME MinimumAssumption == Minimum \in Nat \ {0} /\ OperatorMinimum \in Nat

\* What the types and the validation of the code say of amounts and policies;
\* and decimal.js is precise enough for the fees: see Allocation.
ASSUME AmountAssumption ==
  /\ NCustomers \in Nat /\ Works \subseteq Nat /\ CustomerBps \in Nat /\ CustomerBps <= 10000
  /\ \A d \in Deposits : d \in Nat \ {0} /\ Representable(d)
  /\ \A f \in Fees : f \in Nat /\ Precise(f, NCustomers + 1)
  /\ \A p \in Policies : p.limit \in Nat

VARIABLES
  balance,       \* per account: credits minus debits of its journal entries
  batches,       \* PayoutBatch rows in order of creation
  policy,        \* the setting payout.schedule
  planning,      \* what a planning call has read: {} or {[kind, policy]}
  active,        \* customers with status ACTIVE
  wallet,        \* what the wallet holds on the chain
  today, deposited

vars == <<balance, batches, policy, planning, active, wallet, today, deposited>>

OPEN_PAYOUT_STATES == {"APPROVAL_REQUIRED", "AUTO_APPROVED", "SIGNED", "BROADCAST", "FAILED"}

Sum(S, f(_)) == SumFunction([x \in S |-> f(x)])

Ids(B) == {b \in DOMAIN batches : batches[b].state \in B}

\* grossAtomic of the item that a batch has for account a, if there is one.
Gross(b, a) == IF a \in DOMAIN b.items THEN b.items[a] ELSE 0

Reserved(a, S) == Sum(S, LAMBDA b : Gross(batches[b], a))

\* (Mutant: a failed batch no longer reserves anything.)
AvailableFailed(a) == balance[a] - Reserved(a, Ids(OPEN_PAYOUT_STATES \ {"FAILED"}))
Available(a) == balance[a] - Reserved(a, Ids(OPEN_PAYOUT_STATES))

Init ==
  /\ balance = [a \in Accounts |-> 0]
  /\ batches = <<>>
  /\ policy \in Policies
  /\ planning = [p \in Planners |-> {}]
  /\ active = Customers
  /\ wallet = 0
  /\ today = 1
  /\ deposited = 0

\* A journal transaction: credits is positive where an account is credited
\* and negative where it is debited.
Post(credits) == balance' = [a \in Accounts |-> balance[a] + credits[a]]

-----------------------------------------------------------------------------
(* Deposits. *)

\* A deposit reaches the wallet and allocateDeposit splits it over the work
\* of the customers.  The clearing account is debited and credited in the
\* same transaction; totals that differ would undo it.
AllocateDeposit ==
  /\ deposited < MaxDeposits
  /\ \E amount \in Deposits, work \in [Customers -> Works] :
       LET workers == {c \in Customers : work[c] > 0}
           items == Items(amount, [c \in workers |-> [customer |-> c, bps |-> CustomerBps, work |-> work[c]]])
       IN  /\ workers # {}
           /\ CustomerTotal(items) + OperatorTotal(items) = amount
           /\ Post([a \in Accounts |->
                CASE a \in Customers -> Credit(items, a)
                  [] a = Revenue -> OperatorTotal(items)
                  [] a = TreasuryAccount -> -amount
                  [] OTHER -> 0])
           /\ wallet' = wallet + amount
  /\ deposited' = deposited + 1
  /\ UNCHANGED <<batches, policy, planning, active, today>>

-----------------------------------------------------------------------------
(* Planning. *)

\* The policy is read before the transaction starts.
PlanRead(p, kind) ==
  /\ planning[p] = {}
  /\ planning' = [planning EXCEPT ![p] = {[kind |-> kind, policy |-> policy]}]
  /\ UNCHANGED <<balance, batches, policy, active, wallet, today, deposited>>

\* The first maxBatchItems destinations.  (Mutant: one too few.)
CandidatesFewer(max) == {c \in active : Cardinality({d \in active : d < c}) < max - 1}
Candidates(max) == {c \in active : Cardinality({d \in active : d < c}) < max}

\* Who gets an item, and the items: all that is available.
Payees(call) ==
  IF call.kind = "OPERATOR" THEN {a \in {Revenue} : Available(a) >= OperatorMinimum}
  ELSE {c \in Candidates(call.policy.maxItems) : Available(c) >= Minimum}

ItemsOf(call) == [a \in Payees(call) |-> Available(a)]

Total(items) == SumFunction(items)

\* What was approved automatically on a day.
AutoApproved(d) ==
  Sum({b \in DOMAIN batches : ~batches[b].thresholdHit /\ batches[b].day = d},
      LAMBDA b : Total(batches[b].items))

\* (Mutant: every batch is measured by itself.)
canAutoApproveAlone(amount, limit) == limit > 0 /\ amount <= limit
canAutoApprove(amount, limit) ==
  limit > 0 /\ amount <= limit /\ AutoApproved(today) + amount <= limit

\* The transaction of plan and planOperator; without items it creates nothing.
PlanCommit(p) ==
  /\ \E call \in planning[p] :
       LET items == ItemsOf(call)
           auto == canAutoApprove(Total(items), call.policy.limit)
       IN  IF Payees(call) = {} THEN UNCHANGED batches
           ELSE /\ Len(batches) < MaxBatches
                /\ batches' = Append(batches,
                     [state |-> IF auto THEN "AUTO_APPROVED" ELSE "APPROVAL_REQUIRED",
                      thresholdHit |-> ~auto, items |-> items, day |-> today,
                      operatorPays |-> call.kind = "CUSTOMER" /\ call.policy.feePayer = "OPERATOR",
                      signed |-> FALSE, fee |-> 0, fees |-> [a \in Payees(call) |-> 0], journaled |-> FALSE])
  /\ planning' = [planning EXCEPT ![p] = {}]
  /\ UNCHANGED <<balance, policy, active, wallet, today, deposited>>

\* updatePayoutSchedule.
UpdatePolicy ==
  /\ policy' \in Policies \ {policy}
  /\ UNCHANGED <<balance, batches, planning, active, wallet, today, deposited>>

\* setStatus of a customer.
SetStatus(c) ==
  /\ c \in Suspendable
  /\ active' = IF c \in active THEN active \ {c} ELSE active \cup {c}
  /\ UNCHANGED <<balance, batches, policy, planning, wallet, today, deposited>>

-----------------------------------------------------------------------------
(* What the portal shows (summary); the customer has an active address. *)

\* balance: what is not reserved, and never less than nothing.
payableAtomic(c) == IF Available(c) > 0 THEN Available(c) ELSE 0
eligibleAtNextRun(c) == c \in active /\ payableAtomic(c) >= Minimum

-----------------------------------------------------------------------------
(* Execution. *)

SetState(b, s) == batches' = [batches EXCEPT ![b].state = s]

Approve(b) ==
  /\ batches[b].state \in {"APPROVAL_REQUIRED", "FAILED"}
  /\ SetState(b, IF batches[b].signed THEN "SIGNED" ELSE "AUTO_APPROVED")
  /\ UNCHANGED <<balance, policy, planning, active, wallet, today, deposited>>

\* What a signed batch takes from the wallet: its outputs and the fee.
Spent(b) ==
  b.fee + Sum(DOMAIN b.items, LAMBDA a : b.items[a] - (IF b.operatorPays THEN 0 ELSE b.fees[a]))

\* preparePayout and the transaction that stores its result; the wallet must
\* have the money.  (PayoutFees has the rounds of preparePayout and the fee
\* limit; when they end in an error the batch fails.)
Sign(b) ==
  LET gross == batches[b].items IN
  /\ batches[b].state \in {"AUTO_APPROVED", "FAILED"} /\ ~batches[b].signed
  /\ SumFunction(gross) > 0
  /\ \E fee \in Fees :
       LET fees == largestRemainder(fee, gross) IN
       /\ \A a \in DOMAIN gross : ~batches[b].operatorPays => fees[a] < gross[a]
       /\ batches' = [batches EXCEPT ![b].state = "SIGNED", ![b].signed = TRUE,
                                     ![b].fee = fee, ![b].fees = fees]
       /\ Spent(batches'[b]) <= wallet
  /\ UNCHANGED <<balance, policy, planning, active, wallet, today, deposited>>

\* An error; it may also come after the commit below.
Fail(b) ==
  /\ batches[b].state \in {"AUTO_APPROVED", "SIGNED", "BROADCAST"}
  /\ SetState(b, "FAILED")
  /\ UNCHANGED <<balance, policy, planning, active, wallet, today, deposited>>

\* postPayout and postOperatorPayout of the item of account x.  (Mutant: the fee
\* is left out when the operator pays it.)
PayoutEntriesNoFee(x, gross, fee, operatorPays) == [a \in Accounts |->
  CASE a = x -> -gross
    [] a = TreasuryAccount -> gross
    [] OTHER -> 0]
PayoutEntries(x, gross, fee, operatorPays) == [a \in Accounts |->
  CASE a = x -> -gross
    [] a = TreasuryAccount -> gross + (IF operatorPays THEN fee ELSE 0)
    [] a = NetworkFee -> -fee
    [] a = FeeRecovery -> (IF operatorPays THEN 0 ELSE fee)
    [] OTHER -> 0]

\* The journal transactions of all items of a batch.
Journal(b) == [a \in Accounts |->
  Sum(DOMAIN b.items, LAMBDA x : PayoutEntries(x, b.items[x], b.fees[x], b.operatorPays)[a])]

\* The transactions are relayed (the network refuses to spend what is not
\* there any more) and the commit journals every item once.
Broadcast(b) ==
  LET batch == batches[b] IN
  /\ batch.state \in {"SIGNED", "FAILED"} /\ batch.signed
  /\ batches' = [batches EXCEPT ![b].state = "BROADCAST", ![b].journaled = TRUE]
  /\ IF batch.journaled THEN UNCHANGED <<balance, wallet>>
     ELSE /\ Spent(batch) <= wallet
          /\ Post(Journal(batch))
          /\ wallet' = wallet - Spent(batch)
  /\ UNCHANGED <<policy, planning, active, today, deposited>>

\* reconcile; the row may have become FAILED since it was read as BROADCAST.
Confirm(b) ==
  /\ batches[b].state \in {"BROADCAST", "FAILED"} /\ batches[b].journaled
  /\ SetState(b, "CONFIRMED")
  /\ UNCHANGED <<balance, policy, planning, active, wallet, today, deposited>>

NextDay ==
  /\ today < MaxDays
  /\ today' = today + 1
  /\ UNCHANGED <<balance, batches, policy, planning, active, wallet, deposited>>

Next ==
  \/ AllocateDeposit \/ UpdatePolicy \/ NextDay
  \/ \E c \in Customers : SetStatus(c)
  \/ \E p \in Planners : PlanCommit(p) \/ \E kind \in {"CUSTOMER", "OPERATOR"} : PlanRead(p, kind)
  \/ \E b \in DOMAIN batches : Approve(b) \/ Sign(b) \/ Fail(b) \/ Broadcast(b) \/ Confirm(b)

Spec == Init /\ [][Next]_vars

\* Every scheduled run plans customer payouts, whatever else is planned, and
\* a planning call ends.
FairSpec ==
  /\ Spec
  /\ \A p \in Planners : SF_vars(PlanRead(p, "CUSTOMER")) /\ WF_vars(PlanCommit(p))

-----------------------------------------------------------------------------
(* Properties. *)

\* The rows of batches that pay the accounts D.
Batch(D) ==
  [state: OPEN_PAYOUT_STATES \cup {"CONFIRMED"}, thresholdHit: BOOLEAN, items: [D -> Nat], day: Nat,
   operatorPays: BOOLEAN, signed: BOOLEAN, fee: Nat, fees: [D -> Nat], journaled: BOOLEAN]

TypeOK ==
  /\ balance \in [Accounts -> Int]
  /\ \A b \in DOMAIN batches : \E D \in SUBSET Payable : batches[b] \in Batch(D)
  /\ policy \in Policies
  /\ planning \in [Planners -> SUBSET [kind: {"CUSTOMER", "OPERATOR"}, policy: Policies]]
  /\ active \subseteq Customers
  /\ wallet \in Nat /\ today \in Nat

Unpaid == {b \in DOMAIN batches : ~batches[b].journaled}

\* Every claim that a batch was planned for is still there when the batch is
\* journalled, however plans, failures, retries and confirmations interleave:
\* no customer is paid more than its balance, nor the operator.
ReservedIsCovered == \A a \in Payable : Reserved(a, Unpaid) <= balance[a]

\* The treasury account is what the wallets hold: shares of fees, net amounts
\* and who pays the fee add up, for any mix of batches.
TreasuryIsWallet == balance[TreasuryAccount] + wallet = 0

\* "The daily limit is cumulative over the local day": however many batches
\* are planned on a day, what is approved automatically stays within the
\* largest limit a policy had.
AutoWithinDailyLimit ==
  \A d \in 1..today : \E pol \in Policies : AutoApproved(d) <= pol.limit

\* The wallets hold at least what the customers are owed.
CoveredWhoeverPays == wallet >= Sum(Customers, LAMBDA c : balance[c])

\* As long as no batch has its fee paid by the operator, the wallets hold at
\* least what the customers are owed: neither operator payouts nor the fees of
\* customer payouts take customers' money.  (With fees paid by the operator
\* they may: no plan reserves a fee against the operator's balance.)
CustomersAreCovered ==
  (\A b \in DOMAIN batches : ~batches[b].operatorPays) => CoveredWhoeverPays

\* The books are the wallets, and cover what customers are owed.
WalletsCover == TreasuryIsWallet /\ CustomersAreCovered

\* Whom the portal shows as eligible at the next run is taken into a batch by one
\* of the next runs of the scheduler, unless the portal withdraws that before or
\* the bound on batches is reached.
EligibleIsPlanned ==
  \A c \in Customers :
    eligibleAtNextRun(c) ~> ~eligibleAtNextRun(c) \/ Len(batches) = MaxBatches
=============================================================================
