----------------------------- MODULE PayoutFees -----------------------------
(***************************************************************************)
(* preparePayout of the two wallet adapters: the fee is not known before   *)
(* the wallet has built the transaction, and it changes the outputs, which *)
(* may change the fee.  The adapters build the transaction up to four more *)
(* times until the fee it needs is the fee its outputs were computed with; *)
(* executeUnderLock then compares that fee with the limit of the batch.    *)
(***************************************************************************)
EXTENDS Allocation

CONSTANTS
  WalletFees,   \* fees the wallet may come up with, atomic units rounded up
  MaxFeeBps     \* policy snapshot

MaxAttempts == 4

VARIABLES
  gross,        \* grossAtomic of the items
  deduct,       \* deductFeeFromOutputs: not when the operator pays for customers
  operator,     \* batch of kind OPERATOR: no limit on the fee
  attempt,
  feeAtomic,
  netItems,     \* netAtomic of the items
  transaction,  \* what the wallet has built last: [outputs, fee]
  pc            \* "idle", "start", "loop", "sign", "signed", "error"

walletVars == <<gross, deduct, operator, attempt, feeAtomic, netItems, transaction, pc>>

NoTransaction == [outputs |-> <<>>, fee |-> 0]

WalletInit ==
  /\ gross = <<>>
  /\ deduct = FALSE /\ operator = FALSE
  /\ attempt = 0
  /\ feeAtomic = 0
  /\ netItems = <<>>
  /\ transaction = NoTransaction
  /\ pc = "idle"

\* executeUnderLock calls preparePayout with the items of a batch.
PreparePayout(batch, operatorBatch, deductFee) ==
  /\ pc = "idle"
  /\ gross' = batch /\ operator' = operatorBatch /\ deduct' = deductFee
  /\ pc' = "start"
  /\ UNCHANGED <<attempt, feeAtomic, netItems, transaction>>

NotPrepared == pc' = "error" /\ UNCHANGED <<gross, deduct, operator, attempt, feeAtomic, netItems, transaction>>

\* The first transaction pays the gross amounts, only to learn a fee.
Preliminary ==
  /\ pc = "start"
  /\ \E f \in WalletFees : feeAtomic' = f
  /\ pc' = "loop"
  /\ UNCHANGED <<gross, deduct, operator, attempt, netItems, transaction>>

FeeShares == largestRemainder(feeAtomic, gross)

Net == [i \in DOMAIN gross |-> IF deduct THEN gross[i] - FeeShares[i] ELSE gross[i]]

TooSmall == deduct /\ \E i \in DOMAIN gross : FeeShares[i] >= gross[i]

\* (Mutant: the transaction of the last attempt is taken as it is.)
ConvergedLast(f) == f = feeAtomic \/ attempt = MaxAttempts - 1
Converged(f) == f = feeAtomic

\* One round: outputs from the last fee, a transaction for them, its fee.
Attempt ==
  /\ pc = "loop"
  /\ attempt < MaxAttempts
  /\ ~TooSmall
  /\ netItems' = Net
  /\ \E f \in WalletFees :
       /\ transaction' = [outputs |-> Net, fee |-> f]
       /\ IF Converged(f) THEN pc' = "sign" /\ UNCHANGED <<feeAtomic, attempt>>
          ELSE pc' = "loop" /\ feeAtomic' = f /\ attempt' = attempt + 1
  /\ UNCHANGED <<gross, deduct, operator>>

\* An item smaller than its fee, or four rounds without an answer.
GiveUp ==
  /\ pc = "loop"
  /\ attempt = MaxAttempts \/ TooSmall
  /\ NotPrepared

WithinLimit == operator \/ feeAtomic * 10000 <= SumFunction(gross) * MaxFeeBps

\* The wallet signs; back in executeUnderLock, the fee limit of customer batches.
CheckLimit ==
  /\ pc = "sign"
  /\ \/ WithinLimit /\ pc' = "signed" /\ UNCHANGED <<gross, deduct, operator, attempt, feeAtomic, netItems, transaction>>
     \/ ~WithinLimit /\ NotPrepared

\* The wallet is locked, does not sign completely, or returns no transactions.
NotSigned == pc = "sign" /\ NotPrepared

\* Payouts are disabled on this network, or the wallet builds no transaction.
WalletFails == pc \in {"start", "loop"} /\ NotPrepared

Step == Preliminary \/ Attempt \/ GiveUp \/ CheckLimit \/ NotSigned \/ WalletFails

-----------------------------------------------------------------------------
\* The fee and the net amounts that are stored with the batch, and later
\* journalled, are those of the transaction that was signed.
RecordMatchesTransaction ==
  pc = "signed" => transaction = [outputs |-> netItems, fee |-> feeAtomic]

\* The signed transaction takes from the wallet what the journal will credit
\* to the treasury: the gross amounts, and the fee on top when the operator
\* pays it.
SpendsWhatIsJournalled ==
  pc = "signed" =>
    SumFunction(transaction.outputs) + transaction.fee =
      SumFunction(gross) + (IF deduct THEN 0 ELSE feeAtomic)

\* Everyone in the batch is paid something, and nobody more than gross.
EveryoneIsPaid ==
  pc = "signed" => \A i \in DOMAIN gross : transaction.outputs[i] \in 1..gross[i]

\* "Payout network fee exceeds configured limit": no customer batch is signed
\* with a transaction whose own fee is above the limit.
FeeWithinLimit ==
  pc = "signed" /\ ~operator => transaction.fee * 10000 <= SumFunction(gross) * MaxFeeBps
=============================================================================
