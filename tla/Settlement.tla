----------------------------- MODULE Settlement -----------------------------
(***************************************************************************)
(* The way of a deposit through the two computations on its amount:        *)
(* allocateDeposit splits it (DepositSplit) and a payout of what it has    *)
(* credited is prepared by a wallet adapter (PayoutFees).  The payout is   *)
(* one of the customers' batch and the operator's own; that they and their *)
(* reservations do not interfere is the subject of Treasury.               *)
(***************************************************************************)
EXTENDS DepositSplit, PayoutFees

CONSTANT MinPayout   \* minPayoutAtomic of destinations and operator

\* The precision is enough to divide a fee among the items of a batch.
ASSUME PayoutAssumption ==
  /\ MinPayout \in Nat \ {0}
  /\ WalletFees \subseteq Nat /\ \A f \in WalletFees : Precise(f, MaxGroups)

SettlementInit == SplitInit /\ WalletInit

\* plan: the customers whose credit reaches the minimum.  Their order is that
\* of their destinations; here it is that of their first groups, which
\* SplitInit enumerates.  (Mutant: a customer is an item for each of its policies.)
CustomerGrossByPolicy ==
  [i \in {i \in DOMAIN groups : Credit(items, groups[i].customer) >= MinPayout} |-> Credit(items, groups[i].customer)]
CustomerGross ==
  [i \in {i \in DOMAIN groups :
            /\ \A j \in 1..(i - 1) : groups[j].customer # groups[i].customer
            /\ Credit(items, groups[i].customer) >= MinPayout}
     |-> Credit(items, groups[i].customer)]

PayCustomers(deductFee) ==
  /\ result = "allocated"
  /\ DOMAIN CustomerGross # {}
  /\ PreparePayout(CustomerGross, FALSE, deductFee)
  /\ UNCHANGED splitVars

\* planOperator: the operator's part, of which the fee is always deducted.
PayOperator ==
  /\ result = "allocated"
  /\ OperatorTotal(items) >= MinPayout
  /\ PreparePayout(<<OperatorTotal(items)>>, TRUE, TRUE)
  /\ UNCHANGED splitVars

SettlementNext ==
  \/ Allocate /\ UNCHANGED walletVars
  \/ \E deductFee \in BOOLEAN : PayCustomers(deductFee)
  \/ PayOperator
  \/ Step /\ UNCHANGED splitVars

SettlementSpec == SettlementInit /\ [][SettlementNext]_<<splitVars, walletVars>>

-----------------------------------------------------------------------------
\* However the wallet's fees change from round to round, a signed payout is
\* the recorded one: its fee and outputs are those of the batch, it spends what
\* the journal will credit to the treasury, pays everybody in it, and a
\* customers' batch respects the fee limit of its policy.
SignedAsRecorded ==
  /\ RecordMatchesTransaction
  /\ SpendsWhatIsJournalled
  /\ EveryoneIsPaid
  /\ FeeWithinLimit

\* From the deposit to the chain: what a payout of a deposit sends and pays in
\* fees comes out of this deposit alone, except the fee the operator pays for
\* customers.
PaidFromDeposit ==
  pc = "signed" =>
    SumFunction(transaction.outputs) + (IF deduct THEN transaction.fee ELSE 0)
      <= amount - (IF operator THEN CustomerTotal(items) ELSE OperatorTotal(items))

\* What is signed is what is recorded, and the deposit pays for it.
PaidAsRecorded == SignedAsRecorded /\ PaidFromDeposit
=============================================================================
