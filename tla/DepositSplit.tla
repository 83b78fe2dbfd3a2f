---------------------------- MODULE DepositSplit ----------------------------
(***************************************************************************)
(* The computation of allocateDeposit (ledger/ledger.service.ts) on every  *)
(* small deposit and distribution of work: the items of the allocation and *)
(* the two journal transactions it posts.                                  *)
(***************************************************************************)
EXTENDS Allocation

CONSTANTS
  CustomerIds,
  Amounts,      \* deposits, in atomic units
  GroupWorks,   \* normalised work of a group
  Bps,          \* customerBps of split policies
  MaxGroups     \* bound on the groups of one deposit

\* decimal.js has digits enough: rounding the quotients of a deposit loses less
\* than an atomic unit in all, and a unit of work is worth no less than the last
\* digit that is kept.
Discernible(total) ==
  \E k \in 0..Scale :
    /\ total * Unit < Pow10[Precision + k] /\ MaxGroups * Pow10[k] < 2 * Unit
    /\ \A w \in GroupWorks : (MaxGroups * w) * Pow10[k] <= total * Unit

\* Groups without work are left out.
ASSUME SplitAssumption ==
  /\ IsFiniteSet(CustomerIds) /\ MaxGroups \in Nat /\ GroupWorks \subseteq Nat \ {0}
  /\ Amounts \subseteq Nat \ {0} /\ \A a \in Amounts : Discernible(a)

\* splitBasisPoints throws on anything else.
ASSUME BpsAssumption == \A b \in Bps : b \in Nat /\ b <= 10000

VARIABLES
  amount, groups,   \* the deposit, and the work grouped by customer and policy
  items,            \* the allocation, <<>> before it is made
  result            \* "none", "allocated", "error"

splitVars == <<amount, groups, items, result>>

Group == [customer: CustomerIds, bps: Bps, work: GroupWorks]

\* groupBy returns a customer and policy once.
Distinct(gs) == \A i, j \in DOMAIN gs :
  i # j => <<gs[i].customer, gs[i].bps>> # <<gs[j].customer, gs[j].bps>>

SplitInit ==
  /\ amount \in Amounts
  /\ \E n \in 0..MaxGroups : groups \in {gs \in [1..n -> Group] : Distinct(gs)}
  /\ items = <<>>
  /\ result = "none"

\* A journal transaction with equal and positive totals; others throw.
Balanced(debits, credits) == debits = credits /\ debits > 0

\* No work is a conflict; totals that differ, or an unbalanced journal, undo
\* the transaction.
Allocate ==
  LET new == Items(amount, groups)
      credits == SumFunction([c \in CustomerIds |-> Credit(new, c)]) + OperatorTotal(new)
  IN
  /\ result = "none"
  /\ \/ /\ groups # <<>>
        /\ CustomerTotal(new) + OperatorTotal(new) = amount
        /\ Balanced(amount, credits)
        /\ items' = new /\ result' = "allocated"
     \/ /\ \/ groups = <<>>
           \/ CustomerTotal(new) + OperatorTotal(new) # amount
           \/ ~Balanced(amount, credits)
        /\ result' = "error" /\ UNCHANGED items
  /\ UNCHANGED <<amount, groups>>

-----------------------------------------------------------------------------
TotalWork == SumFunction([i \in DOMAIN groups |-> groups[i].work])

\* "Largest remainder makes customer gross allocations sum exactly to the
\* deposit": rounding of decimal.js never makes a deposit with work
\* unallocatable.
WorkIsAllocated == result = "error" => groups = <<>>

\* Every group gets its exact share rounded down or up, whatever decimal.js
\* made of the quotient.
WithinQuota ==
  \A i \in DOMAIN items :
    /\ items[i].gross * TotalWork > amount * groups[i].work - TotalWork
    /\ items[i].gross * TotalWork < amount * groups[i].work + TotalWork

\* A group that did more work is never credited less.
MoreWorkNotLess ==
  \A i, j \in DOMAIN items : groups[i].work > groups[j].work => items[i].gross >= items[j].gross

\* Customer and operator parts are never negative, and rounding within a
\* group favours the operator by less than one unit.
SplitIsFair ==
  \A i \in DOMAIN items :
    LET s == items[i].split IN
    /\ s.customer >= 0 /\ s.operator >= 0 /\ s.customer + s.operator = items[i].gross
    /\ s.customer * 10000 <= items[i].gross * groups[i].bps
    /\ items[i].gross * groups[i].bps < (s.customer + 1) * 10000

\* A deposit with work is allocated, and fairly: near the exact shares, in the
\* order of the work, and split by the policy of its group.
FairShares == WorkIsAllocated /\ WithinQuota /\ MoreWorkNotLess /\ SplitIsFair
=============================================================================
