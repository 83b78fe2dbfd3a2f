----------------------------- MODULE Allocation -----------------------------
(***************************************************************************)
(* ledger/allocation.ts and the part of ledger.service.ts that turns a     *)
(* deposit into allocation items.  Amounts are integers; the quotients are *)
(* decimal.js numbers, that is, decimals rounded half up to Precision      *)
(* significant digits (20 in the code).  Here a Decimal is an integer      *)
(* number of units of 10^-Scale.                                           *)
(***************************************************************************)
EXTENDS Integers, Sequences, FiniteSets, Functions

CONSTANTS
  Precision,   \* Decimal.precision
  Scale        \* decimal places that the model keeps

ASSUME PrecisionAssumption == Precision \in Nat \ {0} /\ Scale \in Nat

\* Powers of ten.
Pow10[n \in 0..(Precision + Scale)] == IF n = 0 THEN 1 ELSE 10 * Pow10[n - 1]

Unit == Pow10[Scale]

\* The place, in units, of the last significant digit of the Decimal v.
LastPlace(v) ==
  LET k == CHOOSE n \in 0..Scale : v < Pow10[Precision + n] /\ (n > 0 => v >= Pow10[Precision + n - 1])
  IN  Pow10[k]

\* An amount with no more digits than decimal.js keeps.
Representable(total) == total * Unit < Pow10[Precision + Scale]

\* Rounding n quotients of total changes their sum by less than an atomic unit:
\* their digits reach to Pow10[k] units, and half of that is lost at most.
Precise(total, n) ==
  \E k \in 0..Scale : total * Unit < Pow10[Precision + k] /\ n * Pow10[k] < 2 * Unit

\* The quotient a / b as a Decimal.
Div(a, b) ==
  LET u == LastPlace((a * Unit) \div b)
  IN  ((2 * a * Unit + b * u) \div (2 * b * u)) * u

\* new Decimal(total).mul(weight).div(totalWeight) of every weight; they are
\* integers small enough for the products and the sum to be exact.
Quotients(total, w) ==
  LET totalWeight == SumFunction(w) IN [i \in DOMAIN w |-> Div(total * w[i], totalWeight)]

Floor(q) == q \div Unit
Remainder(q) == q % Unit

\* (Mutant: the largest remainder gets the whole rest.)
ShareOfRestFirst(missing, exact, i) ==
  IF \A j \in DOMAIN exact : Remainder(exact[j]) - Remainder(exact[i]) < (IF j < i THEN 0 ELSE 1)
  THEN missing ELSE 0

\* The entries before i in the order of the loop over the entries: by falling
\* remainder and then by index.
Before(exact, i) ==
  {j \in DOMAIN exact :
     \/ Remainder(exact[j]) > Remainder(exact[i])
     \/ Remainder(exact[j]) = Remainder(exact[i]) /\ j < i}

\* What the loop adds to entry i: the missing units one by one, round and round.
ShareOfRest(missing, exact, i) ==
  LET n == Cardinality(DOMAIN exact)
  IN  IF missing <= 0 THEN 0
      ELSE missing \div n + (IF Cardinality(Before(exact, i)) < missing % n THEN 1 ELSE 0)

largestRemainder(total, w) ==
  LET exact == Quotients(total, w)
      missing == total - SumFunction([i \in DOMAIN w |-> Floor(exact[i])])
  IN  [i \in DOMAIN w |-> Floor(exact[i]) + ShareOfRest(missing, exact, i)]

splitBasisPoints(total, customerBps) ==
  LET customer == (total * customerBps) \div 10000
  IN  [customer |-> customer, operator |-> total - customer]

\* allocateDeposit: one item per group of accepted work.
Items(amount, groups) ==
  LET gross == largestRemainder(amount, [i \in DOMAIN groups |-> groups[i].work])
  IN  [i \in DOMAIN groups |->
         [customer |-> groups[i].customer, gross |-> gross[i],
          split |-> splitBasisPoints(gross[i], groups[i].bps)]]

CustomerTotal(items) == SumFunction([i \in DOMAIN items |-> items[i].split.customer])
OperatorTotal(items) == SumFunction([i \in DOMAIN items |-> items[i].split.operator])

\* What customer c is credited: its groups under all policies together.
\* (Mutant: the gross amounts.)
CreditGross(items, c) ==
  SumFunctionOnSet([i \in DOMAIN items |-> items[i].gross],
                   {i \in DOMAIN items : items[i].customer = c})
Credit(items, c) ==
  SumFunctionOnSet([i \in DOMAIN items |-> items[i].split.customer],
                   {i \in DOMAIN items : items[i].customer = c})
=============================================================================
