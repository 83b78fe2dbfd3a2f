--------------------------- MODULE TreasuryProofs ---------------------------
(***************************************************************************)
(* The money of Treasury, for any number of customers, planners, policies, *)
(* deposits, batches and days.  The arithmetic under it is that of         *)
(* SettlementProofs; the variables of Settlement do not occur here.        *)
(*                                                                         *)
(* A batch claims its items until it is journalled.  The claims of all     *)
(* batches are covered by the balances: a plan adds what was available,    *)
(* and every batch that is not journalled is in a state that available     *)
(* counts; the journal takes as much from the balance as it takes from the *)
(* claims.  That the books are the wallets rests on the fees of the items  *)
(* adding up to the fee of the batch (RemainderExact), and that customers  *)
(* are covered on the books being balanced: what the network fee account   *)
(* lacks, the recovery account has, unless the operator paid.              *)
(***************************************************************************)
EXTENDS Treasury, SettlementProofs

-----------------------------------------------------------------------------
(* The inductive invariant. *)

\* The rows of PayoutBatch.
Rows == UNION {Batch(D) : D \in SUBSET Payable}

\* What the batches bs still owe to account a, and what they approved
\* automatically on day d, batch by batch.
Claims(bs, a) == [b \in DOMAIN bs |-> IF bs[b].journaled THEN 0 ELSE Gross(bs[b], a)]
Approvals(bs, d) ==
  [b \in DOMAIN bs |-> IF ~bs[b].thresholdHit /\ bs[b].day = d THEN Total(bs[b].items) ELSE 0]

\* A signed batch divides its fee among its items; a batch is journalled when it
\* was signed, and reserves its items until then; it is not of a later day.
BatchOK(b, d) ==
  /\ b.signed => SumFunctionOnSet(b.fees, DOMAIN b.items) = b.fee
  /\ b.journaled => b.signed
  /\ ~b.journaled => b.state \in OPEN_PAYOUT_STATES
  /\ b.day <= d

BatchesOK(bs, d) == bs \in Seq(Rows) /\ \A b \in DOMAIN bs : BatchOK(bs[b], d)

\* The claims are covered.
Covered(bs, bal) == \A a \in Payable : SumFunctionOnSet(Claims(bs, a), DOMAIN bs) <= bal[a]

\* Every journal transaction is balanced.
BooksBalance(bal) ==
  SumFunctionOnSet(bal, Payable) + bal[TreasuryAccount] + bal[NetworkFee] + bal[FeeRecovery] = 0

\* What customers pay of the fees is what the network got.
FeesRecovered(bs, bal) ==
  (\A b \in DOMAIN bs : ~bs[b].operatorPays) => bal[NetworkFee] + bal[FeeRecovery] = 0

\* What was approved automatically on a day is within a limit.
WithinLimits(bs, d) ==
  \A e \in 1..d : \E pol \in Policies : SumFunctionOnSet(Approvals(bs, e), DOMAIN bs) <= pol.limit

\* The inductive invariant.
IInv ==
  /\ TypeOK
  /\ BatchesOK(batches, today)
  /\ Covered(batches, balance)
  /\ TreasuryIsWallet
  /\ BooksBalance(balance)
  /\ FeesRecovered(batches, balance)
  /\ WithinLimits(batches, today)

-----------------------------------------------------------------------------
(* Accounts and rows. *)

\* The accounts are different ones, and finitely many.
LEMMA PayableIs ==
  /\ IsFiniteSet(Payable) /\ Payable \subseteq Int /\ Cardinality(Payable) <= NCustomers + 1
  /\ Accounts = Payable \cup {TreasuryAccount, NetworkFee, FeeRecovery}
  /\ TreasuryAccount \notin Payable /\ NetworkFee \notin Payable /\ FeeRecovery \notin Payable
  /\ TreasuryAccount # NetworkFee /\ TreasuryAccount # FeeRecovery /\ NetworkFee # FeeRecovery
  /\ IsFiniteSet(Customers) /\ Revenue \notin Customers /\ Payable = Customers \cup {Revenue}
<1>1. NCustomers \in Nat
  BY AmountAssumption
<1>2. IsFiniteSet(Customers) /\ Cardinality(Customers) = NCustomers
  BY <1>1, FS_Interval DEF Customers
<1>3. Revenue \notin Customers
  BY <1>1 DEF Customers, Revenue
<1>4. IsFiniteSet(Payable) /\ Cardinality(Payable) = NCustomers + 1
  BY <1>2, <1>3, FS_AddElement, Zenon DEF Payable
<1>5. Payable \subseteq Int
  BY <1>1 DEF Payable, Customers, Revenue
<1> QED BY <1>1, <1>2, <1>3, <1>4, <1>5 DEF Payable, Accounts, Customers, TreasuryAccount, Revenue, NetworkFee, FeeRecovery

\* A row of PayoutBatch.
LEMMA RowIs ==
  ASSUME NEW r \in Rows
  PROVE  /\ r \in Batch(DOMAIN r.items)
         /\ DOMAIN r.items \subseteq Payable /\ IsFiniteSet(DOMAIN r.items) /\ DOMAIN r.fees = DOMAIN r.items
         /\ \A a \in DOMAIN r.items : r.items[a] \in Nat /\ r.fees[a] \in Nat
         /\ \A a : Gross(r, a) \in Nat
         /\ Total(r.items) = SumFunctionOnSet(r.items, DOMAIN r.items) /\ Total(r.items) \in Nat
<1>1. PICK D \in SUBSET Payable : r \in Batch(D)
  BY Zenon DEF Rows
<1>2. r.items \in [D -> Nat] /\ r.fees \in [D -> Nat] /\ DOMAIN r.items = D
  BY <1>1, Zenon DEF Batch
<1>3. IsFiniteSet(D)
  BY PayableIs, FS_Subset, Zenon
<1>4. SumFunctionOnSet(r.items, D) \in Nat
  BY <1>2, <1>3, SumNat, Zenon
<1>5. \A a : Gross(r, a) \in Nat
  BY <1>2, Zenon DEF Gross
<1> QED BY <1>1, <1>2, <1>3, <1>4, <1>5, Zenon DEF Total, SumFunction

LEMMA RowsAre ==
  ASSUME NEW bs \in Seq(Rows)
  PROVE  DOMAIN bs = 1..Len(bs) /\ Len(bs) \in Nat /\ IsFiniteSet(DOMAIN bs) /\ \A b \in DOMAIN bs : bs[b] \in Rows
<1>1. DOMAIN bs = 1..Len(bs) /\ Len(bs) \in Nat /\ \A b \in DOMAIN bs : bs[b] \in Rows
  OBVIOUS
<1> QED BY <1>1, FS_Interval

LEMMA ClaimsAre ==
  ASSUME NEW bs \in Seq(Rows), NEW a
  PROVE  /\ \A b \in DOMAIN bs : Claims(bs, a)[b] \in Nat
         /\ SumFunctionOnSet(Claims(bs, a), DOMAIN bs) \in Nat
<1>1. \A b \in DOMAIN bs : Claims(bs, a)[b] \in Nat
  BY RowsAre, RowIs, Zenon DEF Claims
<1> QED BY <1>1, RowsAre, SumNat, Zenon

LEMMA ApprovalsAre ==
  ASSUME NEW bs \in Seq(Rows), NEW d
  PROVE  /\ \A b \in DOMAIN bs : Approvals(bs, d)[b] \in Nat
         /\ SumFunctionOnSet(Approvals(bs, d), DOMAIN bs) \in Nat
<1>1. \A b \in DOMAIN bs : Approvals(bs, d)[b] \in Nat
  BY RowsAre, RowIs, Zenon DEF Approvals
<1> QED BY <1>1, RowsAre, SumNat, Zenon

-----------------------------------------------------------------------------
(* How changes of the batches change the sums. *)

\* A row is added.
LEMMA AppendRow ==
  ASSUME NEW bs \in Seq(Rows), NEW r \in Rows, NEW bs2, bs2 = Append(bs, r)
  PROVE  /\ bs2 \in Seq(Rows) /\ DOMAIN bs2 = DOMAIN bs \cup {Len(bs) + 1} /\ Len(bs) + 1 \notin DOMAIN bs
         /\ bs2[Len(bs) + 1] = r /\ \A b \in DOMAIN bs : bs2[b] = bs[b]
  OBVIOUS

LEMMA AppendSums ==
  ASSUME NEW bs \in Seq(Rows), NEW bs2 \in Seq(Rows), NEW n, DOMAIN bs2 = DOMAIN bs \cup {n}, n \notin DOMAIN bs,
         \A b \in DOMAIN bs : bs2[b] = bs[b]
  PROVE  /\ \A a : SumFunctionOnSet(Claims(bs2, a), DOMAIN bs2) =
                     SumFunctionOnSet(Claims(bs, a), DOMAIN bs) + (IF bs2[n].journaled THEN 0 ELSE Gross(bs2[n], a))
         /\ \A d : SumFunctionOnSet(Approvals(bs2, d), DOMAIN bs2) =
                     SumFunctionOnSet(Approvals(bs, d), DOMAIN bs)
                       + (IF ~bs2[n].thresholdHit /\ bs2[n].day = d THEN Total(bs2[n].items) ELSE 0)
<1> DEFINE I == DOMAIN bs
           J == DOMAIN bs2
           r == bs2[n]
<1>1. J = I \cup {n} /\ n \notin I /\ r \in Rows /\ \A b \in I : bs2[b] = bs[b]
  BY RowsAre, Zenon
<1>2. IsFiniteSet(I) /\ IsFiniteSet(J)
  BY RowsAre, Zenon
<1>3. ASSUME NEW f, NEW g, (\A b \in I : f[b] \in Int /\ g[b] = f[b]), g[n] \in Int
      PROVE  SumFunctionOnSet(g, J) = SumFunctionOnSet(f, I) + g[n]
  <2> HIDE DEF I, J
  <2>1. I \in SUBSET J /\ n \in J \ I /\ \A b \in J : g[b] \in Int
    BY <1>1, <1>3, Zenon
  <2>2. SumFunctionOnSet(g, I \cup {n}) = g[n] + SumFunctionOnSet(g, I) /\ SumFunctionOnSet(g, I) \in Int
    BY <1>2, <2>1, SumInsert
  <2>3. SumFunctionOnSet(g, I) = SumFunctionOnSet(f, I)
    BY <1>2, <1>3, SumEqual, Zenon
  <2> QED BY <1>1, <1>3, <2>2, <2>3
<1>4. ASSUME NEW a
      PROVE  SumFunctionOnSet(Claims(bs2, a), J) =
               SumFunctionOnSet(Claims(bs, a), I) + (IF r.journaled THEN 0 ELSE Gross(r, a))
  <2>1. \A b \in I : Claims(bs, a)[b] \in Int /\ Claims(bs2, a)[b] = Claims(bs, a)[b]
    <3>1. \A b \in I : Claims(bs, a)[b] \in Nat
      BY ClaimsAre, Zenon
    <3>2. \A b \in I : Claims(bs2, a)[b] = Claims(bs, a)[b]
      BY <1>1, Zenon DEF Claims
    <3> QED BY <3>1, <3>2
  <2>2. Claims(bs2, a)[n] = (IF r.journaled THEN 0 ELSE Gross(r, a)) /\ Claims(bs2, a)[n] \in Int
    BY <1>1, RowIs DEF Claims
  <2> HIDE DEF I, J
  <2> QED BY <2>1, <2>2, <1>3
<1>5. ASSUME NEW d
      PROVE  SumFunctionOnSet(Approvals(bs2, d), J) =
               SumFunctionOnSet(Approvals(bs, d), I) + (IF ~r.thresholdHit /\ r.day = d THEN Total(r.items) ELSE 0)
  <2>1. \A b \in I : Approvals(bs, d)[b] \in Int /\ Approvals(bs2, d)[b] = Approvals(bs, d)[b]
    <3>1. \A b \in I : Approvals(bs, d)[b] \in Nat
      BY ApprovalsAre, Zenon
    <3>2. \A b \in I : Approvals(bs2, d)[b] = Approvals(bs, d)[b]
      BY <1>1, Zenon DEF Approvals
    <3> QED BY <3>1, <3>2
  <2>2. /\ Approvals(bs2, d)[n] = (IF ~r.thresholdHit /\ r.day = d THEN Total(r.items) ELSE 0)
        /\ Approvals(bs2, d)[n] \in Int
    BY <1>1, RowIs DEF Approvals
  <2> HIDE DEF I, J
  <2> QED BY <2>1, <2>2, <1>3
<1> QED BY <1>1, <1>4, <1>5, Zenon

LEMMA AppendClaims ==
  ASSUME NEW bs \in Seq(Rows), NEW r \in Rows, NEW a
  PROVE  SumFunctionOnSet(Claims(Append(bs, r), a), DOMAIN Append(bs, r)) =
           SumFunctionOnSet(Claims(bs, a), DOMAIN bs) + (IF r.journaled THEN 0 ELSE Gross(r, a))
<1> DEFINE bs2 == Append(bs, r)
           n == Len(bs) + 1
<1>1. /\ bs2 \in Seq(Rows) /\ DOMAIN bs2 = DOMAIN bs \cup {n} /\ n \notin DOMAIN bs
      /\ bs2[n] = r /\ \A b \in DOMAIN bs : bs2[b] = bs[b]
  BY AppendRow
<1> HIDE DEF bs2, n
<1>2. SumFunctionOnSet(Claims(bs2, a), DOMAIN bs2) =
        SumFunctionOnSet(Claims(bs, a), DOMAIN bs) + (IF bs2[n].journaled THEN 0 ELSE Gross(bs2[n], a))
  BY <1>1, AppendSums
<1> QED BY <1>1, <1>2, Zenon DEF bs2

LEMMA AppendApprovals ==
  ASSUME NEW bs \in Seq(Rows), NEW r \in Rows, NEW d
  PROVE  SumFunctionOnSet(Approvals(Append(bs, r), d), DOMAIN Append(bs, r)) =
           SumFunctionOnSet(Approvals(bs, d), DOMAIN bs)
             + (IF ~r.thresholdHit /\ r.day = d THEN Total(r.items) ELSE 0)
<1> DEFINE bs2 == Append(bs, r)
           n == Len(bs) + 1
<1>1. /\ bs2 \in Seq(Rows) /\ DOMAIN bs2 = DOMAIN bs \cup {n} /\ n \notin DOMAIN bs
      /\ bs2[n] = r /\ \A b \in DOMAIN bs : bs2[b] = bs[b]
  BY AppendRow
<1> HIDE DEF bs2, n
<1>2. SumFunctionOnSet(Approvals(bs2, d), DOMAIN bs2) =
        SumFunctionOnSet(Approvals(bs, d), DOMAIN bs)
          + (IF ~bs2[n].thresholdHit /\ bs2[n].day = d THEN Total(bs2[n].items) ELSE 0)
  BY <1>1, AppendSums
<1> QED BY <1>1, <1>2, Zenon DEF bs2

\* A row is updated: its items, its day and its approval stay.
LEMMA UpdateRow ==
  ASSUME NEW bs \in Seq(Rows), NEW bs2 \in Seq(Rows), DOMAIN bs2 = DOMAIN bs,
         NEW b \in DOMAIN bs, \A c \in DOMAIN bs : c # b => bs2[c] = bs[c],
         bs2[b].items = bs[b].items, bs2[b].day = bs[b].day, bs2[b].thresholdHit = bs[b].thresholdHit
  PROVE  /\ \A d : Approvals(bs2, d) = Approvals(bs, d)
         /\ bs2[b].journaled = bs[b].journaled => \A a : Claims(bs2, a) = Claims(bs, a)
         /\ ~bs[b].journaled /\ bs2[b].journaled =>
              \A a : SumFunctionOnSet(Claims(bs2, a), DOMAIN bs2) =
                       SumFunctionOnSet(Claims(bs, a), DOMAIN bs) - Gross(bs[b], a)
<1>2. \A d : Approvals(bs2, d) = Approvals(bs, d)
  BY Zenon DEF Approvals
<1>3. ASSUME bs2[b].journaled = bs[b].journaled PROVE \A a : Claims(bs2, a) = Claims(bs, a)
  BY <1>3, Zenon DEF Claims, Gross
<1>4. ASSUME ~bs[b].journaled, bs2[b].journaled, NEW a
      PROVE  SumFunctionOnSet(Claims(bs2, a), DOMAIN bs2) = SumFunctionOnSet(Claims(bs, a), DOMAIN bs) - Gross(bs[b], a)
  <2> DEFINE f == Claims(bs, a)
             g == Claims(bs2, a)
             I == DOMAIN bs
  <2>1. IsFiniteSet(I) /\ (\A c \in I : f[c] \in Nat) /\ (\A c \in I : g[c] \in Nat) /\ SumFunctionOnSet(f, I) \in Nat
    BY RowsAre, ClaimsAre, Zenon
  <2>2. \A c \in I : c # b => g[c] = f[c]
    BY Zenon DEF Claims
  <2>3. f[b] = Gross(bs[b], a) /\ g[b] = 0 /\ b \in I
    BY <1>4, Zenon DEF Claims
  <2> HIDE DEF f, g, I
  <2>4. IsFiniteSet(I) /\ b \in I /\ (\A c \in I : f[c] \in Nat) /\ g[b] = 0 /\ \A c \in I : c # b => g[c] = f[c]
    BY <2>1, <2>2, <2>3, Zenon
  <2>5. SumFunctionOnSet(g, I) = SumFunctionOnSet(f, I) - f[b]
    BY <2>4, SumDrop
  <2> QED BY <2>3, <2>5, Zenon DEF f, g, I
<1> QED BY <1>2, <1>3, <1>4, Zenon

-----------------------------------------------------------------------------
(* The sums of the specification. *)

\* What the batches that are not journalled reserve are their claims ...
LEMMA ClaimsAreReserved ==
  ASSUME NEW bs \in Seq(Rows), NEW a
  PROVE  SumFunction([x \in {b \in DOMAIN bs : ~bs[b].journaled} |-> Gross(bs[x], a)]) =
           SumFunctionOnSet(Claims(bs, a), DOMAIN bs)
<1> DEFINE I == DOMAIN bs
           A == {b \in I : ~bs[b].journaled}
           f == [x \in A |-> Gross(bs[x], a)]
           g == Claims(bs, a)
<1>1. IsFiniteSet(I) /\ A \in SUBSET I /\ DOMAIN f = A
  BY RowsAre, Zenon
<1>2. \A x \in A : f[x] \in Int
  <2>1. \A x \in A : Gross(bs[x], a) \in Nat
    BY RowsAre, RowIs, Zenon
  <2> QED BY <2>1
<1>3. \A x \in I : g[x] = IF x \in A THEN f[x] ELSE 0
  BY Zenon DEF Claims
<1> HIDE DEF f, g, A, I
<1>4. SumFunctionOnSet(g, I) = SumFunctionOnSet(f, A)
  BY <1>1, <1>2, <1>3, SumSupport
<1>5. SumFunction(f) = SumFunctionOnSet(g, I)
  BY <1>1, <1>4, Zenon DEF SumFunction
<1> QED BY <1>5, Zenon DEF f, g, A, I

\* ... and the open batches reserve no less.
LEMMA ClaimsAreOpen ==
  ASSUME NEW bs \in Seq(Rows), NEW a, NEW S \in SUBSET (DOMAIN bs), \A b \in DOMAIN bs : ~bs[b].journaled => b \in S
  PROVE  /\ SumFunction([x \in S |-> Gross(bs[x], a)]) \in Nat
         /\ SumFunctionOnSet(Claims(bs, a), DOMAIN bs) <= SumFunction([x \in S |-> Gross(bs[x], a)])
<1> DEFINE I == DOMAIN bs
           A == {b \in I : ~bs[b].journaled}
           f == [x \in A |-> Gross(bs[x], a)]
           g == [x \in S |-> Gross(bs[x], a)]
<1>1. IsFiniteSet(I) /\ A \in SUBSET S /\ DOMAIN f = A /\ DOMAIN g = S
  BY RowsAre, Zenon
<1>2. \A x \in S : g[x] \in Nat
  <2>1. \A x \in S : Gross(bs[x], a) \in Nat
    BY RowsAre, RowIs, Zenon
  <2> QED BY <2>1, Zenon
<1>3. \A x \in A : f[x] = g[x]
  BY <1>1, Zenon
<1>4. SumFunction(f) = SumFunctionOnSet(Claims(bs, a), I)
  BY ClaimsAreReserved, Zenon
<1> HIDE DEF f, g, A
<1>5. IsFiniteSet(S) /\ IsFiniteSet(A)
  BY <1>1, FS_Subset, Zenon
<1>6. SumFunctionOnSet(g, A) <= SumFunctionOnSet(g, S) /\ SumFunctionOnSet(g, S) \in Nat
  BY <1>1, <1>2, <1>5, SumSubset, SumNat, Zenon
<1>7. \A x \in A : g[x] \in Int /\ f[x] = g[x]
  BY <1>1, <1>2, <1>3
<1>8. SumFunctionOnSet(f, A) = SumFunctionOnSet(g, A)
  BY <1>5, <1>7, SumEqual, Zenon
<1>9. SumFunction(g) \in Nat /\ SumFunctionOnSet(Claims(bs, a), I) <= SumFunction(g)
  BY <1>1, <1>4, <1>6, <1>8, Zenon DEF SumFunction
<1> QED BY <1>9, Zenon DEF g

LEMMA ApprovalsAreApproved ==
  ASSUME NEW bs \in Seq(Rows), NEW d
  PROVE  SumFunction([x \in {b \in DOMAIN bs : ~bs[b].thresholdHit /\ bs[b].day = d} |-> Total(bs[x].items)]) =
           SumFunctionOnSet(Approvals(bs, d), DOMAIN bs)
<1> DEFINE I == DOMAIN bs
           A == {b \in I : ~bs[b].thresholdHit /\ bs[b].day = d}
           f == [x \in A |-> Total(bs[x].items)]
           g == Approvals(bs, d)
<1>1. IsFiniteSet(I) /\ A \in SUBSET I /\ DOMAIN f = A
  BY RowsAre, Zenon
<1>2. \A x \in A : f[x] \in Int
  <2>1. \A x \in A : Total(bs[x].items) \in Nat
    BY RowsAre, RowIs, Zenon
  <2> QED BY <2>1
<1>3. \A x \in I : g[x] = IF x \in A THEN f[x] ELSE 0
  BY Zenon DEF Approvals
<1> HIDE DEF f, g, A, I
<1>4. SumFunctionOnSet(g, I) = SumFunctionOnSet(f, A)
  BY <1>1, <1>2, <1>3, SumSupport
<1>5. SumFunction(f) = SumFunctionOnSet(g, I)
  BY <1>1, <1>4, Zenon DEF SumFunction
<1> QED BY <1>5, Zenon DEF f, g, A, I

\* What journalling and paying the row r does.
LEMMA SpentIs ==
  ASSUME NEW r \in Rows, SumFunctionOnSet(r.fees, DOMAIN r.items) = r.fee
  PROVE  Spent(r) = Total(r.items) + (IF r.operatorPays THEN r.fee ELSE 0) /\ Spent(r) \in Nat
<1> DEFINE D == DOMAIN r.items
           f == r.items
           g == [a \in D |-> IF r.operatorPays THEN 0 ELSE r.fees[a]]
           h == [a \in D |-> r.items[a] - (IF r.operatorPays THEN 0 ELSE r.fees[a])]
<1>1. IsFiniteSet(D) /\ (\A a \in D : r.items[a] \in Nat /\ r.fees[a] \in Nat) /\ DOMAIN h = D
  BY RowIs, Zenon
<1>2. Total(r.items) = SumFunctionOnSet(f, D) /\ Total(r.items) \in Nat
  BY RowIs, Zenon
<1>3. r.fee \in Nat /\ r.operatorPays \in BOOLEAN
  BY RowIs, Zenon DEF Batch
<1>4. Spent(r) = r.fee + SumFunctionOnSet(h, D)
  BY <1>1, Zenon DEF Spent, Sum, SumFunction
<1>5. \A a \in D : f[a] \in Int /\ g[a] \in Int /\ h[a] = f[a] - g[a]
  BY <1>1
<1>6. SumFunctionOnSet(g, D) = IF r.operatorPays THEN 0 ELSE r.fee
  <2>1. CASE r.operatorPays
    <3>1. \A a \in D : g[a] = 0
      BY <2>1, Zenon
    <3> HIDE DEF g, D
    <3> QED BY <1>1, <2>1, <3>1, SumZero, Zenon
  <2>2. CASE ~r.operatorPays
    <3> DEFINE k == r.fees
    <3>1. \A a \in D : k[a] \in Int /\ g[a] = k[a]
      BY <1>1, <2>2
    <3>2. SumFunctionOnSet(k, D) = r.fee
      BY Zenon
    <3> HIDE DEF g, D, k
    <3>3. SumFunctionOnSet(g, D) = SumFunctionOnSet(k, D)
      BY <1>1, <3>1, SumEqual, Zenon
    <3> QED BY <2>2, <3>2, <3>3, Zenon
  <2> QED BY <2>1, <2>2, Zenon
<1> HIDE DEF f, g, h, D
<1>7. SumFunctionOnSet(h, D) = SumFunctionOnSet(f, D) - SumFunctionOnSet(g, D)
  BY <1>1, <1>5, SumMinus, Zenon
<1> QED BY <1>2, <1>3, <1>4, <1>6, <1>7

\* What the journal transactions of a row credit in all.
LEMMA JournalIs ==
  ASSUME NEW r \in Rows, SumFunctionOnSet(r.fees, DOMAIN r.items) = r.fee
  PROVE  /\ \A a \in Payable : Journal(r)[a] = -Gross(r, a)
         /\ Journal(r)[TreasuryAccount] = Total(r.items) + (IF r.operatorPays THEN r.fee ELSE 0)
         /\ Journal(r)[NetworkFee] = -r.fee
         /\ Journal(r)[FeeRecovery] = IF r.operatorPays THEN 0 ELSE r.fee
<1> DEFINE D == DOMAIN r.items
           k == r.fees
           Entry(a) == [x \in D |-> PayoutEntries(x, r.items[x], r.fees[x], r.operatorPays)[a]]
<1>1. IsFiniteSet(D) /\ D \subseteq Payable /\ \A x \in D : r.items[x] \in Nat /\ k[x] \in Nat
  BY RowIs, Zenon
<1>2. Total(r.items) = SumFunctionOnSet(r.items, D) /\ Total(r.items) \in Nat
  BY RowIs, Zenon
<1>3. r.fee \in Nat /\ r.operatorPays \in BOOLEAN /\ SumFunctionOnSet(k, D) = r.fee
  BY RowIs, Zenon DEF Batch
<1>4. \A a \in Accounts : Journal(r)[a] = SumFunctionOnSet(Entry(a), D)
  BY Zenon DEF Journal, Sum, SumFunction
<1>5. ASSUME NEW a \in Payable PROVE Journal(r)[a] = -Gross(r, a)
  <2> DEFINE g == Entry(a)
             f == [x \in D |-> -r.items[x]]
  <2>1. \A x \in D : f[x] \in Int /\ g[x] = (IF x = a THEN f[x] ELSE 0)
    BY <1>1, PayableIs DEF PayoutEntries
  <2>2. Journal(r)[a] = SumFunctionOnSet(g, D)
    BY <1>4, PayableIs, Zenon
  <2>3. CASE a \in D
    <3>1. f[a] = -Gross(r, a) /\ f[a] \in Int
      BY <1>1, <2>3 DEF Gross
    <3> DEFINE A == {a}
    <3>2. A \in SUBSET D /\ (\A x \in A : f[x] \in Int) /\ \A x \in D : g[x] = IF x \in A THEN f[x] ELSE 0
      BY <2>1, <2>3, Zenon
    <3> HIDE DEF f, g, D
    <3>3. SumFunctionOnSet(f, A) = f[a]
      BY <3>1, SumSingle, Zenon
    <3> HIDE DEF A
    <3>4. SumFunctionOnSet(g, D) = SumFunctionOnSet(f, A)
      BY <1>1, <3>2, SumSupport
    <3> QED BY <2>2, <3>1, <3>3, <3>4, Zenon
  <2>4. CASE a \notin D
    <3>1. \A x \in D : g[x] = 0
      BY <2>1, <2>4, Zenon
    <3>2. Gross(r, a) = 0
      BY <2>4, Zenon DEF Gross
    <3> HIDE DEF g, D
    <3> QED BY <1>1, <2>2, <3>1, <3>2, SumZero
  <2> QED BY <2>3, <2>4, Zenon
<1>6. /\ TreasuryAccount \in Accounts /\ NetworkFee \in Accounts /\ FeeRecovery \in Accounts
      /\ TreasuryAccount # NetworkFee /\ TreasuryAccount # FeeRecovery /\ NetworkFee # FeeRecovery
      /\ \A x \in D : x # TreasuryAccount /\ x # NetworkFee /\ x # FeeRecovery
  BY <1>1, PayableIs, Zenon
<1>7. \A x \in D :
        /\ Entry(TreasuryAccount)[x] = r.items[x] + (IF r.operatorPays THEN k[x] ELSE 0)
        /\ Entry(NetworkFee)[x] = -k[x]
        /\ Entry(FeeRecovery)[x] = IF r.operatorPays THEN 0 ELSE k[x]
  BY <1>6, Zenon DEF PayoutEntries
<1> HIDE DEF Entry
<1>8. Journal(r)[NetworkFee] = -r.fee
  <2> DEFINE g == Entry(NetworkFee)
  <2>1. \A x \in D : k[x] \in Int /\ g[x] = (-1) * k[x]
    BY <1>1, <1>7
  <2>2. Journal(r)[NetworkFee] = SumFunctionOnSet(g, D)
    BY <1>4, <1>6, Zenon
  <2> HIDE DEF g, D, k
  <2>3. SumFunctionOnSet(g, D) = (-1) * SumFunctionOnSet(k, D)
    BY <1>1, <2>1, SumTimes
  <2> QED BY <1>3, <2>2, <2>3
<1>9. CASE r.operatorPays
  <2> DEFINE g == Entry(TreasuryAccount)
             h == Entry(FeeRecovery)
             f == r.items
  <2>1. \A x \in D : f[x] \in Int /\ k[x] \in Int /\ g[x] = f[x] + k[x] /\ h[x] = 0
    BY <1>1, <1>7, <1>9
  <2>2. Journal(r)[TreasuryAccount] = SumFunctionOnSet(g, D) /\ Journal(r)[FeeRecovery] = SumFunctionOnSet(h, D)
    BY <1>4, <1>6, Zenon
  <2>4. Total(r.items) = SumFunctionOnSet(f, D)
    BY <1>2, Zenon
  <2> HIDE DEF f, g, h, D, k
  <2>3. SumFunctionOnSet(g, D) = SumFunctionOnSet(f, D) + SumFunctionOnSet(k, D) /\ SumFunctionOnSet(h, D) = 0
    BY <1>1, <2>1, SumPlus, SumZero, Zenon
  <2> QED BY <1>3, <1>5, <1>8, <1>9, <2>2, <2>3, <2>4, Zenon
<1>10. CASE ~r.operatorPays
  <2> DEFINE g == Entry(TreasuryAccount)
             h == Entry(FeeRecovery)
             f == r.items
  <2>1. \A x \in D : f[x] \in Int /\ k[x] \in Int /\ g[x] = f[x] /\ h[x] = k[x]
    BY <1>1, <1>7, <1>10
  <2>2. Journal(r)[TreasuryAccount] = SumFunctionOnSet(g, D) /\ Journal(r)[FeeRecovery] = SumFunctionOnSet(h, D)
    BY <1>4, <1>6, Zenon
  <2>4. Total(r.items) = SumFunctionOnSet(f, D)
    BY <1>2, Zenon
  <2> HIDE DEF f, g, h, D, k
  <2>3. SumFunctionOnSet(g, D) = SumFunctionOnSet(f, D) /\ SumFunctionOnSet(h, D) = SumFunctionOnSet(k, D)
    BY <1>1, <2>1, SumEqual, Zenon
  <2> QED BY <1>2, <1>3, <1>5, <1>8, <1>10, <2>2, <2>3, <2>4
<1> QED BY <1>3, <1>9, <1>10, Zenon

\* The items of a row are all that it takes from the payable accounts.
LEMMA GrossIsTotal ==
  ASSUME NEW r \in Rows
  PROVE  SumFunctionOnSet([a \in Payable |-> Gross(r, a)], Payable) = Total(r.items)
<1> DEFINE D == DOMAIN r.items
           f == r.items
           g == [a \in Payable |-> Gross(r, a)]
<1>1. D \in SUBSET Payable /\ IsFiniteSet(Payable) /\ \A x \in D : f[x] \in Int
  BY RowIs, PayableIs
<1>2. \A x \in Payable : g[x] = IF x \in D THEN f[x] ELSE 0
  BY Zenon DEF Gross
<1>3. Total(r.items) = SumFunctionOnSet(f, D)
  BY RowIs, Zenon
<1> HIDE DEF D, f, g
<1>4. SumFunctionOnSet(g, Payable) = SumFunctionOnSet(f, D)
  BY <1>1, <1>2, SumSupport
<1> QED BY <1>3, <1>4, Zenon DEF g

-----------------------------------------------------------------------------
(* The initial states, and the steps that leave the batches alone. *)

LEMMA RowsTyped ==
  ASSUME NEW bs \in Seq(Rows)
  PROVE  \A b \in DOMAIN bs : \E D \in SUBSET Payable : bs[b] \in Batch(D)
  BY RowsAre, Zenon DEF Rows

LEMMA InitIInv == Init => IInv
<1> SUFFICES ASSUME Init PROVE IInv
  BY Zenon
<1>1. batches \in Seq(Rows) /\ DOMAIN batches = {}
  BY DEF Init
<1>2. TypeOK
  BY <1>1 DEF Init, TypeOK
<1>3. BatchesOK(batches, today)
  BY <1>1, Zenon DEF BatchesOK
<1>4. \A a \in Accounts : balance[a] = 0
  BY Zenon DEF Init
<1>5. Covered(batches, balance)
  <2> SUFFICES ASSUME NEW a \in Payable PROVE SumFunctionOnSet(Claims(batches, a), DOMAIN batches) <= balance[a]
    BY Zenon DEF Covered
  <2>1. SumFunctionOnSet(Claims(batches, a), DOMAIN batches) = 0
    BY <1>1, SumEmpty, Zenon
  <2> QED BY <1>4, <2>1, PayableIs
<1>6. BooksBalance(balance) /\ FeesRecovered(batches, balance) /\ TreasuryIsWallet
  <2>0. \A a \in Payable : balance[a] = 0
    BY <1>4, PayableIs, Zenon
  <2>1. SumFunctionOnSet(balance, Payable) = 0
    BY <2>0, PayableIs, SumZero, Zenon
  <2>2. balance[TreasuryAccount] = 0 /\ balance[NetworkFee] = 0 /\ balance[FeeRecovery] = 0
    BY <1>4, PayableIs, Zenon
  <2>3. wallet = 0
    BY Zenon DEF Init
  <2>4. BooksBalance(balance)
    BY <2>1, <2>2 DEF BooksBalance
  <2>5. FeesRecovered(batches, balance)
    BY <2>2 DEF FeesRecovered
  <2>6. TreasuryIsWallet
    BY <2>2, <2>3 DEF TreasuryIsWallet
  <2> QED BY <2>4, <2>5, <2>6, Zenon
<1>7. WithinLimits(batches, today)
  <2> SUFFICES ASSUME NEW e \in 1..today
               PROVE  \E pol \in Policies : SumFunctionOnSet(Approvals(batches, e), DOMAIN batches) <= pol.limit
    BY Zenon DEF WithinLimits
  <2>1. SumFunctionOnSet(Approvals(batches, e), DOMAIN batches) = 0
    BY <1>1, SumEmpty, Zenon
  <2> QED BY <2>1, AmountAssumption DEF Init
<1> QED BY <1>2, <1>3, <1>5, <1>6, <1>7, Zenon DEF IInv

\* Nothing that the sums depend on changes.
LEMMA QuietStep ==
  ASSUME IInv, TypeOK', UNCHANGED <<balance, batches, wallet, today>>
  PROVE  IInv'
  BY Zenon DEF IInv, TreasuryIsWallet

LEMMA UpdatePolicyStep == ASSUME IInv, UpdatePolicy PROVE IInv'
<1>1. TypeOK'
  BY Zenon DEF IInv, TypeOK, UpdatePolicy
<1> QED BY <1>1, QuietStep, Zenon DEF UpdatePolicy

LEMMA SetStatusStep == ASSUME IInv, NEW c \in Customers, SetStatus(c) PROVE IInv'
<1>1. TypeOK'
  BY Zenon DEF IInv, TypeOK, SetStatus
<1> QED BY <1>1, QuietStep, Zenon DEF SetStatus

LEMMA PlanReadStep ==
  ASSUME IInv, NEW p \in Planners, NEW kind \in {"CUSTOMER", "OPERATOR"}, PlanRead(p, kind)
  PROVE  IInv'
<1>1. TypeOK'
  BY DEF IInv, TypeOK, PlanRead
<1> QED BY <1>1, QuietStep, Zenon DEF PlanRead

\* Nothing was approved yet on a new day.
LEMMA NextDayStep == ASSUME IInv, NextDay PROVE IInv'
<1>1. today \in Nat /\ today' = today + 1 /\ batches' = batches /\ balance' = balance /\ wallet' = wallet
  BY Zenon DEF IInv, TypeOK, NextDay
<1>2. TypeOK'
  BY DEF IInv, TypeOK, NextDay
<1>3. batches \in Seq(Rows) /\ \A b \in DOMAIN batches : BatchOK(batches[b], today)
  BY Zenon DEF IInv, BatchesOK
<1>4. \A b \in DOMAIN batches : batches[b].day \in Nat
  BY <1>3, RowsAre, RowIs, Zenon DEF Batch
<1>5. BatchesOK(batches, today + 1)
  <2>1. \A b \in DOMAIN batches : BatchOK(batches[b], today + 1)
    BY <1>1, <1>3, <1>4 DEF BatchOK
  <2> QED BY <1>3, <2>1, Zenon DEF BatchesOK
<1>6. WithinLimits(batches, today + 1)
  <2> SUFFICES ASSUME NEW e \in 1..(today + 1)
               PROVE  \E pol \in Policies : SumFunctionOnSet(Approvals(batches, e), DOMAIN batches) <= pol.limit
    BY Zenon DEF WithinLimits
  <2>1. CASE e \in 1..today
    BY <2>1, Zenon DEF IInv, WithinLimits
  <2>2. CASE e = today + 1
    <3> DEFINE f == Approvals(batches, e)
               I == DOMAIN batches
    <3>1. \A b \in I : batches[b].day # e
      BY <1>1, <1>3, <1>4, <2>2 DEF BatchOK
    <3>2. IsFiniteSet(I) /\ \A b \in I : f[b] = 0
      BY <3>1, <1>3, RowsAre, Zenon DEF Approvals
    <3> HIDE DEF f, I
    <3>3. SumFunctionOnSet(f, I) = 0
      BY <3>2, SumZero, Zenon
    <3> QED BY <3>3, AmountAssumption DEF f, I, IInv, TypeOK
  <2> QED BY <1>1, <2>1, <2>2
<1> QED BY <1>1, <1>2, <1>5, <1>6, Zenon DEF IInv, TreasuryIsWallet

-----------------------------------------------------------------------------
(* Steps that update a row. *)

\* A row is replaced.
LEMMA RowChange ==
  ASSUME NEW bs \in Seq(Rows), NEW b \in DOMAIN bs, NEW r \in Rows, NEW bs2, bs2 = [bs EXCEPT ![b] = r]
  PROVE  bs2 \in Seq(Rows) /\ DOMAIN bs2 = DOMAIN bs /\ bs2[b] = r /\ \A c \in DOMAIN bs : c # b => bs2[c] = bs[c]
  OBVIOUS

\* The row keeps what the sums depend on.
LEMMA KeepingStep ==
  ASSUME IInv, NEW b \in DOMAIN batches, NEW r \in Rows, batches' = [batches EXCEPT ![b] = r],
         r.items = batches[b].items, r.day = batches[b].day, r.thresholdHit = batches[b].thresholdHit,
         r.operatorPays = batches[b].operatorPays, r.journaled = batches[b].journaled,
         BatchOK(r, today), UNCHANGED <<balance, policy, planning, active, wallet, today>>
  PROVE  IInv'
<1> DEFINE bs == batches
           bs2 == batches'
<1>1. bs \in Seq(Rows) /\ \A c \in DOMAIN bs : BatchOK(bs[c], today)
  BY Zenon DEF IInv, BatchesOK
<1>2. bs2 \in Seq(Rows) /\ DOMAIN bs2 = DOMAIN bs /\ bs2[b] = r /\ \A c \in DOMAIN bs : c # b => bs2[c] = bs[c]
  BY <1>1, RowChange, Zenon
<1>3. (\A d : Approvals(bs2, d) = Approvals(bs, d)) /\ \A a : Claims(bs2, a) = Claims(bs, a)
  BY <1>1, <1>2, UpdateRow, Zenon
<1>4. TypeOK'
  BY <1>2, RowsTyped, Zenon DEF IInv, TypeOK
<1>5. BatchesOK(bs2, today)
  BY <1>1, <1>2, Zenon DEF BatchesOK
<1>6. Covered(bs2, balance) /\ WithinLimits(bs2, today)
  <2>1. Covered(bs, balance) /\ WithinLimits(bs, today)
    BY Zenon DEF IInv
  <2> QED BY <2>1, <1>2, <1>3, Zenon DEF Covered, WithinLimits
<1>7. FeesRecovered(bs2, balance)
  <2>1. FeesRecovered(bs, balance)
    BY Zenon DEF IInv
  <2> QED BY <2>1, <1>2, Zenon DEF FeesRecovered
<1> QED BY <1>4, <1>5, <1>6, <1>7, Zenon DEF IInv, TreasuryIsWallet

\* A batch changes its state.
LEMMA SetStateStep ==
  ASSUME IInv, NEW b \in DOMAIN batches, NEW s, SetState(b, s),
         s \in OPEN_PAYOUT_STATES \/ (s = "CONFIRMED" /\ batches[b].journaled),
         UNCHANGED <<balance, policy, planning, active, wallet, today>>
  PROVE  IInv'
<1> DEFINE q == batches[b]
           r == [q EXCEPT !.state = s]
<1>1. batches \in Seq(Rows) /\ BatchOK(q, today)
  BY Zenon DEF IInv, BatchesOK
<1>2. q \in Rows
  BY <1>1, RowsAre, Zenon
<1>3. q \in Batch(DOMAIN q.items) /\ DOMAIN q.items \subseteq Payable
  BY <1>2, RowIs, Zenon
<1>4. batches' = [batches EXCEPT ![b] = r]
  BY <1>1, Zenon DEF SetState
<1> HIDE DEF q
<1>5. r \in Batch(DOMAIN q.items)
  BY <1>3, Zenon DEF Batch
<1>6. r \in Rows
  BY <1>3, <1>5, Zenon DEF Rows
<1>7. /\ r.items = q.items /\ r.day = q.day /\ r.thresholdHit = q.thresholdHit /\ r.operatorPays = q.operatorPays
      /\ r.journaled = q.journaled /\ r.signed = q.signed /\ r.fee = q.fee /\ r.fees = q.fees /\ r.state = s
  BY <1>3, Zenon DEF Batch
<1> HIDE DEF r
<1>8. BatchOK(r, today)
  BY <1>1, <1>7, Zenon DEF BatchOK, q
<1> QED BY <1>4, <1>6, <1>7, <1>8, KeepingStep, Zenon DEF q

LEMMA ApproveStep == ASSUME IInv, NEW b \in DOMAIN batches, Approve(b) PROVE IInv'
<1> DEFINE s == IF batches[b].signed THEN "SIGNED" ELSE "AUTO_APPROVED"
<1>1. SetState(b, s) /\ s \in OPEN_PAYOUT_STATES /\ UNCHANGED <<balance, policy, planning, active, wallet, today>>
  BY Zenon DEF Approve, OPEN_PAYOUT_STATES
<1> HIDE DEF s
<1> QED BY <1>1, SetStateStep, Zenon

LEMMA FailStep == ASSUME IInv, NEW b \in DOMAIN batches, Fail(b) PROVE IInv'
<1>1. SetState(b, "FAILED") /\ "FAILED" \in OPEN_PAYOUT_STATES /\ UNCHANGED <<balance, policy, planning, active, wallet, today>>
  BY Zenon DEF Fail, OPEN_PAYOUT_STATES
<1> QED BY <1>1, SetStateStep, Zenon

LEMMA ConfirmStep == ASSUME IInv, NEW b \in DOMAIN batches, Confirm(b) PROVE IInv'
<1>1. SetState(b, "CONFIRMED") /\ batches[b].journaled /\ UNCHANGED <<balance, policy, planning, active, wallet, today>>
  BY Zenon DEF Confirm
<1> QED BY <1>1, SetStateStep, Zenon

\* The fees of a signed batch add up to its fee: largestRemainder is exact.
LEMMA SignStep == ASSUME IInv, NEW b \in DOMAIN batches, Sign(b) PROVE IInv'
<1> DEFINE q == batches[b]
<1>1. batches \in Seq(Rows) /\ BatchOK(q, today)
  BY Zenon DEF IInv, BatchesOK
<1>2. q \in Rows
  BY <1>1, RowsAre, Zenon
<1>3. q \in Batch(DOMAIN q.items) /\ DOMAIN q.items \subseteq Payable /\ IsFiniteSet(DOMAIN q.items)
  BY <1>2, RowIs, Zenon
<1>4. PICK fee \in Fees :
        batches' = [batches EXCEPT ![b].state = "SIGNED", ![b].signed = TRUE, ![b].fee = fee,
                                   ![b].fees = largestRemainder(fee, batches[b].items)]
  BY Zenon DEF Sign
<1> DEFINE fees == largestRemainder(fee, q.items)
           r == [q EXCEPT !.state = "SIGNED", !.signed = TRUE, !.fee = fee, !.fees = fees]
<1>5. batches' = [batches EXCEPT ![b] = r]
  BY <1>1, <1>4, Zenon
<1>6. SumFunction(q.items) > 0 /\ ~q.signed /\ UNCHANGED <<balance, policy, planning, active, wallet, today>>
  BY Zenon DEF Sign
<1> HIDE DEF q
<1>7. Weights(q.items)
  <2>1. \A a \in DOMAIN q.items : q.items[a] \in Nat
    BY <1>2, RowIs, Zenon
  <2> QED BY <1>3, <1>6, <2>1, PayableIs, Zenon DEF Weights
<1>8. fee \in Nat /\ Precise(fee, NCustomers + 1) /\ NCustomers + 1 \in Nat
  BY AmountAssumption
<1>9. Cardinality(DOMAIN q.items) <= NCustomers + 1
  <2>1. Cardinality(DOMAIN q.items) <= Cardinality(Payable) /\ Cardinality(Payable) \in Nat
    BY <1>3, PayableIs, FS_Subset, FS_CardinalityType, Zenon
  <2>2. Cardinality(DOMAIN q.items) \in Nat
    BY <1>3, FS_CardinalityType, Zenon
  <2> QED BY <2>1, <2>2, <1>8, PayableIs
<1>10. SumFunctionOnSet(fees, DOMAIN q.items) = fee
  BY <1>7, <1>8, <1>9, RemainderExact, Zenon
<1>11. fees \in [DOMAIN q.items -> Nat]
  BY <1>7, <1>8, RemainderNat, PreciseIsRepresentable, Zenon
<1> HIDE DEF fees
<1>12. /\ r.items = q.items /\ r.day = q.day /\ r.thresholdHit = q.thresholdHit /\ r.operatorPays = q.operatorPays
       /\ r.journaled = q.journaled /\ r.signed = TRUE /\ r.fee = fee /\ r.fees = fees /\ r.state = "SIGNED"
  BY <1>3, Zenon DEF Batch
<1>13. r \in Rows
  <2>1. r \in Batch(DOMAIN q.items)
    BY <1>3, <1>8, <1>11, Zenon DEF Batch, OPEN_PAYOUT_STATES
  <2> QED BY <1>3, <2>1, Zenon DEF Rows
<1> HIDE DEF r
<1>14. BatchOK(r, today)
  BY <1>1, <1>10, <1>12, Zenon DEF BatchOK, OPEN_PAYOUT_STATES
<1> QED BY <1>5, <1>6, <1>12, <1>13, <1>14, KeepingStep, Zenon DEF q

\* The journal takes from every account what the batch had claimed, and from the
\* wallets what is spent.
LEMMA BroadcastStep == ASSUME IInv, NEW b \in DOMAIN batches, Broadcast(b) PROVE IInv'
<1> DEFINE q == batches[b]
           r == [q EXCEPT !.state = "BROADCAST", !.journaled = TRUE]
<1>1. batches \in Seq(Rows) /\ BatchOK(q, today) /\ \A c \in DOMAIN batches : BatchOK(batches[c], today)
  BY Zenon DEF IInv, BatchesOK
<1>2. q \in Rows
  BY <1>1, RowsAre, Zenon
<1>3. q \in Batch(DOMAIN q.items) /\ DOMAIN q.items \subseteq Payable
  BY <1>2, RowIs, Zenon
<1>4. /\ batches' = [batches EXCEPT ![b] = r]
      /\ q.signed /\ UNCHANGED <<policy, planning, active, today>>
  BY <1>1, Zenon DEF Broadcast
<1>5. \/ q.journaled /\ UNCHANGED <<balance, wallet>>
      \/ ~q.journaled /\ Spent(q) <= wallet /\ Post(Journal(q)) /\ wallet' = wallet - Spent(q)
  BY Zenon DEF Broadcast
<1> HIDE DEF q
<1>6. /\ r.items = q.items /\ r.day = q.day /\ r.thresholdHit = q.thresholdHit /\ r.operatorPays = q.operatorPays
      /\ r.journaled = TRUE /\ r.signed = q.signed /\ r.fee = q.fee /\ r.fees = q.fees /\ r.state = "BROADCAST"
  BY <1>3, Zenon DEF Batch
<1>7. r \in Rows
  <2>1. r \in Batch(DOMAIN q.items)
    BY <1>3, Zenon DEF Batch, OPEN_PAYOUT_STATES
  <2> QED BY <1>3, <2>1, Zenon DEF Rows
<1> HIDE DEF r
<1>8. BatchOK(r, today)
  BY <1>1, <1>4, <1>6, Zenon DEF BatchOK
<1>9. CASE q.journaled
  <2>1. r.journaled = q.journaled
    BY <1>2, <1>3, <1>6, <1>9, Zenon DEF Batch
  <2> QED BY <1>4, <1>5, <1>6, <1>7, <1>8, <1>9, <2>1, KeepingStep, Zenon DEF q
<1>10. CASE ~q.journaled
  <2> DEFINE bs == batches
             bs2 == batches'
             fee == IF q.operatorPays THEN q.fee ELSE 0
  <2>1. SumFunctionOnSet(q.fees, DOMAIN q.items) = q.fee
    BY <1>1, <1>4, Zenon DEF BatchOK
  <2>2. bs2 \in Seq(Rows) /\ DOMAIN bs2 = DOMAIN bs /\ bs2[b] = r /\ \A c \in DOMAIN bs : c # b => bs2[c] = bs[c]
    BY <1>1, <1>4, <1>7, RowChange, Zenon
  <2>3. /\ \A d : Approvals(bs2, d) = Approvals(bs, d)
        /\ \A a : SumFunctionOnSet(Claims(bs2, a), DOMAIN bs2) = SumFunctionOnSet(Claims(bs, a), DOMAIN bs) - Gross(q, a)
    BY <1>1, <1>6, <1>10, <2>2, UpdateRow, Zenon DEF q
  <2>4. balance \in [Accounts -> Int] /\ wallet \in Nat
    BY Zenon DEF IInv, TypeOK
  <2>5. q.fee \in Nat /\ q.operatorPays \in BOOLEAN /\ Total(q.items) \in Nat /\ fee \in Nat
    BY <1>2, <1>3, RowIs, Zenon DEF Batch
  <2>6. /\ \A a \in Payable : Journal(q)[a] = -Gross(q, a) /\ Gross(q, a) \in Nat
        /\ Journal(q)[TreasuryAccount] = Total(q.items) + fee
        /\ Journal(q)[NetworkFee] = -q.fee
        /\ Journal(q)[FeeRecovery] = q.fee - fee
    BY <1>2, <2>1, <2>5, JournalIs, RowIs
  <2>7. Spent(q) = Total(q.items) + fee /\ Spent(q) \in Nat
    BY <1>2, <2>1, SpentIs, Zenon
  <2> HIDE DEF fee
  <2>8. balance' = [a \in Accounts |-> balance[a] + Journal(q)[a]] /\ wallet' = wallet - Spent(q) /\ Spent(q) <= wallet
    BY <1>5, <1>10, Zenon DEF Post
  <2>9. /\ \A a \in Payable : balance[a] \in Int /\ balance'[a] = balance[a] - Gross(q, a)
        /\ balance[TreasuryAccount] \in Int /\ balance'[TreasuryAccount] = balance[TreasuryAccount] + Total(q.items) + fee
        /\ balance[NetworkFee] \in Int /\ balance'[NetworkFee] = balance[NetworkFee] - q.fee
        /\ balance[FeeRecovery] \in Int /\ balance'[FeeRecovery] = balance[FeeRecovery] + q.fee - fee
    BY <2>4, <2>5, <2>6, <2>8, PayableIs
  <2>10. TypeOK'
    <3>1. balance' \in [Accounts -> Int]
      <4>1. \A a \in Accounts : balance'[a] \in Int
        BY <2>5, <2>6, <2>9, PayableIs
      <4> QED BY <2>8, <4>1, Zenon
    <3>2. wallet' \in Nat
      BY <2>4, <2>7, <2>8
    <3> QED BY <1>4, <2>2, <3>1, <3>2, RowsTyped, Zenon DEF IInv, TypeOK
  <2>11. BatchesOK(bs2, today)
    BY <1>1, <1>8, <2>2, Zenon DEF BatchesOK
  <2>12. Covered(bs2, balance')
    <3> SUFFICES ASSUME NEW a \in Payable PROVE SumFunctionOnSet(Claims(bs2, a), DOMAIN bs2) <= balance'[a]
      BY Zenon DEF Covered
    <3>1. SumFunctionOnSet(Claims(bs, a), DOMAIN bs) <= balance[a]
      BY Zenon DEF IInv, Covered
    <3>2. SumFunctionOnSet(Claims(bs, a), DOMAIN bs) \in Nat
      BY <1>1, ClaimsAre, Zenon
    <3>3. SumFunctionOnSet(Claims(bs2, a), DOMAIN bs2) = SumFunctionOnSet(Claims(bs, a), DOMAIN bs) - Gross(q, a)
      BY <2>3, Zenon
    <3>4. Gross(q, a) \in Nat /\ balance[a] \in Int /\ balance'[a] = balance[a] - Gross(q, a)
      BY <2>6, <2>9, Zenon
    <3> QED BY <3>1, <3>2, <3>3, <3>4
  <2>13. TreasuryIsWallet'
    BY <2>4, <2>5, <2>7, <2>8, <2>9 DEF IInv, TreasuryIsWallet
  <2>14. BooksBalance(balance')
    <3> DEFINE f == balance
               g == [a \in Payable |-> Gross(q, a)]
               h == balance'
    <3>1. \A a \in Payable : f[a] \in Int /\ g[a] \in Int /\ h[a] = f[a] - g[a]
      BY <2>6, <2>9
    <3>2. SumFunctionOnSet(g, Payable) = Total(q.items)
      BY <1>2, GrossIsTotal, Zenon
    <3>3. BooksBalance(f)
      BY Zenon DEF IInv
    <3> HIDE DEF f, g, h
    <3>4. SumFunctionOnSet(h, Payable) = SumFunctionOnSet(f, Payable) - SumFunctionOnSet(g, Payable)
      BY <3>1, PayableIs, SumMinus, Zenon
    <3>5. SumFunctionOnSet(f, Payable) \in Int
      BY <3>1, PayableIs, SumInt, Zenon
    <3> QED BY <2>5, <2>9, <3>2, <3>3, <3>4, <3>5 DEF BooksBalance, f, h
  <2>15. FeesRecovered(bs2, balance')
    <3> SUFFICES ASSUME \A c \in DOMAIN bs2 : ~bs2[c].operatorPays
                 PROVE  balance'[NetworkFee] + balance'[FeeRecovery] = 0
      BY Zenon DEF FeesRecovered
    <3>1. \A c \in DOMAIN bs : ~bs[c].operatorPays
      BY <1>6, <2>2, Zenon DEF q
    <3>2. balance[NetworkFee] + balance[FeeRecovery] = 0
      BY <3>1, Zenon DEF IInv, FeesRecovered
    <3>3. fee = 0
      BY <3>1, Zenon DEF fee, q
    <3> QED BY <2>5, <2>9, <3>2, <3>3
  <2>16. WithinLimits(bs2, today)
    BY <2>2, <2>3, Zenon DEF IInv, WithinLimits
  <2> QED BY <1>4, <2>10, <2>11, <2>12, <2>13, <2>14, <2>15, <2>16, Zenon DEF IInv
<1> QED BY <1>9, <1>10, Zenon

-----------------------------------------------------------------------------
(* Planning and deposits. *)

\* What is available is not claimed.
LEMMA AvailableIs ==
  ASSUME IInv, NEW a \in Payable
  PROVE  /\ Available(a) \in Int
         /\ SumFunctionOnSet(Claims(batches, a), DOMAIN batches) + Available(a) <= balance[a]
<1> DEFINE S == Ids(OPEN_PAYOUT_STATES)
           R == SumFunction([x \in S |-> Gross(batches[x], a)])
<1>1. batches \in Seq(Rows) /\ \A b \in DOMAIN batches : BatchOK(batches[b], today)
  BY Zenon DEF IInv, BatchesOK
<1>2. S \in SUBSET (DOMAIN batches) /\ \A b \in DOMAIN batches : ~batches[b].journaled => b \in S
  BY <1>1, Zenon DEF Ids, BatchOK
<1>3. Available(a) = balance[a] - R
  BY Zenon DEF Available, Reserved, Sum
<1> HIDE DEF S
<1>4. R \in Nat /\ SumFunctionOnSet(Claims(batches, a), DOMAIN batches) <= R
  BY <1>1, <1>2, ClaimsAreOpen, Zenon
<1>5. SumFunctionOnSet(Claims(batches, a), DOMAIN batches) \in Nat
  BY <1>1, ClaimsAre, Zenon
<1>6. balance[a] \in Int
  BY PayableIs, Zenon DEF IInv, TypeOK
<1> HIDE DEF R
<1> QED BY <1>3, <1>4, <1>5, <1>6

LEMMA PayeesAre ==
  ASSUME IInv, NEW call
  PROVE  Payees(call) \subseteq Payable /\ \A a \in Payees(call) : Available(a) \in Nat
<1>1. Minimum \in Nat /\ OperatorMinimum \in Nat
  BY MinimumAssumption, Zenon
<1>2. active \subseteq Customers
  BY Zenon DEF IInv, TypeOK
<1>3. \A a \in Payees(call) : a \in Payable /\ (Available(a) >= Minimum \/ Available(a) >= OperatorMinimum)
  BY <1>2, PayableIs, Zenon DEF Payees, Candidates
<1>4. \A a \in Payable : Available(a) \in Int
  BY AvailableIs, Zenon
<1> QED BY <1>1, <1>3, <1>4

\* A new batch claims what was available, and is approved within the limit.
LEMMA PlanCommitStep == ASSUME IInv, NEW p \in Planners, PlanCommit(p) PROVE IInv'
<1>1. PICK call \in planning[p] :
        LET its == ItemsOf(call)
            auto == canAutoApprove(Total(its), call.policy.limit)
        IN  IF Payees(call) = {} THEN UNCHANGED batches
            ELSE batches' = Append(batches,
                     [state |-> IF auto THEN "AUTO_APPROVED" ELSE "APPROVAL_REQUIRED",
                      thresholdHit |-> ~auto, items |-> its, day |-> today,
                      operatorPays |-> call.kind = "CUSTOMER" /\ call.policy.feePayer = "OPERATOR",
                      signed |-> FALSE, fee |-> 0, fees |-> [a \in Payees(call) |-> 0], journaled |-> FALSE])
  BY Zenon DEF PlanCommit
<1>2. planning' = [planning EXCEPT ![p] = {}] /\ UNCHANGED <<balance, policy, active, wallet, today>>
  BY Zenon DEF PlanCommit
<1>3. call.policy \in Policies /\ today \in Nat
  BY DEF IInv, TypeOK
<1>4. CASE batches' = batches
  <2>1. TypeOK'
    BY <1>2, <1>4, Zenon DEF IInv, TypeOK
  <2> QED BY <1>2, <1>4, <2>1, QuietStep, Zenon
<1>5. CASE batches' # batches
  <2> DEFINE D == Payees(call)
             its == ItemsOf(call)
             auto == canAutoApprove(Total(its), call.policy.limit)
             payer == call.kind = "CUSTOMER" /\ call.policy.feePayer = "OPERATOR"
             r == [state |-> IF auto THEN "AUTO_APPROVED" ELSE "APPROVAL_REQUIRED",
                   thresholdHit |-> ~auto, items |-> its, day |-> today, operatorPays |-> payer,
                   signed |-> FALSE, fee |-> 0, fees |-> [a \in D |-> 0], journaled |-> FALSE]
             bs == batches
             bs2 == batches'
  <2>1. bs2 = Append(bs, r)
    BY <1>1, <1>5, Zenon
  <2>2. D \subseteq Payable /\ its \in [D -> Nat] /\ \A a \in D : its[a] = Available(a)
    BY PayeesAre, Zenon DEF ItemsOf
  <2>3. auto \in BOOLEAN /\ payer \in BOOLEAN
    BY Zenon DEF canAutoApprove
  <2>4. auto => AutoApproved(today) + Total(its) <= call.policy.limit
    BY Zenon DEF canAutoApprove
  <2> HIDE DEF D, its, auto, payer
  <2>5. r \in Rows
    <3>1. r \in Batch(D)
      BY <1>3, <2>2, <2>3, Zenon DEF Batch, OPEN_PAYOUT_STATES
    <3> QED BY <2>2, <3>1, Zenon DEF Rows
  <2>6. /\ r.journaled = FALSE /\ r.signed = FALSE /\ r.items = its /\ r.day = today /\ r.thresholdHit = ~auto
        /\ r.state \in OPEN_PAYOUT_STATES
    BY Zenon DEF OPEN_PAYOUT_STATES
  <2> HIDE DEF r
  <2>7. bs \in Seq(Rows) /\ \A b \in DOMAIN bs : BatchOK(bs[b], today)
    BY Zenon DEF IInv, BatchesOK
  <2>8. /\ bs2 \in Seq(Rows) /\ DOMAIN bs2 = DOMAIN bs \cup {Len(bs) + 1} /\ Len(bs) + 1 \notin DOMAIN bs
        /\ bs2[Len(bs) + 1] = r /\ \A b \in DOMAIN bs : bs2[b] = bs[b]
    BY <2>1, <2>5, <2>7, AppendRow
  <2>14. /\ \A a : SumFunctionOnSet(Claims(bs2, a), DOMAIN bs2) =
                     SumFunctionOnSet(Claims(bs, a), DOMAIN bs) + (IF r.journaled THEN 0 ELSE Gross(r, a))
         /\ \A d : SumFunctionOnSet(Approvals(bs2, d), DOMAIN bs2) =
                     SumFunctionOnSet(Approvals(bs, d), DOMAIN bs)
                       + (IF ~r.thresholdHit /\ r.day = d THEN Total(r.items) ELSE 0)
    <3>1. ASSUME NEW a
          PROVE  SumFunctionOnSet(Claims(Append(bs, r), a), DOMAIN Append(bs, r)) =
                   SumFunctionOnSet(Claims(bs, a), DOMAIN bs) + (IF r.journaled THEN 0 ELSE Gross(r, a))
      BY <2>5, <2>7, AppendClaims, Zenon
    <3>2. ASSUME NEW d
          PROVE  SumFunctionOnSet(Approvals(Append(bs, r), d), DOMAIN Append(bs, r)) =
                   SumFunctionOnSet(Approvals(bs, d), DOMAIN bs)
                     + (IF ~r.thresholdHit /\ r.day = d THEN Total(r.items) ELSE 0)
      BY <2>5, <2>7, AppendApprovals, Zenon
    <3> QED BY <2>1, <3>1, <3>2, Zenon
  <2>9. TypeOK'
    BY <1>2, <2>8, RowsTyped, Zenon DEF IInv, TypeOK
  <2>10. BatchesOK(bs2, today)
    <3>1. BatchOK(r, today)
      BY <1>3, <2>6 DEF BatchOK
    <3> QED BY <2>7, <2>8, <3>1, Zenon DEF BatchesOK
  <2>11. Covered(bs2, balance)
    <3> SUFFICES ASSUME NEW a \in Payable PROVE SumFunctionOnSet(Claims(bs2, a), DOMAIN bs2) <= balance[a]
      BY Zenon DEF Covered
    <3>1. SumFunctionOnSet(Claims(bs2, a), DOMAIN bs2) = SumFunctionOnSet(Claims(bs, a), DOMAIN bs) + Gross(r, a)
      <4>1. SumFunctionOnSet(Claims(bs2, a), DOMAIN bs2) =
              SumFunctionOnSet(Claims(bs, a), DOMAIN bs) + (IF r.journaled THEN 0 ELSE Gross(r, a))
        BY <2>14, Zenon
      <4> QED BY <2>6, <4>1, Zenon
    <3>2. SumFunctionOnSet(Claims(bs, a), DOMAIN bs) \in Nat
      BY <2>7, ClaimsAre, Zenon
    <3>3. CASE a \in D
      <4>1. Gross(r, a) = Available(a)
        BY <2>2, <2>6, <3>3, Zenon DEF Gross
      <4> QED BY <3>1, <4>1, AvailableIs, Zenon
    <3>4. CASE a \notin D
      <4>1. Gross(r, a) = 0
        BY <2>2, <2>6, <3>4, Zenon DEF Gross
      <4> QED BY <3>1, <3>2, <4>1 DEF IInv, Covered
    <3> QED BY <3>3, <3>4, Zenon
  <2>12. FeesRecovered(bs2, balance)
    BY <2>8, Zenon DEF IInv, FeesRecovered
  <2>13. WithinLimits(bs2, today)
    <3> SUFFICES ASSUME NEW e \in 1..today
                 PROVE  \E pol \in Policies : SumFunctionOnSet(Approvals(bs2, e), DOMAIN bs2) <= pol.limit
      BY Zenon DEF WithinLimits
    <3>1. SumFunctionOnSet(Approvals(bs2, e), DOMAIN bs2) =
            SumFunctionOnSet(Approvals(bs, e), DOMAIN bs) + (IF auto /\ today = e THEN Total(its) ELSE 0)
      <4>1. SumFunctionOnSet(Approvals(bs2, e), DOMAIN bs2) =
              SumFunctionOnSet(Approvals(bs, e), DOMAIN bs)
                + (IF ~r.thresholdHit /\ r.day = e THEN Total(r.items) ELSE 0)
        BY <2>14, Zenon
      <4> QED BY <2>3, <2>6, <4>1, Zenon
    <3>2. SumFunctionOnSet(Approvals(bs, e), DOMAIN bs) \in Nat
      BY <2>7, ApprovalsAre, Zenon
    <3>3. CASE auto /\ today = e
      <4>1. AutoApproved(today) = SumFunctionOnSet(Approvals(bs, today), DOMAIN bs)
        BY <2>7, ApprovalsAreApproved, Zenon DEF AutoApproved, Sum
      <4> QED BY <1>3, <2>4, <3>1, <3>3, <4>1, Zenon
    <3>4. CASE ~(auto /\ today = e)
      BY <3>1, <3>2, <3>4 DEF IInv, WithinLimits
    <3> QED BY <3>3, <3>4, Zenon
  <2> QED BY <1>2, <2>9, <2>10, <2>11, <2>12, <2>13, Zenon DEF IInv, TreasuryIsWallet
<1> QED BY <1>4, <1>5, Zenon

\* A deposit credits the customers and the operator with what reached the wallet.
LEMMA AllocateDepositStep == ASSUME IInv, AllocateDeposit PROVE IInv'
<1> DEFINE Workers(work) == {c \in Customers : work[c] > 0}
           Groups(work) == [c \in Workers(work) |-> [customer |-> c, bps |-> CustomerBps, work |-> work[c]]]
           Credits(deposit, its) == [a \in Accounts |->
             CASE a \in Customers -> Credit(its, a)
               [] a = Revenue -> OperatorTotal(its)
               [] a = TreasuryAccount -> -deposit
               [] OTHER -> 0]
<1>1. PICK deposit \in Deposits, work \in [Customers -> Works] :
        /\ Workers(work) # {}
        /\ CustomerTotal(Items(deposit, Groups(work))) + OperatorTotal(Items(deposit, Groups(work))) = deposit
        /\ Post(Credits(deposit, Items(deposit, Groups(work))))
        /\ wallet' = wallet + deposit
  BY Zenon DEF AllocateDeposit
<1>2. UNCHANGED <<batches, policy, planning, active, today>>
  BY Zenon DEF AllocateDeposit
<1> DEFINE gs == Groups(work)
           its == Items(deposit, gs)
           cr == [c \in Customers |-> Credit(its, c)]
<1>3. deposit \in Nat /\ Representable(deposit)
  BY AmountAssumption
<1>4. WorkGroups(gs) /\ \A i \in DOMAIN gs : gs[i].customer \in Customers
  <2>1. DOMAIN gs \subseteq Customers /\ DOMAIN gs # {} /\ Customers \subseteq Int
    BY <1>1, PayableIs, Zenon
  <2>2. IsFiniteSet(DOMAIN gs)
    BY <2>1, PayableIs, FS_Subset, Zenon
  <2>3. \A i \in DOMAIN gs : gs[i].work \in Nat \ {0} /\ gs[i].bps \in BasisPoints
    <3>1. CustomerBps \in BasisPoints
      BY AmountAssumption DEF BasisPoints
    <3>2. \A c \in Customers : work[c] \in Works
      BY <1>1, Zenon
    <3>3. Works \subseteq Nat
      BY AmountAssumption
    <3>4. \A c \in Workers(work) : work[c] \in Nat \ {0}
      <4> SUFFICES ASSUME NEW c \in Workers(work) PROVE work[c] \in Nat \ {0}
        BY Zenon
      <4>1. c \in Customers /\ work[c] > 0
        BY Zenon
      <4>2. work[c] \in Nat
        BY <3>2, <3>3, <4>1, Zenon
      <4> QED BY <4>1, <4>2
    <3>5. DOMAIN gs = Workers(work) /\ \A i \in Workers(work) : gs[i].work = work[i] /\ gs[i].bps = CustomerBps
      BY Zenon
    <3> HIDE DEF gs, Workers
    <3> QED BY <3>1, <3>4, <3>5, Zenon
  <2> QED BY <2>1, <2>2, <2>3, Zenon DEF WorkGroups
<1> HIDE DEF gs
<1>5. /\ \A c : Credit(its, c) \in Nat
      /\ OperatorTotal(its) \in Nat
      /\ CustomerTotal(its) = SumFunctionOnSet(cr, Customers)
  BY <1>3, <1>4, PayableIs, CreditsAre
<1>6. balance \in [Accounts -> Int] /\ wallet \in Nat
  BY Zenon DEF IInv, TypeOK
<1>7. /\ CustomerTotal(its) + OperatorTotal(its) = deposit /\ wallet' = wallet + deposit
      /\ balance' = [a \in Accounts |-> balance[a] + Credits(deposit, its)[a]]
  BY <1>1, Zenon DEF Post, gs
<1> HIDE DEF its
<1>8. /\ \A c \in Customers : Credits(deposit, its)[c] = Credit(its, c)
      /\ Credits(deposit, its)[Revenue] = OperatorTotal(its)
      /\ Credits(deposit, its)[TreasuryAccount] = -deposit
      /\ Credits(deposit, its)[NetworkFee] = 0 /\ Credits(deposit, its)[FeeRecovery] = 0
  <2>1. Customers \subseteq Accounts /\ {Revenue, TreasuryAccount, NetworkFee, FeeRecovery} \subseteq Accounts
    BY Zenon DEF Accounts, Payable
  <2>2. {Revenue, TreasuryAccount, NetworkFee, FeeRecovery} \cap Customers = {}
    BY PayableIs, Zenon
  <2>3. Revenue # TreasuryAccount /\ Revenue # NetworkFee /\ Revenue # FeeRecovery
    BY PayableIs, Zenon
  <2> QED BY <2>1, <2>2, <2>3, PayableIs, Zenon
<1> HIDE DEF Credits
<1>9. /\ \A c \in Customers : balance[c] \in Int /\ balance'[c] = balance[c] + Credit(its, c)
      /\ balance[Revenue] \in Int /\ balance'[Revenue] = balance[Revenue] + OperatorTotal(its)
      /\ balance[TreasuryAccount] \in Int /\ balance'[TreasuryAccount] = balance[TreasuryAccount] - deposit
      /\ balance[NetworkFee] \in Int /\ balance'[NetworkFee] = balance[NetworkFee]
      /\ balance[FeeRecovery] \in Int /\ balance'[FeeRecovery] = balance[FeeRecovery]
  BY <1>3, <1>6, <1>7, <1>8, PayableIs
<1>10. TypeOK'
  <2>1. balance' \in [Accounts -> Int]
    <3>1. \A a \in Accounts : balance'[a] \in Int
      BY <1>3, <1>5, <1>9, PayableIs
    <3> QED BY <1>7, <3>1, Zenon
  <2>2. wallet' \in Nat
    BY <1>3, <1>6, <1>7
  <2> QED BY <1>2, <2>1, <2>2, Zenon DEF IInv, TypeOK
<1>11. Covered(batches, balance')
  <2> SUFFICES ASSUME NEW a \in Payable PROVE SumFunctionOnSet(Claims(batches, a), DOMAIN batches) <= balance'[a]
    BY Zenon DEF Covered
  <2>1. SumFunctionOnSet(Claims(batches, a), DOMAIN batches) <= balance[a]
    BY Zenon DEF IInv, Covered
  <2>2. SumFunctionOnSet(Claims(batches, a), DOMAIN batches) \in Nat
    BY ClaimsAre, Zenon DEF IInv, BatchesOK
  <2>3. balance[a] \in Int /\ \E x \in Nat : balance'[a] = balance[a] + x
    BY <1>5, <1>9, PayableIs, Zenon
  <2> QED BY <2>1, <2>2, <2>3
<1>12. TreasuryIsWallet'
  BY <1>3, <1>6, <1>7, <1>9 DEF IInv, TreasuryIsWallet
<1>13. BooksBalance(balance')
  <2> DEFINE f == balance
             h == balance'
  <2>1. ASSUME NEW g, \A a \in Payable : g[a] \in Int
        PROVE  SumFunctionOnSet(g, Payable) = g[Revenue] + SumFunctionOnSet(g, Customers)
    <3>1. Revenue \in Payable /\ Payable \ {Revenue} = Customers /\ IsFiniteSet(Payable)
      BY PayableIs, Zenon
    <3>2. SumFunctionOnSet(g, Payable) = g[Revenue] + SumFunctionOnSet(g, Payable \ {Revenue})
      BY <2>1, <3>1, SumRemove, Zenon
    <3> QED BY <3>1, <3>2, Zenon
  <2>2. (\A a \in Payable : f[a] \in Int) /\ \A a \in Payable : h[a] \in Int
    BY <1>5, <1>9, PayableIs
  <2>3. BooksBalance(f)
    BY Zenon DEF IInv
  <2>4. \A c \in Customers : f[c] \in Int /\ cr[c] \in Int /\ h[c] = f[c] + cr[c]
    BY <1>5, <1>9
  <2> HIDE DEF f, h, cr
  <2>5. SumFunctionOnSet(h, Customers) = SumFunctionOnSet(f, Customers) + SumFunctionOnSet(cr, Customers)
    BY <2>4, PayableIs, SumPlus, Zenon
  <2>6. /\ SumFunctionOnSet(f, Payable) = f[Revenue] + SumFunctionOnSet(f, Customers)
        /\ SumFunctionOnSet(h, Payable) = h[Revenue] + SumFunctionOnSet(h, Customers)
    BY <2>1, <2>2, Zenon
  <2>7. SumFunctionOnSet(f, Customers) \in Int /\ SumFunctionOnSet(cr, Customers) \in Int
    BY <2>4, PayableIs, SumInt, Zenon
  <2> QED BY <1>3, <1>5, <1>7, <1>9, <2>3, <2>5, <2>6, <2>7 DEF BooksBalance, f, h
<1>14. FeesRecovered(batches, balance')
  BY <1>9, Zenon DEF IInv, FeesRecovered
<1> QED BY <1>2, <1>10, <1>11, <1>12, <1>13, <1>14, Zenon DEF IInv

-----------------------------------------------------------------------------
(* The theorems. *)

LEMMA NextStep == ASSUME IInv, [Next]_vars PROVE IInv'
<1>1. CASE AllocateDeposit
  BY <1>1, AllocateDepositStep, Zenon
<1>2. CASE UpdatePolicy
  BY <1>2, UpdatePolicyStep, Zenon
<1>3. CASE NextDay
  BY <1>3, NextDayStep, Zenon
<1>4. CASE \E c \in Customers : SetStatus(c)
  BY <1>4, SetStatusStep, Zenon
<1>5. ASSUME NEW p \in Planners, PlanCommit(p) \/ \E kind \in {"CUSTOMER", "OPERATOR"} : PlanRead(p, kind) PROVE IInv'
  BY <1>5, PlanCommitStep, PlanReadStep, Zenon
<1>6. ASSUME NEW b \in DOMAIN batches, Approve(b) \/ Sign(b) \/ Fail(b) \/ Broadcast(b) \/ Confirm(b) PROVE IInv'
  BY <1>6, ApproveStep, SignStep, FailStep, BroadcastStep, ConfirmStep, Zenon
<1>7. CASE UNCHANGED vars
  <2>1. TypeOK'
    BY <1>7, Zenon DEF IInv, TypeOK, vars
  <2> QED BY <1>7, <2>1, QuietStep, Zenon DEF vars
<1> QED BY <1>1, <1>2, <1>3, <1>4, <1>5, <1>6, <1>7, Zenon DEF Next

\* The inductive invariant holds in every behaviour.
THEOREM MoneyInvariant == Spec => []IInv
<1>1. Init => IInv
  BY InitIInv, Zenon
<1>2. IInv /\ [Next]_vars => IInv'
  BY NextStep, Zenon
<1> QED BY <1>1, <1>2, PTL DEF Spec

\* The invariant says what the properties say.
LEMMA CoveredNow == ASSUME IInv PROVE ReservedIsCovered
<1> SUFFICES ASSUME NEW a \in Payable PROVE Reserved(a, Unpaid) <= balance[a]
  BY Zenon DEF ReservedIsCovered
<1>1. batches \in Seq(Rows) /\ SumFunctionOnSet(Claims(batches, a), DOMAIN batches) <= balance[a]
  BY Zenon DEF IInv, BatchesOK, Covered
<1>2. Reserved(a, Unpaid) = SumFunctionOnSet(Claims(batches, a), DOMAIN batches)
  BY <1>1, ClaimsAreReserved, Zenon DEF Reserved, Sum, Unpaid
<1> QED BY <1>1, <1>2, Zenon

LEMMA WithinNow == ASSUME IInv PROVE AutoWithinDailyLimit
<1> SUFFICES ASSUME NEW d \in 1..today PROVE \E pol \in Policies : AutoApproved(d) <= pol.limit
  BY Zenon DEF AutoWithinDailyLimit
<1>1. batches \in Seq(Rows)
  BY Zenon DEF IInv, BatchesOK
<1>2. AutoApproved(d) = SumFunctionOnSet(Approvals(batches, d), DOMAIN batches)
  BY <1>1, ApprovalsAreApproved, Zenon DEF AutoApproved, Sum
<1> QED BY <1>2, Zenon DEF IInv, WithinLimits

LEMMA WalletsCoverNow == ASSUME IInv PROVE WalletsCover
<1> SUFFICES ASSUME \A b \in DOMAIN batches : ~batches[b].operatorPays PROVE CoveredWhoeverPays
  BY Zenon DEF IInv, WalletsCover, CustomersAreCovered
<1> DEFINE f == balance
           g == [c \in Customers |-> balance[c]]
<1>1. (\A a \in Payable : f[a] \in Int) /\ f[TreasuryAccount] \in Int /\ f[NetworkFee] \in Int /\ f[FeeRecovery] \in Int
  BY PayableIs, Zenon DEF IInv, TypeOK
<1>2. f[NetworkFee] + f[FeeRecovery] = 0 /\ BooksBalance(f) /\ f[TreasuryAccount] + wallet = 0 /\ wallet \in Nat
  BY Zenon DEF IInv, FeesRecovered, TreasuryIsWallet, TypeOK
<1>3. f[Revenue] >= 0
  <2>1. batches \in Seq(Rows) /\ Revenue \in Payable
    BY PayableIs, Zenon DEF IInv, BatchesOK
  <2>2. SumFunctionOnSet(Claims(batches, Revenue), DOMAIN batches) \in Nat
    BY <2>1, ClaimsAre, Zenon
  <2>3. SumFunctionOnSet(Claims(batches, Revenue), DOMAIN batches) <= f[Revenue]
    BY <2>1, Zenon DEF IInv, Covered
  <2> QED BY <1>1, <2>1, <2>2, <2>3
<1>4. Revenue \in Payable /\ Payable \ {Revenue} = Customers /\ IsFiniteSet(Payable) /\ IsFiniteSet(Customers)
  BY PayableIs, Zenon
<1>5. DOMAIN g = Customers /\ \A c \in Customers : f[c] \in Int /\ g[c] = f[c]
  BY <1>1, <1>4, Zenon
<1>6. CoveredWhoeverPays <=> wallet >= SumFunctionOnSet(g, Customers)
  BY <1>5, Zenon DEF CoveredWhoeverPays, Sum, SumFunction
<1> HIDE DEF f, g
<1>7. SumFunctionOnSet(f, Payable) = f[Revenue] + SumFunctionOnSet(f, Payable \ {Revenue})
  BY <1>1, <1>4, SumRemove, Zenon
<1>8. SumFunctionOnSet(g, Customers) = SumFunctionOnSet(f, Customers) /\ SumFunctionOnSet(f, Customers) \in Int
  BY <1>4, <1>5, SumEqual, SumInt, Zenon
<1>9. SumFunctionOnSet(f, Payable) = f[Revenue] + SumFunctionOnSet(f, Customers)
  BY <1>4, <1>7, Zenon
<1> QED BY <1>1, <1>2, <1>3, <1>4, <1>6, <1>8, <1>9 DEF BooksBalance

\* Every claim of a batch stays covered by the balance of its account until the
\* batch is journalled: plan and planOperator never promise the same money twice.
THEOREM ClaimsStayCovered == Spec => []ReservedIsCovered
<1>1. IInv => ReservedIsCovered
  BY CoveredNow, Zenon
<1> QED BY <1>1, MoneyInvariant, PTL

\* The books are the wallets at all times, and the wallets hold what the customers
\* are owed while customers pay the fees of their payouts.
THEOREM WalletsStayCovering == Spec => []WalletsCover
<1>1. IInv => WalletsCover
  BY WalletsCoverNow, Zenon
<1> QED BY <1>1, MoneyInvariant, PTL

\* What canAutoApprove lets through on a day stays within the largest limit.
THEOREM DailyLimitHolds == Spec => []AutoWithinDailyLimit
<1>1. IInv => AutoWithinDailyLimit
  BY WithinNow, Zenon
<1> QED BY <1>1, MoneyInvariant, PTL
=============================================================================
