-------------------------- MODULE SettlementProofs --------------------------
(***************************************************************************)
(* The arithmetic of ledger/allocation.ts, for every precision, total and  *)
(* number of weights that the precision is enough for, and the way of a    *)
(* deposit through it: its allocation and the payout of that.              *)
(*                                                                         *)
(* The operators are recursive functions over finite sets and numbers, so  *)
(* what they compute is shown by induction.  The induction theorems of the *)
(* library take an operator; here a property is the set of what has it,    *)
(* and induction comes from the well-founded order of finite subsets.      *)
(*                                                                         *)
(* largestRemainder: the order of the loop gives every entry a place of    *)
(* its own, so the loop hands out exactly what is missing; and something   *)
(* is missing or nothing, never less, since the rounding of all quotients  *)
(* together stays below one unit.  For the same reason no more units are   *)
(* missing than there are quotients with a remainder, so that only those   *)
(* are rounded up, each by one unit.                                       *)
(*                                                                         *)
(* The payout: from the moment a fee has converged, the transaction is     *)
(* the one of the outputs that were computed with this fee.                *)
(***************************************************************************)
EXTENDS Settlement, FiniteSetTheorems, TLAPS

-----------------------------------------------------------------------------
(* Sums over finite sets. *)

\* Of some subsets of a finite set one is minimal.
LEMMA Minimal ==
  ASSUME NEW S, IsFiniteSet(S), NEW T, T \subseteq SUBSET S, T # {}
  PROVE  \E x \in T : \A y \in T : y \subseteq x => y = x
<1>1. FiniteSubsetsOf(S) = SUBSET S
  BY FS_FiniteSubsetsOfFinite, Zenon
<1>2. IsWellFoundedOn(StrictSubsetOrdering(S), SUBSET S)
  BY <1>1, FS_StrictSubsetOrderingWellFounded, Zenon
<1>3. PICK x \in T : \A y \in T : ~ (<<y, x>> \in StrictSubsetOrdering(S))
  BY <1>2, WFMin, Zenon
<1> QED BY <1>3, Zenon DEF StrictSubsetOrdering

\* What holds of the empty set and is kept when an element is added holds of a
\* finite set; Good stands for the property.
LEMMA SetInduction ==
  ASSUME NEW S, IsFiniteSet(S), NEW Good, {} \in Good,
         \A T \in SUBSET S : \A x \in S \ T : T \in Good => T \cup {x} \in Good
  PROVE  S \in Good
<1> SUFFICES ASSUME S \notin Good PROVE FALSE
  BY Zenon
<1> DEFINE Bad == {T \in SUBSET S : T \notin Good}
<1>1. PICK T \in Bad : \A U \in Bad : U \subseteq T => U = T
  <2>1. S \in Bad /\ Bad \subseteq SUBSET S
    BY Zenon
  <2> HIDE DEF Bad
  <2> QED BY <2>1, Minimal
<1>2. PICK x \in T : TRUE
  BY <1>1, Zenon
<1>3. T \ {x} \in Good
  BY <1>1, <1>2
<1>4. (T \ {x}) \cup {x} = T /\ T \ {x} \in SUBSET S /\ x \in S \ (T \ {x})
  BY <1>1, <1>2, Zenon
<1>5. T \in Good
  <2> DEFINE R == T \ {x}
  <2>1. R \in SUBSET S /\ x \in S \ R /\ R \in Good /\ R \cup {x} = T
    BY <1>3, <1>4, Zenon
  <2> HIDE DEF R
  <2>2. R \cup {x} \in Good
    BY <2>1, Zenon
  <2> QED BY <2>1, <2>2, Zenon
<1> QED BY <1>1, <1>5, Zenon

\* The recursive function of Folds.
Pick(s) == CHOOSE x \in s : TRUE
Adds(g, f, T) == g = [s \in SUBSET T |-> IF s = {} THEN 0 ELSE f[Pick(s)] + g[s \ {Pick(s)}]]

\* SumFunctionOnSet is the recursive function that adds up its subsets.
LEMMA SumIs ==
  ASSUME NEW f, NEW S
  PROVE  SumFunctionOnSet(f, S) = (CHOOSE g : Adds(g, f, S))[S]
  BY Zenon DEF SumFunctionOnSet, FoldFunctionOnSet, MapThenFoldSet, Adds, Pick

LEMMA PickIn == ASSUME NEW s, s # {} PROVE Pick(s) \in s
  BY Zenon DEF Pick

\* Two such functions agree where both are defined.
LEMMA AddsAgree ==
  ASSUME NEW f, NEW S, NEW T, NEW g, NEW h, Adds(g, f, S), Adds(h, f, T), IsFiniteSet(S),
         NEW s, s \subseteq S, s \subseteq T
  PROVE  g[s] = h[s]
<1> SUFFICES ASSUME g[s] # h[s] PROVE FALSE
  BY Zenon
<1> DEFINE Bad == {t \in SUBSET S : t \subseteq T /\ g[t] # h[t]}
<1>1. PICK t \in Bad : \A u \in Bad : u \subseteq t => u = t
  <2>1. s \in Bad /\ Bad \subseteq SUBSET S
    BY Zenon
  <2> HIDE DEF Bad
  <2> QED BY <2>1, Minimal
<1>2. /\ g[t] = IF t = {} THEN 0 ELSE f[Pick(t)] + g[t \ {Pick(t)}]
      /\ h[t] = IF t = {} THEN 0 ELSE f[Pick(t)] + h[t \ {Pick(t)}]
  BY <1>1, Zenon DEF Adds
<1>3. t # {} /\ Pick(t) \in t
  BY <1>1, <1>2, PickIn, Zenon
<1>4. t \ {Pick(t)} \notin Bad
  BY <1>1, <1>3, Zenon
<1>5. g[t \ {Pick(t)}] = h[t \ {Pick(t)}]
  BY <1>1, <1>4, Zenon
<1> QED BY <1>1, <1>2, <1>3, <1>5, Zenon

\* Such a function exists for every finite set.
LEMMA AddsExists ==
  ASSUME NEW f, NEW S, IsFiniteSet(S)
  PROVE  \E g : Adds(g, f, S)
<1> SUFFICES ASSUME ~ \E g : Adds(g, f, S) PROVE FALSE
  BY Zenon
<1> DEFINE Bad == {T \in SUBSET S : ~ \E g : Adds(g, f, T)}
           G(T) == CHOOSE g : Adds(g, f, T)
<1>1. PICK T \in Bad : \A U \in Bad : U \subseteq T => U = T
  <2>1. S \in Bad /\ Bad \subseteq SUBSET S
    BY Zenon
  <2> HIDE DEF Bad
  <2> QED BY <2>1, Minimal
<1>2. \A U \in SUBSET T : U # T => Adds(G(U), f, U)
  BY <1>1, Zenon
<1> DEFINE g == [s \in SUBSET T |-> IF s = {} THEN 0 ELSE IF s = T THEN f[Pick(T)] + G(T \ {Pick(T)})[T \ {Pick(T)}] ELSE G(s)[s]]
<1>3. ASSUME NEW s \in SUBSET T, s # {}
      PROVE  g[s] = f[Pick(s)] + g[s \ {Pick(s)}]
  <2> DEFINE p == Pick(s)
  <2>1. p \in s /\ s \ {p} \in SUBSET T /\ s \ {p} # T
    BY <1>3, PickIn, Zenon
  <2>2. Adds(G(s \ {p}), f, s \ {p})
    BY <1>2, <2>1, Zenon
  <2>3. g[s \ {p}] = G(s \ {p})[s \ {p}]
    <3>1. CASE s \ {p} = {}
      <4>1. G({})[{}] = 0
        BY <2>2, <3>1, Zenon DEF Adds
      <4> QED BY <3>1, <4>1, Zenon
    <3>2. CASE s \ {p} # {}
      BY <2>1, <3>2, Zenon
    <3> QED BY <3>1, <3>2, Zenon
  <2>4. CASE s = T
    BY <2>3, <2>4, <1>3, Zenon
  <2>5. CASE s # T
    <3>1. Adds(G(s), f, s)
      BY <1>2, <2>5, Zenon
    <3>2. G(s)[s] = f[p] + G(s)[s \ {p}]
      <4>1. s \in SUBSET s
        BY Zenon
      <4> HIDE DEF G
      <4> QED BY <3>1, <4>1, <1>3, Zenon DEF Adds
    <3>3. IsFiniteSet(s)
      BY <1>1, FS_Subset, Zenon
    <3>4. G(s)[s \ {p}] = G(s \ {p})[s \ {p}]
      <4> HIDE DEF G, p
      <4> QED BY <3>1, <3>3, <2>2, AddsAgree
    <3>5. g[s] = G(s)[s]
      BY <1>3, <2>5, Zenon
    <3> HIDE DEF G, g, p
    <3> QED BY <3>2, <3>4, <3>5, <2>3, Zenon DEF p
  <2> QED BY <2>4, <2>5, Zenon
<1>4. Adds(g, f, T)
  <2>1. g[{}] = 0
    BY Zenon
  <2>2. \A s \in SUBSET T : g[s] = IF s = {} THEN 0 ELSE f[Pick(s)] + g[s \ {Pick(s)}]
    <3> HIDE DEF g
    <3> QED BY <1>3, <2>1, Zenon
  <2>3. g = [s \in SUBSET T |-> g[s]]
    OBVIOUS
  <2> HIDE DEF g
  <2> QED BY <2>2, <2>3, Zenon DEF Adds
<1> HIDE DEF g
<1> QED BY <1>1, <1>4, Zenon

\* The sum over a subset is a value of the function for the whole set.
LEMMA SumUnfolds ==
  ASSUME NEW f, NEW S, IsFiniteSet(S), NEW s \in SUBSET S
  PROVE  SumFunctionOnSet(f, s) = (CHOOSE g : Adds(g, f, S))[s]
<1>1. Adds(CHOOSE g : Adds(g, f, S), f, S)
  BY AddsExists, Zenon
<1>2. IsFiniteSet(s)
  BY FS_Subset, Zenon
<1>3. Adds(CHOOSE g : Adds(g, f, s), f, s)
  BY <1>2, AddsExists, Zenon
<1>4. (CHOOSE g : Adds(g, f, s))[s] = (CHOOSE g : Adds(g, f, S))[s]
  BY <1>1, <1>2, <1>3, AddsAgree
<1> QED BY <1>4, SumIs, Zenon

\* The sum over no index, and the recursion.
LEMMA SumEmpty == ASSUME NEW f PROVE SumFunctionOnSet(f, {}) = 0
<1>1. Adds(CHOOSE g : Adds(g, f, {}), f, {})
  BY AddsExists, FS_EmptySet, Zenon
<1> QED BY <1>1, SumIs, Zenon DEF Adds

\* The recursion of the sum.
LEMMA SumPicks ==
  ASSUME NEW f, NEW S, IsFiniteSet(S), S # {}
  PROVE  SumFunctionOnSet(f, S) = f[Pick(S)] + SumFunctionOnSet(f, S \ {Pick(S)})
<1> DEFINE g == CHOOSE g : Adds(g, f, S)
<1>1. Adds(g, f, S)
  BY AddsExists, Zenon
<1>2. SumFunctionOnSet(f, S) = g[S] /\ SumFunctionOnSet(f, S \ {Pick(S)}) = g[S \ {Pick(S)}]
  BY SumUnfolds, Zenon
<1> HIDE DEF g
<1>3. S \in SUBSET S
  BY Zenon
<1> QED BY <1>1, <1>2, <1>3, Zenon DEF Adds

\* A sum of integers is an integer.
LEMMA SumInt ==
  ASSUME NEW S, IsFiniteSet(S), NEW f, \A x \in S : f[x] \in Int
  PROVE  SumFunctionOnSet(f, S) \in Int
<1> SUFFICES ASSUME SumFunctionOnSet(f, S) \notin Int PROVE FALSE
  BY Zenon
<1> DEFINE Bad == {T \in SUBSET S : SumFunctionOnSet(f, T) \notin Int}
<1>1. PICK T \in Bad : \A U \in Bad : U \subseteq T => U = T
  <2>1. S \in Bad /\ Bad \subseteq SUBSET S
    BY Zenon
  <2> HIDE DEF Bad
  <2> QED BY <2>1, Minimal
<1>2. T # {} /\ IsFiniteSet(T)
  <2>1. {} \notin Bad
    BY SumEmpty
  <2> QED BY <1>1, <2>1, FS_Subset, Zenon
<1>3. Pick(T) \in T
  BY <1>2, PickIn, Zenon
<1>4. SumFunctionOnSet(f, T \ {Pick(T)}) \in Int
  BY <1>1, <1>3
<1>5. f[Pick(T)] \in Int
  BY <1>1, <1>3, Zenon
<1>6. SumFunctionOnSet(f, T) = f[Pick(T)] + SumFunctionOnSet(f, T \ {Pick(T)})
  BY <1>2, SumPicks, Zenon
<1> QED BY <1>1, <1>4, <1>5, <1>6

\* Any element may be taken first.
LEMMA SumRemove ==
  ASSUME NEW S, IsFiniteSet(S), NEW f, \A x \in S : f[x] \in Int, NEW z \in S
  PROVE  SumFunctionOnSet(f, S) = f[z] + SumFunctionOnSet(f, S \ {z})
<1> DEFINE Fine(T) == \A x \in T : SumFunctionOnSet(f, T) = f[x] + SumFunctionOnSet(f, T \ {x})
<1> SUFFICES ASSUME ~Fine(S) PROVE FALSE
  BY Zenon
<1> DEFINE Bad == {T \in SUBSET S : ~Fine(T)}
<1>1. PICK T \in Bad : \A U \in Bad : U \subseteq T => U = T
  <2>1. S \in Bad /\ Bad \subseteq SUBSET S
    BY Zenon
  <2> HIDE DEF Bad
  <2> QED BY <2>1, Minimal
<1>2. PICK x \in T : SumFunctionOnSet(f, T) # f[x] + SumFunctionOnSet(f, T \ {x})
  BY <1>1, Zenon
<1> DEFINE y == Pick(T)
<1>3. IsFiniteSet(T) /\ y \in T
  BY <1>1, <1>2, FS_Subset, PickIn, Zenon
<1>4. SumFunctionOnSet(f, T) = f[y] + SumFunctionOnSet(f, T \ {y})
  BY <1>2, <1>3, SumPicks, Zenon
<1>5. x # y
  BY <1>2, <1>4, Zenon
<1>6. Fine(T \ {y}) /\ Fine(T \ {x})
  BY <1>1, <1>2, <1>3
<1>7. SumFunctionOnSet(f, T \ {y}) = f[x] + SumFunctionOnSet(f, T \ {x, y})
  <2>1. x \in T \ {y} /\ (T \ {y}) \ {x} = T \ {x, y}
    BY <1>2, <1>5, Zenon
  <2> HIDE DEF y
  <2> QED BY <1>6, <2>1, Zenon
<1>8. SumFunctionOnSet(f, T \ {x}) = f[y] + SumFunctionOnSet(f, T \ {x, y})
  <2>1. y \in T \ {x} /\ (T \ {x}) \ {y} = T \ {x, y}
    BY <1>3, <1>5, Zenon
  <2> HIDE DEF y
  <2> QED BY <1>6, <2>1, Zenon
<1>9. f[x] \in Int /\ f[y] \in Int /\ SumFunctionOnSet(f, T \ {x, y}) \in Int
  <2>1. IsFiniteSet(T \ {x, y}) /\ \A v \in T \ {x, y} : f[v] \in Int
    BY <1>1, <1>3, FS_Subset, Zenon
  <2> QED BY <1>1, <1>3, <2>1, SumInt, Zenon
<1> HIDE DEF y, Bad
<1> QED BY <1>2, <1>4, <1>7, <1>8, <1>9

\* One more element.
LEMMA SumInsert ==
  ASSUME NEW S, IsFiniteSet(S), NEW f, \A x \in S : f[x] \in Int, NEW T \in SUBSET S, NEW z \in S \ T
  PROVE  /\ SumFunctionOnSet(f, T \cup {z}) = f[z] + SumFunctionOnSet(f, T)
         /\ SumFunctionOnSet(f, T) \in Int /\ f[z] \in Int
<1>1. IsFiniteSet(T) /\ IsFiniteSet(T \cup {z})
  BY FS_Subset, FS_AddElement, Zenon
<1>2. (T \cup {z}) \ {z} = T
  BY Zenon
<1>3. \A x \in T \cup {z} : f[x] \in Int
  BY Zenon
<1>4. SumFunctionOnSet(f, T \cup {z}) = f[z] + SumFunctionOnSet(f, (T \cup {z}) \ {z})
  BY <1>1, <1>3, SumRemove, Zenon
<1> QED BY <1>1, <1>2, <1>3, <1>4, SumInt, Zenon

\* Functions that agree have the same sum.
LEMMA SumEqual ==
  ASSUME NEW S, IsFiniteSet(S), NEW f, NEW g, \A x \in S : f[x] \in Int /\ g[x] = f[x]
  PROVE  SumFunctionOnSet(g, S) = SumFunctionOnSet(f, S)
<1> DEFINE Good == {T \in SUBSET S : SumFunctionOnSet(g, T) = SumFunctionOnSet(f, T)}
<1>1. {} \in Good
  BY SumEmpty, Zenon
<1>2. ASSUME NEW T \in SUBSET S, NEW z \in S \ T, T \in Good PROVE T \cup {z} \in Good
  <2>1. SumFunctionOnSet(f, T \cup {z}) = f[z] + SumFunctionOnSet(f, T)
    BY SumInsert
  <2>2. SumFunctionOnSet(g, T \cup {z}) = g[z] + SumFunctionOnSet(g, T)
    BY SumInsert
  <2> QED BY <1>2, <2>1, <2>2, Zenon
<1> HIDE DEF Good
<1>3. S \in Good
  BY <1>1, <1>2, SetInduction, Zenon
<1> QED BY <1>3, Zenon DEF Good

\* A sum of sums.
LEMMA SumPlus ==
  ASSUME NEW S, IsFiniteSet(S), NEW f, NEW g, NEW h,
         \A x \in S : f[x] \in Int /\ g[x] \in Int /\ h[x] = f[x] + g[x]
  PROVE  SumFunctionOnSet(h, S) = SumFunctionOnSet(f, S) + SumFunctionOnSet(g, S)
<1> DEFINE Good == {T \in SUBSET S : SumFunctionOnSet(h, T) = SumFunctionOnSet(f, T) + SumFunctionOnSet(g, T)}
<1>1. {} \in Good
  BY SumEmpty
<1>2. ASSUME NEW T \in SUBSET S, NEW z \in S \ T, T \in Good PROVE T \cup {z} \in Good
  <2>1. /\ SumFunctionOnSet(f, T \cup {z}) = f[z] + SumFunctionOnSet(f, T)
        /\ SumFunctionOnSet(f, T) \in Int /\ f[z] \in Int
    BY SumInsert, Zenon
  <2>2. /\ SumFunctionOnSet(g, T \cup {z}) = g[z] + SumFunctionOnSet(g, T)
        /\ SumFunctionOnSet(g, T) \in Int /\ g[z] \in Int
    BY SumInsert, Zenon
  <2>3. SumFunctionOnSet(h, T \cup {z}) = h[z] + SumFunctionOnSet(h, T)
    <3>1. \A x \in S : h[x] \in Int
      OBVIOUS
    <3> QED BY <3>1, SumInsert
  <2> QED BY <1>2, <2>1, <2>2, <2>3
<1> HIDE DEF Good
<1>3. S \in Good
  BY <1>1, <1>2, SetInduction, Zenon
<1> QED BY <1>3, Zenon DEF Good

\* Larger terms have a larger sum.
LEMMA SumLeq ==
  ASSUME NEW S, IsFiniteSet(S), NEW f, NEW g, \A x \in S : f[x] \in Int /\ g[x] \in Int /\ f[x] <= g[x]
  PROVE  SumFunctionOnSet(f, S) <= SumFunctionOnSet(g, S)
<1> DEFINE Good == {T \in SUBSET S : SumFunctionOnSet(f, T) <= SumFunctionOnSet(g, T)}
<1>1. {} \in Good
  BY SumEmpty
<1>2. ASSUME NEW T \in SUBSET S, NEW z \in S \ T, T \in Good PROVE T \cup {z} \in Good
  <2>1. /\ SumFunctionOnSet(f, T \cup {z}) = f[z] + SumFunctionOnSet(f, T)
        /\ SumFunctionOnSet(f, T) \in Int /\ f[z] \in Int
    BY SumInsert, Zenon
  <2>2. /\ SumFunctionOnSet(g, T \cup {z}) = g[z] + SumFunctionOnSet(g, T)
        /\ SumFunctionOnSet(g, T) \in Int /\ g[z] \in Int
    BY SumInsert, Zenon
  <2>3. f[z] <= g[z]
    BY Zenon
  <2> QED BY <1>2, <2>1, <2>2, <2>3
<1> HIDE DEF Good
<1>3. S \in Good
  BY <1>1, <1>2, SetInduction, Zenon
<1> QED BY <1>3, Zenon DEF Good

\* A common factor.
LEMMA SumTimes ==
  ASSUME NEW S, IsFiniteSet(S), NEW f, NEW h, NEW c \in Int, \A x \in S : f[x] \in Int /\ h[x] = c * f[x]
  PROVE  SumFunctionOnSet(h, S) = c * SumFunctionOnSet(f, S)
<1> DEFINE Good == {T \in SUBSET S : SumFunctionOnSet(h, T) = c * SumFunctionOnSet(f, T)}
<1>1. {} \in Good
  BY SumEmpty
<1>2. ASSUME NEW T \in SUBSET S, NEW z \in S \ T, T \in Good PROVE T \cup {z} \in Good
  <2>1. /\ SumFunctionOnSet(f, T \cup {z}) = f[z] + SumFunctionOnSet(f, T)
        /\ SumFunctionOnSet(f, T) \in Int /\ f[z] \in Int
    BY SumInsert, Zenon
  <2>2. \A x \in S : h[x] \in Int
    OBVIOUS
  <2>3. SumFunctionOnSet(h, T \cup {z}) = h[z] + SumFunctionOnSet(h, T)
    BY <2>2, SumInsert
  <2>4. h[z] = c * f[z]
    BY Zenon
  <2> QED BY <1>2, <2>1, <2>3, <2>4
<1> HIDE DEF Good
<1>3. S \in Good
  BY <1>1, <1>2, SetInduction, Zenon
<1> QED BY <1>3, Zenon DEF Good

\* Two parts.
LEMMA SumParts ==
  ASSUME NEW S, IsFiniteSet(S), NEW f, \A x \in S : f[x] \in Int, NEW A \in SUBSET S
  PROVE  SumFunctionOnSet(f, S) = SumFunctionOnSet(f, A) + SumFunctionOnSet(f, S \ A)
<1> DEFINE Good == {T \in SUBSET S :
                      SumFunctionOnSet(f, T) = SumFunctionOnSet(f, T \cap A) + SumFunctionOnSet(f, T \ A)}
<1>1. {} \in Good
  <2>1. {} \cap A = {} /\ {} \ A = {}
    BY Zenon
  <2> QED BY <2>1, SumEmpty
<1>2. ASSUME NEW T \in SUBSET S, NEW z \in S \ T, T \in Good PROVE T \cup {z} \in Good
  <2>1. /\ SumFunctionOnSet(f, T \cup {z}) = f[z] + SumFunctionOnSet(f, T)
        /\ SumFunctionOnSet(f, T) \in Int /\ f[z] \in Int
    BY SumInsert, Zenon
  <2>2. SumFunctionOnSet(f, T \cap A) \in Int /\ SumFunctionOnSet(f, T \ A) \in Int
    BY FS_Subset, SumInt, Zenon
  <2>0. SumFunctionOnSet(f, T) = SumFunctionOnSet(f, T \cap A) + SumFunctionOnSet(f, T \ A)
    BY <1>2, Zenon
  <2> SUFFICES SumFunctionOnSet(f, T \cup {z})
                 = SumFunctionOnSet(f, (T \cup {z}) \cap A) + SumFunctionOnSet(f, (T \cup {z}) \ A)
    BY Zenon
  <2> HIDE DEF Good
  <2>3. CASE z \in A
    <3>1. (T \cup {z}) \cap A = (T \cap A) \cup {z} /\ (T \cup {z}) \ A = T \ A
      BY <2>3, Zenon
    <3>3. SumFunctionOnSet(f, (T \cap A) \cup {z}) = f[z] + SumFunctionOnSet(f, T \cap A)
      <4> DEFINE V == T \cap A
      <4>1. V \in SUBSET S /\ z \in S \ V
        BY Zenon
      <4> HIDE DEF V
      <4>2. SumFunctionOnSet(f, V \cup {z}) = f[z] + SumFunctionOnSet(f, V)
        BY <4>1, SumInsert
      <4> QED BY <4>2, Zenon DEF V
    <3>4. SumFunctionOnSet(f, (T \cup {z}) \cap A) = f[z] + SumFunctionOnSet(f, T \cap A)
      BY <3>1, <3>3, Zenon
    <3>5. SumFunctionOnSet(f, (T \cup {z}) \ A) = SumFunctionOnSet(f, T \ A)
      BY <3>1, Zenon
    <3> QED BY <2>0, <2>1, <2>2, <3>4, <3>5
  <2>4. CASE z \notin A
    <3>1. (T \cup {z}) \ A = (T \ A) \cup {z} /\ (T \cup {z}) \cap A = T \cap A
      BY <2>4, Zenon
    <3>3. SumFunctionOnSet(f, (T \ A) \cup {z}) = f[z] + SumFunctionOnSet(f, T \ A)
      <4> DEFINE V == T \ A
      <4>1. V \in SUBSET S /\ z \in S \ V
        BY Zenon
      <4> HIDE DEF V
      <4>2. SumFunctionOnSet(f, V \cup {z}) = f[z] + SumFunctionOnSet(f, V)
        BY <4>1, SumInsert
      <4> QED BY <4>2, Zenon DEF V
    <3>4. SumFunctionOnSet(f, (T \cup {z}) \ A) = f[z] + SumFunctionOnSet(f, T \ A)
      BY <3>1, <3>3, Zenon
    <3>5. SumFunctionOnSet(f, (T \cup {z}) \cap A) = SumFunctionOnSet(f, T \cap A)
      BY <3>1, Zenon
    <3> QED BY <2>0, <2>1, <2>2, <3>4, <3>5
  <2> QED BY <2>3, <2>4, Zenon
<1> HIDE DEF Good
<1>3. S \in Good
  BY <1>1, <1>2, SetInduction, Zenon
<1>4. S \cap A = A
  BY Zenon
<1> QED BY <1>3, <1>4, Zenon DEF Good

\* Counting.
LEMMA SumCount ==
  ASSUME NEW S, IsFiniteSet(S), NEW A \in SUBSET S, NEW f, \A x \in S : f[x] = IF x \in A THEN 1 ELSE 0
  PROVE  SumFunctionOnSet(f, S) = Cardinality(A)
<1> DEFINE Good == {T \in SUBSET S : SumFunctionOnSet(f, T) = Cardinality(T \cap A)}
<1>1. {} \in Good
  <2>1. {} \cap A = {}
    BY Zenon
  <2> QED BY <2>1, SumEmpty, FS_EmptySet, Zenon
<1>2. ASSUME NEW T \in SUBSET S, NEW z \in S \ T, T \in Good PROVE T \cup {z} \in Good
  <2>0. \A x \in S : f[x] \in Int
    OBVIOUS
  <2>1. SumFunctionOnSet(f, T \cup {z}) = f[z] + SumFunctionOnSet(f, T)
    BY <2>0, SumInsert
  <2>2. IsFiniteSet(T \cap A) /\ Cardinality(T \cap A) \in Nat
    BY FS_Subset, FS_CardinalityType, Zenon
  <2>9. SumFunctionOnSet(f, T) = Cardinality(T \cap A)
    BY <1>2, Zenon
  <2> SUFFICES SumFunctionOnSet(f, T \cup {z}) = Cardinality((T \cup {z}) \cap A)
    BY Zenon
  <2> HIDE DEF Good
  <2>3. CASE z \in A
    <3>1. (T \cup {z}) \cap A = (T \cap A) \cup {z} /\ z \notin T \cap A
      BY <2>3, Zenon
    <3>2. Cardinality((T \cap A) \cup {z}) = Cardinality(T \cap A) + 1
      BY <2>2, <3>1, FS_AddElement, Zenon
    <3> QED BY <2>9, <2>1, <2>2, <2>3, <3>1, <3>2
  <2>4. CASE z \notin A
    <3>1. (T \cup {z}) \cap A = T \cap A
      BY <2>4, Zenon
    <3>2. Cardinality((T \cup {z}) \cap A) = Cardinality(T \cap A)
      BY <3>1, Zenon
    <3>3. f[z] = 0
      BY <2>4, Zenon
    <3> QED BY <2>9, <2>1, <2>2, <3>2, <3>3
  <2> QED BY <2>3, <2>4, Zenon
<1> HIDE DEF Good
<1>3. S \in Good
  BY <1>1, <1>2, SetInduction, Zenon
<1>4. S \cap A = A
  BY Zenon
<1> QED BY <1>3, <1>4, Zenon DEF Good

\* A bound of every term is a bound of the sum.
LEMMA SumAffine ==
  ASSUME NEW S, IsFiniteSet(S), NEW f, NEW g, NEW a \in Int, NEW c \in Int, NEW d \in Int,
         \A x \in S : f[x] \in Int /\ g[x] \in Int /\ a * f[x] <= c * g[x] + d
  PROVE  a * SumFunctionOnSet(f, S) <= c * SumFunctionOnSet(g, S) + d * Cardinality(S)
<1> DEFINE one == [x \in S |-> IF x \in S THEN 1 ELSE 0]
           af == [x \in S |-> a * f[x]]
           cg == [x \in S |-> c * g[x]]
           ds == [x \in S |-> d * one[x]]
           b == [x \in S |-> cg[x] + ds[x]]
<1>1. \A x \in S : one[x] = (IF x \in S THEN 1 ELSE 0) /\ one[x] \in Int
  OBVIOUS
<1>2. SumFunctionOnSet(one, S) = Cardinality(S)
  <2> HIDE DEF one
  <2> QED BY <1>1, SumCount, Zenon
<1>3. \A x \in S : af[x] = a * f[x] /\ cg[x] = c * g[x] /\ ds[x] = d * one[x] /\ b[x] = cg[x] + ds[x]
  BY Zenon
<1>4. \A x \in S : af[x] \in Int /\ cg[x] \in Int /\ ds[x] \in Int /\ b[x] \in Int /\ af[x] <= b[x]
  <2> TAKE x \in S
  <2>1. a * f[x] \in Int /\ c * g[x] \in Int /\ d * one[x] = d
    BY <1>1
  <2> HIDE DEF one
  <2> QED BY <1>3, <2>1
<1> HIDE DEF one, af, cg, ds, b
<1>5. /\ SumFunctionOnSet(af, S) = a * SumFunctionOnSet(f, S)
      /\ SumFunctionOnSet(cg, S) = c * SumFunctionOnSet(g, S)
      /\ SumFunctionOnSet(ds, S) = d * SumFunctionOnSet(one, S)
  BY <1>1, <1>3, SumTimes, Zenon
<1>6. SumFunctionOnSet(b, S) = SumFunctionOnSet(cg, S) + SumFunctionOnSet(ds, S)
  BY <1>3, <1>4, SumPlus, Zenon
<1>7. SumFunctionOnSet(af, S) <= SumFunctionOnSet(b, S)
  BY <1>4, SumLeq, Zenon
<1> QED BY <1>2, <1>5, <1>6, <1>7, Zenon

\* Zeros.
LEMMA SumZero ==
  ASSUME NEW S, IsFiniteSet(S), NEW f, \A x \in S : f[x] = 0
  PROVE  SumFunctionOnSet(f, S) = 0
<1>1. \A x \in S : f[x] = IF x \in {} THEN 1 ELSE 0
  BY Zenon
<1> QED BY <1>1, SumCount, FS_EmptySet, Zenon

\* A function that is zero outside of A.
LEMMA SumSupport ==
  ASSUME NEW S, IsFiniteSet(S), NEW A \in SUBSET S, NEW f, NEW g,
         \A x \in A : f[x] \in Int, \A x \in S : g[x] = IF x \in A THEN f[x] ELSE 0
  PROVE  SumFunctionOnSet(g, S) = SumFunctionOnSet(f, A)
<1>1. \A x \in S : g[x] \in Int
  OBVIOUS
<1>2. SumFunctionOnSet(g, S) = SumFunctionOnSet(g, A) + SumFunctionOnSet(g, S \ A)
  BY <1>1, SumParts, Zenon
<1>3. IsFiniteSet(A) /\ IsFiniteSet(S \ A)
  BY FS_Subset, Zenon
<1>4. SumFunctionOnSet(g, A) = SumFunctionOnSet(f, A)
  BY <1>3, SumEqual, Zenon
<1>5. SumFunctionOnSet(g, S \ A) = 0
  <2> DEFINE B == S \ A
  <2>1. IsFiniteSet(B) /\ \A x \in B : g[x] = 0
    BY <1>3, Zenon
  <2> HIDE DEF B
  <2>2. SumFunctionOnSet(g, B) = 0
    BY <2>1, SumZero, Zenon
  <2> QED BY <2>2, Zenon DEF B
<1>6. SumFunctionOnSet(f, A) \in Int
  BY <1>3, SumInt, Zenon
<1> QED BY <1>2, <1>4, <1>5, <1>6

\* One term changes.
LEMMA SumChange ==
  ASSUME NEW S, IsFiniteSet(S), NEW f, NEW g, NEW z \in S,
         \A x \in S : f[x] \in Int /\ g[x] \in Int, \A x \in S : x # z => g[x] = f[x]
  PROVE  SumFunctionOnSet(g, S) = SumFunctionOnSet(f, S) - f[z] + g[z]
<1> DEFINE B == S \ {z}
<1>1. IsFiniteSet(B) /\ \A x \in B : f[x] \in Int /\ g[x] = f[x]
  BY FS_Subset, Zenon
<1>2. SumFunctionOnSet(g, S) = g[z] + SumFunctionOnSet(g, B) /\ SumFunctionOnSet(f, S) = f[z] + SumFunctionOnSet(f, B)
  BY SumRemove, Zenon
<1> HIDE DEF B
<1>3. SumFunctionOnSet(g, B) = SumFunctionOnSet(f, B) /\ SumFunctionOnSet(f, B) \in Int
  BY <1>1, SumEqual, SumInt, Zenon
<1> QED BY <1>2, <1>3

\* One entry becomes 0.
LEMMA SumDrop ==
  ASSUME NEW S, IsFiniteSet(S), NEW f, NEW g, NEW z \in S,
         \A x \in S : f[x] \in Nat, g[z] = 0, \A x \in S : x # z => g[x] = f[x]
  PROVE  SumFunctionOnSet(g, S) = SumFunctionOnSet(f, S) - f[z]
<1>1. \A x \in S : f[x] \in Int /\ g[x] \in Int
  OBVIOUS
<1>2. SumFunctionOnSet(g, S) = SumFunctionOnSet(f, S) - f[z] + g[z]
  BY <1>1, SumChange
<1>3. SumFunctionOnSet(f, S) \in Int
  BY SumInt
<1> QED BY <1>1, <1>2, <1>3

LEMMA SumSingle ==
  ASSUME NEW f, NEW z, f[z] \in Int
  PROVE  SumFunctionOnSet(f, {z}) = f[z]
<1> DEFINE B == {z}
<1>1. IsFiniteSet(B) /\ (\A x \in B : f[x] \in Int) /\ z \in B /\ B \ {z} = {}
  BY FS_Singleton, Zenon
<1> HIDE DEF B
<1>2. SumFunctionOnSet(f, B) = f[z] + SumFunctionOnSet(f, B \ {z})
  BY <1>1, SumRemove, Zenon
<1>3. SumFunctionOnSet(f, B \ {z}) = 0
  BY <1>1, SumEmpty, Zenon
<1> QED BY <1>2, <1>3 DEF B

\* Differences.
LEMMA SumMinus ==
  ASSUME NEW S, IsFiniteSet(S), NEW f, NEW g, NEW h,
         \A x \in S : f[x] \in Int /\ g[x] \in Int /\ h[x] = f[x] - g[x]
  PROVE  SumFunctionOnSet(h, S) = SumFunctionOnSet(f, S) - SumFunctionOnSet(g, S)
<1>1. \A x \in S : h[x] \in Int /\ g[x] \in Int /\ f[x] \in Int /\ f[x] = h[x] + g[x]
  OBVIOUS
<1>2. SumFunctionOnSet(f, S) = SumFunctionOnSet(h, S) + SumFunctionOnSet(g, S)
  BY <1>1, SumPlus, Zenon
<1>3. SumFunctionOnSet(h, S) \in Int /\ SumFunctionOnSet(g, S) \in Int
  BY <1>1, SumInt, Zenon
<1> QED BY <1>2, <1>3

\* A sum is the sum of the sums of its groups.
LEMMA SumGroups ==
  ASSUME NEW S, IsFiniteSet(S), NEW C, IsFiniteSet(C), NEW f, \A x \in S : f[x] \in Int,
         NEW key, \A x \in S : key[x] \in C
  PROVE  SumFunctionOnSet([c \in C |-> SumFunctionOnSet(f, {x \in S : key[x] = c})], C) = SumFunctionOnSet(f, S)
<1> DEFINE At(T, c) == {x \in T : key[x] = c}
           G(T) == [c \in C |-> SumFunctionOnSet(f, At(T, c))]
           Good == {T \in SUBSET S : SumFunctionOnSet(G(T), C) = SumFunctionOnSet(f, T)}
<1>0. ASSUME NEW T \in SUBSET S, NEW c \in C
      PROVE  At(T, c) \in SUBSET S /\ G(T)[c] = SumFunctionOnSet(f, At(T, c)) /\ SumFunctionOnSet(f, At(T, c)) \in Int
  <2> DEFINE A == At(T, c)
  <2>1. A \in SUBSET S
    BY Zenon
  <2>2. G(T)[c] = SumFunctionOnSet(f, A)
    BY Zenon
  <2> HIDE DEF A, G
  <2>3. IsFiniteSet(A) /\ \A x \in A : f[x] \in Int
    BY <2>1, FS_Subset, Zenon
  <2> QED BY <2>1, <2>2, <2>3, SumInt, Zenon DEF A
<1>1. {} \in Good
  <2>1. \A c \in C : At({}, c) = {}
    BY Zenon
  <2>2. \A c \in C : G({})[c] = SumFunctionOnSet(f, At({}, c))
    BY Zenon
  <2> HIDE DEF G, At
  <2>3. \A c \in C : G({})[c] = 0
    BY <2>1, <2>2, SumEmpty, Zenon
  <2>4. SumFunctionOnSet(G({}), C) = 0
    BY <2>3, SumZero, Zenon
  <2> QED BY <2>4, SumEmpty, Zenon
<1>2. ASSUME NEW T \in SUBSET S, NEW z \in S \ T, T \in Good PROVE T \cup {z} \in Good
  <2> DEFINE T2 == T \cup {z}
             k == key[z]
  <2>1. T2 \in SUBSET S /\ k \in C
    BY Zenon
  <2>2. SumFunctionOnSet(f, T2) = f[z] + SumFunctionOnSet(f, T) /\ SumFunctionOnSet(f, T) \in Int /\ f[z] \in Int
    BY SumInsert
  <2>3. \A c \in C : c # k => At(T2, c) = At(T, c)
    BY Zenon
  <2>4. At(T2, k) = At(T, k) \cup {z} /\ At(T, k) \in SUBSET S /\ z \in S \ At(T, k)
    BY Zenon
  <2>5. SumFunctionOnSet(G(T), C) = SumFunctionOnSet(f, T)
    BY <1>2, Zenon
  <2> SUFFICES SumFunctionOnSet(G(T2), C) = SumFunctionOnSet(f, T2)
    BY <2>1, Zenon
  <2> HIDE DEF T2, k, At, Good, G
  <2>6. SumFunctionOnSet(f, At(T2, k)) = f[z] + SumFunctionOnSet(f, At(T, k))
    <3> DEFINE A == At(T, k)
    <3>1. A \in SUBSET S /\ z \in S \ A /\ At(T2, k) = A \cup {z}
      BY <2>4, Zenon
    <3> HIDE DEF A
    <3>2. SumFunctionOnSet(f, A \cup {z}) = f[z] + SumFunctionOnSet(f, A)
      BY <3>1, SumInsert
    <3> QED BY <3>1, <3>2, Zenon DEF A
  <2>7. \A c \in C : G(T)[c] \in Int /\ G(T2)[c] \in Int
    BY <1>0, <2>1, Zenon
  <2>8. \A c \in C : c # k => G(T2)[c] = G(T)[c]
    BY <1>0, <2>1, <2>3, Zenon
  <2>9. G(T2)[k] = f[z] + G(T)[k]
    BY <1>0, <2>1, <2>6, Zenon
  <2>10. SumFunctionOnSet(G(T2), C) = SumFunctionOnSet(G(T), C) - G(T)[k] + G(T2)[k]
    <3> DEFINE g == G(T)
               h == G(T2)
    <3>1. (\A c \in C : g[c] \in Int /\ h[c] \in Int) /\ (\A c \in C : c # k => h[c] = g[c]) /\ k \in C
      BY <2>1, <2>7, <2>8, Zenon
    <3> HIDE DEF g, h
    <3>2. SumFunctionOnSet(h, C) = SumFunctionOnSet(g, C) - g[k] + h[k]
      BY <3>1, SumChange
    <3> QED BY <3>2, Zenon DEF g, h
  <2> QED BY <2>1, <2>2, <2>5, <2>7, <2>9, <2>10
<1> HIDE DEF Good
<1>3. S \in Good
  BY <1>1, <1>2, SetInduction, Zenon
<1> QED BY <1>3, Zenon DEF Good

\* A set of numbers has a least one.
LEMMA LeastOf ==
  ASSUME NEW m \in Nat, NEW B, B \subseteq 0..m, B # {}
  PROVE  \E n \in B : \A k \in B : n <= k
<1> DEFINE T == {0..n : n \in B}
           S == 0..m
<1>1. T \subseteq SUBSET S /\ T # {}
  <2>1. \A n \in B : 0..n \subseteq S
    OBVIOUS
  <2> HIDE DEF S
  <2> QED BY <2>1, Zenon
<1>2. IsFiniteSet(S)
  BY FS_Interval
<1>3. PICK x \in T : \A y \in T : y \subseteq x => y = x
  <2> HIDE DEF T, S
  <2> QED BY <1>1, <1>2, Minimal
<1>4. PICK n \in B : x = 0..n
  BY <1>3, Zenon
<1>5. ASSUME NEW k \in B, k < n PROVE FALSE
  <2>1. k \in Nat /\ n \in Nat
    OBVIOUS
  <2>2. 0..k \subseteq 0..n /\ n \notin 0..k /\ n \in 0..n
    BY <2>1, <1>5
  <2>3. 0..k \in T
    BY Zenon
  <2> HIDE DEF T
  <2> QED BY <2>2, <2>3, <1>3, <1>4, Zenon
<1>6. \A k \in B : k \in Int /\ n \in Int
  OBVIOUS
<1> QED BY <1>4, <1>5, <1>6

\* Induction over 0..m.
LEMMA UpTo ==
  ASSUME NEW m \in Nat, NEW Good, 0 \in Good, \A n \in 0..(m - 1) : n \in Good => n + 1 \in Good
  PROVE  \A n \in 0..m : n \in Good
<1> SUFFICES ASSUME \E n \in 0..m : n \notin Good PROVE FALSE
  BY Zenon
<1> DEFINE B == {n \in 0..m : n \notin Good}
<1>1. PICK n \in B : \A k \in B : n <= k
  <2>1. B \subseteq 0..m /\ B # {}
    BY Zenon
  <2> HIDE DEF B
  <2> QED BY <2>1, LeastOf, Zenon
<1>2. n # 0 /\ n \in Nat /\ n - 1 \in 0..(m - 1) /\ n - 1 \in 0..m
  BY <1>1
<1>3. n - 1 \in Good
  BY <1>1, <1>2
<1>4. (n - 1) + 1 = n
  BY <1>2
<1> QED BY <1>1, <1>2, <1>3, <1>4, Zenon

-----------------------------------------------------------------------------
(* Arithmetic. *)

\* Products.
LEMMA TimesNat == ASSUME NEW a \in Nat, NEW b \in Nat PROVE a * b \in Nat
  OBVIOUS

LEMMA TimesLeq ==
  ASSUME NEW a \in Int, NEW b \in Int, NEW c \in Nat, a <= b
  PROVE  a * c <= b * c
<1>1. (b - a) * c >= 0
  BY TimesNat
<1>2. (b - a) * c = b * c - a * c
  OBVIOUS
<1> QED BY <1>1, <1>2

LEMMA TimesLess ==
  ASSUME NEW a \in Int, NEW b \in Int, NEW c \in Nat \ {0}, a < b
  PROVE  a * c < b * c
<1>1. (b - a) * c >= 1
  OBVIOUS
<1>2. (b - a) * c = b * c - a * c
  OBVIOUS
<1> QED BY <1>1, <1>2

LEMMA TimesPos == ASSUME NEW a \in Nat \ {0}, NEW b \in Nat \ {0} PROVE a * b \in Nat \ {0}
  OBVIOUS

\* Quotient and remainder.
LEMMA DivIs ==
  ASSUME NEW x \in Nat, NEW y \in Nat \ {0}
  PROVE  x \div y \in Nat /\ (x \div y) * y <= x /\ x < (x \div y) * y + y
  OBVIOUS

LEMMA ModIs ==
  ASSUME NEW x \in Nat, NEW y \in Nat \ {0}
  PROVE  x % y \in 0..(y - 1) /\ x % y = x - y * (x \div y)
<1>1. x % y \in Int /\ x % y >= 0 /\ x % y < y
  OBVIOUS
<1>2. x % y = x - y * (x \div y)
  BY Z3
<1> QED BY <1>1, <1>2

-----------------------------------------------------------------------------
(* Powers of ten. *)

Tens(g, m) == g = [n \in 0..m |-> IF n = 0 THEN 1 ELSE 10 * g[n - 1]]

\* The recursive function Pow10 exists ...
LEMMA TensExist == ASSUME NEW m \in Nat PROVE \E g : Tens(g, m)
<1> DEFINE Good == {n \in 0..m : \E g : Tens(g, n)}
<1>1. 0 \in Good
  <2> DEFINE g == [n \in 0..0 |-> 1]
  <2>1. Tens(g, 0)
    BY DEF Tens
  <2> QED BY <2>1
<1>2. ASSUME NEW n \in 0..(m - 1), n \in Good PROVE n + 1 \in Good
  <2>1. PICK g : Tens(g, n)
    BY <1>2, Zenon
  <2> DEFINE h == [i \in 0..(n + 1) |-> IF i = n + 1 THEN 10 * g[n] ELSE g[i]]
  <2>2. \A i \in 0..(n + 1) : h[i] = IF i = 0 THEN 1 ELSE 10 * h[i - 1]
    <3> TAKE i \in 0..(n + 1)
    <3>1. CASE i = n + 1
      BY <3>1
    <3>2. CASE i \in 0..n
      <4>1. g[i] = IF i = 0 THEN 1 ELSE 10 * g[i - 1]
        BY <3>2, <2>1, Zenon DEF Tens
      <4>2. h[i] = g[i] /\ (i # 0 => h[i - 1] = g[i - 1])
        BY <3>2
      <4> QED BY <4>1, <4>2, Zenon
    <3> QED BY <3>1, <3>2
  <2>3. h = [i \in 0..(n + 1) |-> h[i]]
    BY Zenon
  <2> HIDE DEF h
  <2>4. Tens(h, n + 1)
    BY <2>2, <2>3, Zenon DEF Tens
  <2>5. n + 1 \in 0..m
    OBVIOUS
  <2> QED BY <2>4, <2>5, Zenon
<1> HIDE DEF Good
<1>3. \A n \in 0..m : n \in Good
  BY <1>1, <1>2, UpTo, Zenon
<1> QED BY <1>3 DEF Good

\* ... and so it is the powers of ten.
LEMMA PowIs ==
  /\ Pow10[0] = 1
  /\ \A n \in 1..(Precision + Scale) : Pow10[n] = 10 * Pow10[n - 1]
<1> DEFINE m == Precision + Scale
<1>1. m \in Nat
  BY PrecisionAssumption
<1>2. Pow10 = CHOOSE g : Tens(g, m)
  BY Zenon DEF Pow10, Tens
<1> HIDE DEF m
<1>3. Tens(Pow10, m)
  BY <1>1, <1>2, TensExist, Zenon
<1> QED BY <1>1, <1>3 DEF Tens, m

LEMMA PowPos == \A n \in 0..(Precision + Scale) : Pow10[n] \in Nat \ {0}
<1> DEFINE m == Precision + Scale
           Good == {n \in 0..m : Pow10[n] \in Nat \ {0}}
<1>1. m \in Nat
  BY PrecisionAssumption
<1>2. 0 \in Good
  BY <1>1, PowIs
<1>3. ASSUME NEW n \in 0..(m - 1), n \in Good PROVE n + 1 \in Good
  <2>1. n + 1 \in 1..m /\ n + 1 \in 0..m /\ (n + 1) - 1 = n
    BY <1>1
  <2>2. Pow10[n + 1] = 10 * Pow10[n]
    BY <2>1, PowIs, Zenon
  <2> QED BY <1>3, <2>1, <2>2
<1> HIDE DEF Good, m
<1>4. \A n \in 0..m : n \in Good
  BY <1>1, <1>2, <1>3, UpTo, Zenon
<1> QED BY <1>4, Zenon DEF Good, m

\* A power of ten is a multiple of the smaller ones.
LEMMA PowDivides ==
  ASSUME NEW i \in 0..(Precision + Scale)
  PROVE  \A j \in 0..i : \E c \in Nat \ {0} : Pow10[i] = c * Pow10[j]
<1> DEFINE m == Precision + Scale
           Good == {n \in 0..m : \A j \in 0..n : \E c \in Nat \ {0} : Pow10[n] = c * Pow10[j]}
<1>1. m \in Nat
  BY PrecisionAssumption
<1>2. 0 \in Good
  BY <1>1, PowIs
<1>3. ASSUME NEW n \in 0..(m - 1), n \in Good PROVE n + 1 \in Good
  <2>1. n + 1 \in 1..m /\ n + 1 \in 0..m /\ (n + 1) - 1 = n
    BY <1>1
  <2>2. Pow10[n + 1] = 10 * Pow10[n]
    BY <2>1, PowIs, Zenon
  <2>3. \A j \in 0..(n + 1) : \E c \in Nat \ {0} : Pow10[n + 1] = c * Pow10[j]
    <3> TAKE j \in 0..(n + 1)
    <3>1. CASE j = n + 1
      <4>1. Pow10[n + 1] \in Nat
        BY <2>1, PowPos, Zenon DEF m
      <4> QED BY <3>1, <4>1
    <3>2. CASE j \in 0..n
      <4>1. PICK c \in Nat \ {0} : Pow10[n] = c * Pow10[j]
        BY <3>2, <1>3, Zenon
      <4>0. j \in 0..(Precision + Scale)
        BY <1>1, <3>2
      <4>2. Pow10[j] \in Nat
        BY <4>0, PowPos, Zenon
      <4>3. 10 * (c * Pow10[j]) = (10 * c) * Pow10[j] /\ 10 * c \in Nat \ {0}
        BY <4>2
      <4> QED BY <2>2, <4>1, <4>3, Zenon
    <3> QED BY <3>1, <3>2
  <2> QED BY <2>1, <2>3, Zenon
<1> HIDE DEF Good, m
<1>4. \A n \in 0..m : n \in Good
  BY <1>1, <1>2, <1>3, UpTo, Zenon
<1> QED BY <1>4, Zenon DEF Good, m

LEMMA PowGrows ==
  ASSUME NEW i \in 0..(Precision + Scale), NEW j \in 0..i
  PROVE  Pow10[j] <= Pow10[i]
<1>1. PICK c \in Nat \ {0} : Pow10[i] = c * Pow10[j]
  BY PowDivides, Zenon
<1>2. j \in 0..(Precision + Scale) /\ Pow10[j] \in Nat
  BY PrecisionAssumption, PowPos
<1>3. 1 * Pow10[j] <= c * Pow10[j]
  BY <1>2, TimesLeq
<1> QED BY <1>1, <1>2, <1>3

-----------------------------------------------------------------------------
(* Quotients. *)

\* The place of the last digit of a number that is not too large: the number has
\* all its digits before it.
LEMMA LastPlaceIs ==
  ASSUME NEW v \in Nat, v < Pow10[Precision + Scale]
  PROVE  \E k \in 0..Scale : LastPlace(v) = Pow10[k] /\ (k > 0 => v >= Pow10[Precision + k - 1])
<1> DEFINE B == {n \in 0..Scale : v < Pow10[Precision + n]}
<1>1. PICK n \in B : \A i \in B : n <= i
  <2>1. Scale \in B /\ B \subseteq 0..Scale /\ Scale \in Nat
    BY PrecisionAssumption
  <2> HIDE DEF B
  <2> QED BY <2>1, LeastOf, Zenon
<1>2. v < Pow10[Precision + n] /\ (n > 0 => v >= Pow10[Precision + n - 1])
  <2>1. ASSUME n > 0 PROVE v >= Pow10[Precision + n - 1]
    <3>1. n - 1 \in 0..Scale /\ n - 1 \notin B
      BY <1>1, <2>1, PrecisionAssumption
    <3>2. Precision + n - 1 = Precision + (n - 1) /\ Precision + (n - 1) \in 0..(Precision + Scale)
      BY <3>1, PrecisionAssumption
    <3>3. Pow10[Precision + (n - 1)] \in Nat
      BY <3>2, PowPos, Zenon
    <3> QED BY <3>1, <3>2, <3>3
  <2> QED BY <1>1, <2>1, Zenon
<1> DEFINE k == CHOOSE i \in 0..Scale : v < Pow10[Precision + i] /\ (i > 0 => v >= Pow10[Precision + i - 1])
<1>3. k \in 0..Scale /\ (k > 0 => v >= Pow10[Precision + k - 1])
  BY <1>1, <1>2, Zenon
<1>4. LastPlace(v) = Pow10[k]
  BY Zenon DEF LastPlace
<1> HIDE DEF k
<1> QED BY <1>3, <1>4, Zenon

\* A number with few digits before the point keeps many behind it.
LEMMA LastPlaceLeq ==
  ASSUME NEW v \in Nat, NEW i \in 0..Scale, v < Pow10[Precision + i]
  PROVE  LastPlace(v) \in Nat \ {0} /\ LastPlace(v) <= Pow10[i]
<1>0. Precision \in Nat \ {0} /\ Scale \in Nat
  BY PrecisionAssumption, Zenon
<1>1. v < Pow10[Precision + Scale]
  <2>1. Precision + i \in 0..(Precision + Scale) /\ Precision + Scale \in 0..(Precision + Scale)
    BY <1>0
  <2>2. Pow10[Precision + i] <= Pow10[Precision + Scale]
    BY <2>1, PowGrows, <1>0, Zenon
  <2> QED BY <2>1, <2>2, PowPos
<1>2. PICK k \in 0..Scale : LastPlace(v) = Pow10[k] /\ (k > 0 => v >= Pow10[Precision + k - 1])
  BY <1>1, LastPlaceIs, Zenon
<1>3. k <= i
  <2> SUFFICES ASSUME k > i PROVE FALSE
    BY <1>0
  <2>1. Precision + k - 1 \in 0..(Precision + Scale) /\ Precision + i \in 0..(Precision + k - 1)
    BY <1>0
  <2>2. Pow10[Precision + i] <= Pow10[Precision + k - 1]
    BY <2>1, PowGrows, Zenon
  <2>3. Pow10[Precision + i] \in Nat /\ Pow10[Precision + k - 1] \in Nat
    BY <1>0, PowPos
  <2> QED BY <1>2, <2>2, <2>3, <1>0
<1>4. k \in 0..(Precision + Scale) /\ i \in 0..(Precision + Scale) /\ k \in 0..i
  BY <1>0, <1>3
<1> QED BY <1>2, <1>4, PowGrows, PowPos, Zenon

\* A quotient is rounded by half a last place at most.
LEMMA DivFacts ==
  ASSUME NEW a \in Nat, NEW b \in Nat \ {0}, NEW i \in 0..Scale, (a * Unit) \div b < Pow10[Precision + i]
  PROVE  LET u == LastPlace((a * Unit) \div b) IN
         /\ u \in Nat \ {0} /\ u <= Pow10[i]
         /\ Div(a, b) \in Nat
         /\ 2 * (Div(a, b) * b) <= 2 * (a * Unit) + b * u
         /\ 2 * (Div(a, b) * b) > 2 * (a * Unit) - b * u
<1> DEFINE u == LastPlace((a * Unit) \div b)
           x == 2 * a * Unit + b * u
           y == 2 * b * u
           q == x \div y
<1>1. Unit \in Nat \ {0} /\ (a * Unit) \div b \in Nat
  <2>1. Unit \in Nat \ {0}
    BY PowPos, PrecisionAssumption DEF Unit
  <2>2. a * Unit \in Nat
    BY <2>1, TimesNat, Zenon
  <2> QED BY <2>1, <2>2, DivIs, Zenon
<1>2. u \in Nat \ {0} /\ u <= Pow10[i]
  BY <1>1, LastPlaceLeq, Zenon
<1>3. Div(a, b) = q * u
  BY Zenon DEF Div
<1> HIDE DEF u
<1>4. x \in Nat /\ y \in Nat \ {0}
  <2>1. 2 * a * Unit \in Nat /\ b * u \in Nat /\ 2 * b \in Nat \ {0}
    BY <1>1, <1>2, TimesNat
  <2> QED BY <2>1, <1>2, TimesPos
<1>5. q \in Nat /\ q * y <= x /\ x < q * y + y
  <2> HIDE DEF x, y
  <2> QED BY <1>4, DivIs, Zenon
<1> HIDE DEF q
<1>6. q * u \in Nat /\ q * y = 2 * ((q * u) * b) /\ y = 2 * (b * u) /\ x = 2 * (a * Unit) + b * u
  BY <1>5, <1>1, <1>2
<1>7. b * u \in Nat /\ a * Unit \in Nat /\ (q * u) * b \in Nat
  BY <1>6, <1>1, <1>2, TimesNat, Zenon
<1> HIDE DEF x, y
<1> QED BY <1>2, <1>3, <1>5, <1>6, <1>7 DEF u

\* Rounding a quotient does not take it past a whole number.
LEMMA RoundsToward ==
  ASSUME NEW a \in Nat, NEW b \in Nat \ {0}, (a * Unit) \div b < Pow10[Precision + Scale], NEW m \in Nat
  PROVE  /\ a <= m * b => Div(a, b) <= m * Unit
         /\ m * b <= a => m * Unit <= Div(a, b)
<1> DEFINE u == LastPlace((a * Unit) \div b)
           x == 2 * a * Unit + b * u
           y == 2 * b * u
           q == x \div y
<1>1. Unit \in Nat \ {0} /\ (a * Unit) \div b \in Nat /\ Scale \in 0..(Precision + Scale)
  <2>1. Unit \in Nat \ {0} /\ Scale \in 0..(Precision + Scale)
    BY PowPos, PrecisionAssumption DEF Unit
  <2>2. a * Unit \in Nat
    BY <2>1, TimesNat, Zenon
  <2> QED BY <2>1, <2>2, DivIs, Zenon
<1>2. PICK k \in 0..Scale : u = Pow10[k]
  BY <1>1, LastPlaceIs, Zenon
<1>3. PICK c \in Nat \ {0} : Unit = c * u
  BY <1>1, <1>2, PowDivides, Zenon DEF Unit
<1>4. u \in Nat \ {0}
  <2>1. k \in 0..(Precision + Scale)
    BY PrecisionAssumption
  <2> QED BY <1>2, <2>1, PowPos, Zenon
<1>5. Div(a, b) = q * u
  BY Zenon DEF Div
<1> HIDE DEF u
<1> DEFINE B == b * u
           P == m * c
<1>6. B \in Nat \ {0} /\ P \in Nat /\ y = 2 * B /\ x = 2 * ((a * c) * u) + B /\ m * Unit = P * u /\ (P * b) * u = P * B
  BY <1>3, <1>4, TimesPos, TimesNat
<1>7. a * c \in Nat /\ (a * c) * u \in Nat /\ P * b \in Nat /\ P * B \in Nat /\ (m * b) * c = P * b
  BY <1>3, <1>4, <1>6, TimesNat
<1> HIDE DEF B, P
<1>8. x \in Nat /\ y \in Nat \ {0}
  BY <1>6, <1>7
<1>9. q \in Nat /\ q * y <= x /\ x < q * y + y
  <2> HIDE DEF x, y
  <2> QED BY <1>8, DivIs, Zenon
<1> HIDE DEF x, y, q
<1>10. ASSUME a <= m * b PROVE Div(a, b) <= m * Unit
  <2>1. a * c <= P * b
    BY <1>3, <1>7, <1>10, TimesLeq
  <2>2. (a * c) * u <= P * B
    BY <1>4, <1>6, <1>7, <2>1, TimesLeq
  <2>3. q <= P
    <3> SUFFICES ASSUME P + 1 <= q PROVE FALSE
      BY <1>6, <1>9
    <3>1. (P + 1) * y <= q * y
      BY <1>6, <1>8, <1>9, TimesLeq
    <3>2. (P + 1) * y = 2 * (P * B) + 2 * B
      BY <1>6
    <3> QED BY <3>1, <3>2, <2>2, <1>6, <1>7, <1>8, <1>9
  <2> QED BY <1>4, <1>5, <1>6, <1>9, <2>3, TimesLeq
<1>11. ASSUME m * b <= a PROVE m * Unit <= Div(a, b)
  <2>1. P * b <= a * c
    BY <1>3, <1>7, <1>11, TimesLeq
  <2>2. P * B <= (a * c) * u
    BY <1>4, <1>6, <1>7, <2>1, TimesLeq
  <2>3. P <= q
    <3> SUFFICES ASSUME q + 1 <= P PROVE FALSE
      BY <1>6, <1>9
    <3>1. (q + 1) * y <= P * y
      BY <1>6, <1>8, <1>9, TimesLeq
    <3>2. P * y = 2 * (P * B) /\ (q + 1) * y = q * y + y /\ q * y \in Nat
      BY <1>6, <1>8, <1>9
    <3> QED BY <3>1, <3>2, <2>2, <1>6, <1>7, <1>8, <1>9
  <2> QED BY <1>4, <1>5, <1>6, <1>9, <2>3, TimesLeq
<1> QED BY <1>10, <1>11, Zenon

-----------------------------------------------------------------------------
(* The order of the loop. *)

Entries(exact) ==
  /\ IsFiniteSet(DOMAIN exact) /\ DOMAIN exact \subseteq Int /\ DOMAIN exact # {}
  /\ \A i \in DOMAIN exact : Remainder(exact[i]) \in Int

\* No two entries have the same place in the order of the loop.
LEMMA RankIs ==
  ASSUME NEW exact, Entries(exact), NEW i \in DOMAIN exact
  PROVE  /\ Cardinality(Before(exact, i)) \in 0..(Cardinality(DOMAIN exact) - 1)
         /\ \A j \in DOMAIN exact : i # j => Cardinality(Before(exact, i)) # Cardinality(Before(exact, j))
<1> DEFINE I == DOMAIN exact
<1>1. IsFiniteSet(I) /\ \A j \in I : IsFiniteSet(Before(exact, j)) /\ Cardinality(Before(exact, j)) \in Nat
  BY FS_Subset, FS_CardinalityType, Zenon DEF Entries, Before
<1>2. ASSUME NEW j \in I, NEW k \in I, j \in Before(exact, k)
      PROVE  Cardinality(Before(exact, j)) < Cardinality(Before(exact, k))
  <2>1. j \notin Before(exact, j) /\ Before(exact, j) \subseteq Before(exact, k)
    BY <1>2 DEF Before, Entries
  <2>2. Before(exact, j) # Before(exact, k)
    BY <1>2, <2>1, Zenon
  <2> QED BY <1>1, <2>1, <2>2, FS_Subset
<1>3. Cardinality(Before(exact, i)) < Cardinality(I)
  <2>1. Before(exact, i) \subseteq I /\ i \notin Before(exact, i)
    BY DEF Before, Entries
  <2>2. Before(exact, i) # I
    BY <2>1, Zenon
  <2>3. Cardinality(I) \in Nat
    BY <1>1, FS_CardinalityType, Zenon
  <2> HIDE DEF I
  <2> QED BY <1>1, <2>1, <2>2, <2>3, FS_Subset DEF I
<1>4. ASSUME NEW j \in I, i # j PROVE Cardinality(Before(exact, i)) # Cardinality(Before(exact, j))
  <2>1. i \in Before(exact, j) \/ j \in Before(exact, i)
    BY <1>4 DEF Before, Entries
  <2> QED BY <1>1, <1>2, <2>1
<1>5. Cardinality(I) \in Nat
  BY <1>1, FS_CardinalityType, Zenon
<1> QED BY <1>1, <1>3, <1>4, <1>5

\* So the places are 0, 1, 2 and so on.
LEMMA RankCount ==
  ASSUME NEW exact, Entries(exact), NEW r \in 0..Cardinality(DOMAIN exact)
  PROVE  Cardinality({i \in DOMAIN exact : Cardinality(Before(exact, i)) < r}) = r
<1> DEFINE I == DOMAIN exact
           n == Cardinality(I)
           R == 0..(n - 1)
           f == [i \in I |-> Cardinality(Before(exact, i))]
           A == {i \in I : f[i] < r}
           Q == 0..(r - 1)
           g == [i \in A |-> f[i]]
<1>1. IsFiniteSet(I) /\ n \in Nat \ {0}
  BY FS_CardinalityType, FS_EmptySet, Zenon DEF Entries
<1>2. f \in [I -> R] /\ \A i, j \in I : f[i] = f[j] => i = j
  BY RankIs, Zenon
<1>3. IsFiniteSet(R) /\ Cardinality(R) = n
  <2> HIDE DEF n
  <2>1. 0 \in Int /\ n - 1 \in Int /\ ~ (0 > n - 1) /\ n - 1 - 0 + 1 = n
    BY <1>1
  <2> QED BY <2>1, FS_Interval, Zenon
<1> HIDE DEF f, R, n
<1>4. f \in Injection(I, R)
  BY <1>2, Zenon DEF Injection, IsInjective
<1>5. f \in Surjection(I, R)
  BY <1>3, <1>4, FS_Injection, Zenon DEF n
<1>6. \A k \in R : \E i \in I : f[i] = k
  BY <1>5, Zenon DEF Surjection
<1>7. Q \subseteq R /\ \A k \in R : k < r <=> k \in Q
  BY <1>1 DEF R, n
<1>8. IsFiniteSet(Q) /\ Cardinality(Q) = r
  BY FS_Interval
<1> HIDE DEF Q
<1>9. g \in [A -> Q] /\ (\A i, j \in A : g[i] = g[j] => i = j) /\ \A k \in Q : \E i \in A : g[i] = k
  BY <1>2, <1>6, <1>7, Zenon
<1>10. IsFiniteSet(A)
  BY <1>1, FS_Subset, Zenon
<1> HIDE DEF g, A
<1>11. g \in Bijection(A, Q)
  BY <1>9, Zenon DEF Bijection, Injection, IsInjective, Surjection
<1>12. Cardinality(Q) = Cardinality(A)
  BY <1>10, <1>11, FS_Bijection, Zenon DEF ExistsBijection
<1> QED BY <1>8, <1>12, Zenon DEF A, f

\* The loop hands out exactly what is missing.
LEMMA RestIsShared ==
  ASSUME NEW exact, Entries(exact), NEW missing \in Nat
  PROVE  SumFunctionOnSet([i \in DOMAIN exact |-> ShareOfRest(missing, exact, i)], DOMAIN exact) = missing
<1> DEFINE I == DOMAIN exact
           n == Cardinality(I)
           s == [i \in I |-> ShareOfRest(missing, exact, i)]
           A == {i \in I : Cardinality(Before(exact, i)) < missing % n}
           one == [i \in I |-> IF i \in I THEN 1 ELSE 0]
           each == [i \in I |-> (missing \div n) * one[i]]
           more == [i \in I |-> IF i \in A THEN 1 ELSE 0]
<1>1. IsFiniteSet(I) /\ n \in Nat \ {0}
  BY FS_CardinalityType, FS_EmptySet, Zenon DEF Entries
<1>2. CASE missing = 0
  <2>1. \A i \in I : s[i] = IF i \in {} THEN 1 ELSE 0
    BY <1>2 DEF ShareOfRest
  <2> HIDE DEF s, I
  <2> QED BY <1>1, <1>2, <2>1, SumCount, FS_EmptySet, Zenon DEF s, I
<1>3. CASE missing > 0
  <2> DEFINE d == missing \div n
             e == missing % n
  <2>1. d \in Nat /\ e \in 0..(n - 1) /\ missing = d * n + e
    <3> HIDE DEF n
    <3>1. missing % n = missing - n * (missing \div n) /\ missing % n \in 0..(n - 1)
      BY <1>1, ModIs, Zenon
    <3>2. missing \div n \in Nat
      BY <1>1, DivIs, Zenon
    <3>3. n * (missing \div n) = (missing \div n) * n /\ (missing \div n) * n \in Nat
      BY <1>1, <3>2, TimesNat
    <3> QED BY <3>1, <3>2, <3>3
  <2> HIDE DEF d, e
  <2>2. SumFunctionOnSet(more, I) = e
    <3>1. A \in SUBSET I /\ \A i \in I : more[i] = IF i \in A THEN 1 ELSE 0
      BY Zenon
    <3>2. e \in 0..Cardinality(DOMAIN exact)
      BY <1>1, <2>1
    <3>3. Cardinality(A) = e
      BY <3>2, RankCount, Zenon DEF e
    <3> HIDE DEF more, A, I
    <3> QED BY <1>1, <3>1, <3>3, SumCount, Zenon
  <2>3. SumFunctionOnSet(one, I) = n
    <3>1. \A i \in I : one[i] = IF i \in I THEN 1 ELSE 0
      BY Zenon
    <3> HIDE DEF one
    <3> QED BY <1>1, <3>1, SumCount, Zenon
  <2>4. SumFunctionOnSet(each, I) = d * n
    <3>1. \A i \in I : one[i] \in Int /\ each[i] = d * one[i]
      BY DEF d
    <3>2. d \in Int /\ IsFiniteSet(I)
      BY <1>1, <2>1
    <3> HIDE DEF each, one, I, n
    <3>3. SumFunctionOnSet(each, I) = d * SumFunctionOnSet(one, I)
      BY <3>1, <3>2, SumTimes, Zenon
    <3> QED BY <2>3, <3>3, Zenon
  <2>5. \A i \in I : each[i] \in Int /\ more[i] \in Int /\ s[i] = each[i] + more[i]
    BY <1>3, <2>1 DEF ShareOfRest, d
  <2>6. SumFunctionOnSet(s, I) = SumFunctionOnSet(each, I) + SumFunctionOnSet(more, I)
    <3> HIDE DEF s, each, more, I
    <3> QED BY <1>1, <2>5, SumPlus, Zenon
  <2> QED BY <2>1, <2>2, <2>4, <2>6, Zenon
<1> QED BY <1>2, <1>3

-----------------------------------------------------------------------------
(* largestRemainder. *)

LEMMA SumNat ==
  ASSUME NEW S, IsFiniteSet(S), NEW f, \A x \in S : f[x] \in Nat
  PROVE  SumFunctionOnSet(f, S) \in Nat
<1> DEFINE z == [x \in S |-> IF x \in {} THEN 1 ELSE 0]
<1>1. SumFunctionOnSet(f, S) \in Int
  BY SumInt
<1>2. \A x \in S : z[x] = (IF x \in {} THEN 1 ELSE 0) /\ z[x] \in Int /\ f[x] \in Int /\ z[x] <= f[x]
  OBVIOUS
<1> HIDE DEF z
<1>3. SumFunctionOnSet(z, S) = 0
  BY <1>2, SumCount, FS_EmptySet, Zenon
<1>4. SumFunctionOnSet(z, S) <= SumFunctionOnSet(f, S)
  BY <1>2, SumLeq, Zenon
<1> QED BY <1>1, <1>3, <1>4

\* An entry is not more than the sum.
LEMMA SumCovers ==
  ASSUME NEW S, IsFiniteSet(S), NEW f, \A x \in S : f[x] \in Nat, NEW z \in S
  PROVE  f[z] <= SumFunctionOnSet(f, S)
<1>1. SumFunctionOnSet(f, S) = f[z] + SumFunctionOnSet(f, S \ {z})
  BY SumRemove
<1>2. IsFiniteSet(S \ {z}) /\ \A x \in S \ {z} : f[x] \in Nat
  BY FS_Subset, Zenon
<1>3. SumFunctionOnSet(f, S \ {z}) \in Nat
  BY <1>2, SumNat, Zenon
<1> QED BY <1>1, <1>3

\* Fewer terms.
LEMMA SumSubset ==
  ASSUME NEW S, IsFiniteSet(S), NEW f, \A x \in S : f[x] \in Nat, NEW A \in SUBSET S
  PROVE  SumFunctionOnSet(f, A) <= SumFunctionOnSet(f, S)
<1> DEFINE B == S \ A
<1>1. SumFunctionOnSet(f, S) = SumFunctionOnSet(f, A) + SumFunctionOnSet(f, B)
  BY SumParts
<1>2. IsFiniteSet(A) /\ IsFiniteSet(B) /\ (\A x \in A : f[x] \in Nat) /\ \A x \in B : f[x] \in Nat
  BY FS_Subset, Zenon
<1> HIDE DEF B
<1>3. SumFunctionOnSet(f, A) \in Nat /\ SumFunctionOnSet(f, B) \in Nat
  BY <1>2, SumNat, Zenon
<1> QED BY <1>1, <1>3

Weights(w) ==
  /\ IsFiniteSet(DOMAIN w) /\ DOMAIN w \subseteq Int
  /\ \A i \in DOMAIN w : w[i] \in Nat
  /\ SumFunction(w) > 0

LEMMA WeightsSum ==
  ASSUME NEW w, Weights(w)
  PROVE  /\ SumFunction(w) \in Nat \ {0} /\ DOMAIN w # {}
         /\ \A i \in DOMAIN w : w[i] <= SumFunction(w)
<1> DEFINE I == DOMAIN w
<1>1. SumFunction(w) = SumFunctionOnSet(w, I)
  BY Zenon DEF SumFunction
<1>2. IsFiniteSet(I) /\ \A i \in I : w[i] \in Nat
  BY Zenon DEF Weights
<1> HIDE DEF I
<1>3. SumFunctionOnSet(w, I) \in Nat /\ \A i \in I : w[i] <= SumFunctionOnSet(w, I)
  BY <1>2, SumNat, SumCovers, Zenon
<1>4. I # {}
  <2> SUFFICES ASSUME I = {} PROVE FALSE
    BY Zenon
  <2>1. SumFunctionOnSet(w, I) = 0
    BY SumEmpty, Zenon
  <2> QED BY <2>1, <1>1 DEF Weights
<1> QED BY <1>1, <1>3, <1>4 DEF Weights, I

\* The quotient is not more than the total.
LEMMA QuotientFits ==
  ASSUME NEW w, Weights(w), NEW total \in Nat, NEW k \in 0..Scale, total * Unit < Pow10[Precision + k],
         NEW i \in DOMAIN w
  PROVE  (total * w[i] * Unit) \div SumFunction(w) < Pow10[Precision + k]
<1> DEFINE W == SumFunction(w)
           v == w[i]
           a == total * v
           t == total * Unit
<1>1. W \in Nat \ {0} /\ v \in Nat /\ v <= W
  BY WeightsSum, Zenon DEF Weights
<1>2. Unit \in Nat \ {0} /\ Pow10[Precision + k] \in Nat
  BY PowPos, PrecisionAssumption DEF Unit
<1> HIDE DEF W, v
<1>3. t \in Nat /\ a * Unit \in Nat /\ a * Unit = v * t
  BY <1>1, <1>2, TimesNat
<1>4. v * t <= W * t
  BY <1>1, <1>3, TimesLeq
<1> HIDE DEF a, t
<1> DEFINE d == (a * Unit) \div W
<1>5. d \in Nat /\ d * W <= a * Unit
  BY <1>1, <1>3, DivIs, Zenon
<1> HIDE DEF d
<1>6. d <= t
  <2> SUFFICES ASSUME t < d PROVE FALSE
    BY <1>3, <1>5
  <2>1. t * W < d * W
    BY <1>1, <1>3, <1>5, TimesLess
  <2>2. t * W = W * t /\ t * W \in Nat /\ d * W \in Nat
    BY <1>1, <1>3, <1>5, TimesNat
  <2> QED BY <2>1, <2>2, <1>3, <1>4, <1>5
<1>7. d < Pow10[Precision + k]
  BY <1>2, <1>3, <1>5, <1>6 DEF t
<1> QED BY <1>7, Zenon DEF d, a, v, W

\* A quotient differs from the exact share by half a last place at most.
LEMMA QuotientFacts ==
  ASSUME NEW w, Weights(w), NEW total \in Nat, NEW k \in 0..Scale, total * Unit < Pow10[Precision + k],
         NEW i \in DOMAIN w
  PROVE  LET W == SumFunction(w)
             q == Div(total * w[i], W)
         IN  /\ q \in Nat
             /\ 2 * (q * W) <= 2 * (total * w[i] * Unit) + W * Pow10[k]
             /\ 2 * (q * W) > 2 * (total * w[i] * Unit) - W * Pow10[k]
<1> DEFINE W == SumFunction(w)
           v == w[i]
           a == total * v
           u == LastPlace((a * Unit) \div W)
<1>1. W \in Nat \ {0} /\ v \in Nat
  BY WeightsSum, Zenon DEF Weights
<1>2. (a * Unit) \div W < Pow10[Precision + k]
  BY QuotientFits, Zenon
<1>3. Unit \in Nat \ {0} /\ Pow10[k] \in Nat
  BY PowPos, PrecisionAssumption DEF Unit
<1> HIDE DEF W, v
<1>4. a \in Nat /\ a * Unit \in Nat
  BY <1>1, <1>3, TimesNat, Zenon
<1> HIDE DEF a
<1>5. /\ u \in Nat \ {0} /\ u <= Pow10[k] /\ Div(a, W) \in Nat
      /\ 2 * (Div(a, W) * W) <= 2 * (a * Unit) + W * u
      /\ 2 * (Div(a, W) * W) > 2 * (a * Unit) - W * u
  BY <1>1, <1>2, <1>4, DivFacts, Zenon
<1> HIDE DEF u
<1>6. W * u <= W * Pow10[k] /\ W * u \in Nat /\ W * Pow10[k] \in Nat /\ Div(a, W) * W \in Nat
  <2>1. u * W <= Pow10[k] * W /\ u * W = W * u /\ Pow10[k] * W = W * Pow10[k]
    BY <1>1, <1>3, <1>5, TimesLeq
  <2> QED BY <2>1, <1>1, <1>3, <1>5, TimesNat, Zenon
<1>7. /\ 2 * (Div(a, W) * W) <= 2 * (a * Unit) + W * Pow10[k]
      /\ 2 * (Div(a, W) * W) > 2 * (a * Unit) - W * Pow10[k]
  BY <1>4, <1>5, <1>6
<1> QED BY <1>5, <1>7, Zenon DEF a, W, v

LEMMA FloorIs ==
  ASSUME NEW q \in Nat
  PROVE  /\ Floor(q) \in Nat /\ Floor(q) * Unit <= q /\ q < Floor(q) * Unit + Unit
         /\ Remainder(q) \in 0..(Unit - 1) /\ q = Floor(q) * Unit + Remainder(q)
<1>1. Unit \in Nat \ {0}
  BY PowPos, PrecisionAssumption DEF Unit
<1>2. Floor(q) \in Nat /\ Floor(q) * Unit <= q /\ q < Floor(q) * Unit + Unit
  BY <1>1, DivIs, Zenon DEF Floor
<1>3. Remainder(q) \in 0..(Unit - 1) /\ Remainder(q) = q - Unit * Floor(q)
  BY <1>1, ModIs, Zenon DEF Floor, Remainder
<1>4. Unit * Floor(q) = Floor(q) * Unit /\ Floor(q) * Unit \in Nat
  BY <1>1, <1>2, TimesNat
<1> QED BY <1>1, <1>2, <1>3, <1>4

LEMMA PreciseIsRepresentable ==
  ASSUME NEW total \in Nat, NEW n, Precise(total, n)
  PROVE  Representable(total)
<1>0. Precision \in Nat \ {0} /\ Scale \in Nat /\ Unit \in Nat
  BY PrecisionAssumption, PowPos DEF Unit
<1>1. PICK k \in 0..Scale : total * Unit < Pow10[Precision + k]
  BY Zenon DEF Precise
<1>2. Precision + Scale \in 0..(Precision + Scale) /\ Precision + k \in 0..(Precision + Scale)
  BY <1>0
<1>3. Pow10[Precision + k] <= Pow10[Precision + Scale]
  BY <1>2, PowGrows, Zenon
<1>4. Pow10[Precision + k] \in Nat /\ Pow10[Precision + Scale] \in Nat /\ total * Unit \in Nat
  BY <1>0, <1>2, PowPos, TimesNat, Zenon
<1> QED BY <1>1, <1>3, <1>4 DEF Representable

LEMMA QuotientsAreEntries ==
  ASSUME NEW w, Weights(w), NEW total \in Nat, Representable(total)
  PROVE  /\ Entries(Quotients(total, w)) /\ DOMAIN Quotients(total, w) = DOMAIN w
         /\ \A i \in DOMAIN w : /\ Quotients(total, w)[i] = Div(total * w[i], SumFunction(w))
                                /\ Quotients(total, w)[i] \in Nat
<1>1. Scale \in 0..Scale
  BY PrecisionAssumption
<1>2. ASSUME NEW i \in DOMAIN w PROVE Div(total * w[i], SumFunction(w)) \in Nat
  BY <1>1, QuotientFacts, Zenon DEF Representable
<1>3. \A i \in DOMAIN w : Remainder(Div(total * w[i], SumFunction(w))) \in Int
  <2>1. Unit \in Nat \ {0}
    BY PowPos, PrecisionAssumption DEF Unit
  <2> QED BY <1>2, <2>1, FloorIs
<1> QED BY <1>2, <1>3, WeightsSum, Zenon DEF Entries, Quotients, Weights

LEMMA ShareOfRestNat ==
  ASSUME NEW exact, Entries(exact), NEW missing \in Int, NEW i
  PROVE  ShareOfRest(missing, exact, i) \in Nat
<1>1. Cardinality(DOMAIN exact) \in Nat \ {0}
  BY FS_CardinalityType, FS_EmptySet, Zenon DEF Entries
<1> QED BY <1>1, DivIs DEF ShareOfRest

\* No share is negative.
LEMMA RemainderNat ==
  ASSUME NEW w, Weights(w), NEW total \in Nat, Representable(total)
  PROVE  largestRemainder(total, w) \in [DOMAIN w -> Nat]
<1> DEFINE I == DOMAIN w
           exact == Quotients(total, w)
           F == [i \in I |-> Floor(exact[i])]
<1>1. Entries(exact) /\ \A i \in I : exact[i] \in Nat
  BY QuotientsAreEntries, Zenon
<1>2. \A i \in I : Floor(exact[i]) \in Nat
  BY <1>1, FloorIs, Zenon
<1>3. SumFunction(F) \in Nat
  <2>1. IsFiniteSet(I) /\ (\A i \in I : F[i] \in Nat) /\ DOMAIN F = I
    BY <1>2, Zenon DEF Weights
  <2> HIDE DEF F, I
  <2> QED BY <2>1, SumNat, Zenon DEF SumFunction
<1> DEFINE missing == total - SumFunction(F)
<1>4. missing \in Int
  BY <1>3
<1>5. largestRemainder(total, w) = [i \in I |-> Floor(exact[i]) + ShareOfRest(missing, exact, i)]
  BY Zenon DEF largestRemainder
<1> HIDE DEF missing, exact, F
<1>6. \A i \in I : ShareOfRest(missing, exact, i) \in Nat
  BY <1>1, <1>4, ShareOfRestNat, Zenon
<1> QED BY <1>2, <1>5, <1>6

\* The whole parts of the quotients are not more than the total, although the
\* quotients are rounded up as well as down: less than a unit is lost in all.
LEMMA FloorsFit ==
  ASSUME NEW w, Weights(w), NEW total \in Nat, NEW n \in Nat, Precise(total, n), Cardinality(DOMAIN w) <= n
  PROVE  SumFunctionOnSet([i \in DOMAIN w |-> Floor(Quotients(total, w)[i])], DOMAIN w) <= total
<1> DEFINE I == DOMAIN w
           exact == Quotients(total, w)
           F == [i \in I |-> Floor(exact[i])]
           W == SumFunction(w)
           U == Unit
<1>1. PICK k \in 0..Scale : total * U < Pow10[Precision + k] /\ n * Pow10[k] < 2 * U
  BY Zenon DEF Precise
<1> DEFINE p == Pow10[k]
           m == Cardinality(I)
<1>2. U \in Nat \ {0} /\ p \in Nat
  BY PowPos, PrecisionAssumption DEF Unit
<1>3. W \in Nat \ {0} /\ (\A i \in I : w[i] \in Nat) /\ IsFiniteSet(I) /\ W = SumFunctionOnSet(w, I) /\ m \in Nat
  BY WeightsSum, FS_CardinalityType, Zenon DEF Weights, SumFunction
<1>4. ASSUME NEW i \in I
      PROVE  /\ F[i] \in Nat
             /\ (2 * W * U) * F[i] <= (2 * total * U) * w[i] + W * p
  <2> DEFINE q == exact[i]
  <2>1. q \in Nat /\ 2 * (q * W) <= 2 * (total * w[i] * U) + W * p
    <3>1. Representable(total)
      BY PreciseIsRepresentable, Zenon
    <3>2. q = Div(total * w[i], W)
      BY <3>1, QuotientsAreEntries, Zenon
    <3> QED BY <1>1, <3>2, QuotientFacts, Zenon
  <2> HIDE DEF exact
  <2>2. F[i] \in Nat /\ F[i] * U <= q
    BY <2>1, FloorIs, Zenon
  <2>3. (F[i] * U) * W <= q * W
    <3>1. F[i] * U \in Int
      BY <2>2, <1>2
    <3> HIDE DEF F, W, U, q
    <3> QED BY <3>1, <2>1, <2>2, <1>3, TimesLeq
  <2> HIDE DEF F, W, U, q, p
  <2>4. (2 * W * U) * F[i] = 2 * ((F[i] * U) * W) /\ (2 * total * U) * w[i] = 2 * (total * w[i] * U)
    BY <1>2, <1>3, <2>2
  <2>5. q * W \in Nat /\ (F[i] * U) * W \in Nat /\ total * w[i] * U \in Nat /\ W * p \in Nat
    BY <1>2, <1>3, <2>1, <2>2, TimesNat, Zenon
  <2> QED BY <2>1, <2>2, <2>3, <2>4, <2>5
<1> DEFINE c == 2 * W * U
           e == 2 * total * U
           wp == W * p
           sF == SumFunctionOnSet(F, I)
<1>5. c \in Nat \ {0} /\ e \in Nat /\ wp \in Nat
  <2> HIDE DEF W, U, p
  <2> QED BY <1>2, <1>3, TimesNat, TimesPos
<1>6. \A i \in I : F[i] \in Int /\ w[i] \in Int /\ c * F[i] <= e * w[i] + wp
  BY <1>3, <1>4
<1>7. c * sF <= e * W + wp * m
  <2>1. c \in Int /\ e \in Int /\ wp \in Int
    BY <1>5
  <2> HIDE DEF F, c, e, wp, I, W
  <2> QED BY <1>3, <1>6, <2>1, SumAffine, Zenon DEF I
<1>8. sF \in Int
  <2> HIDE DEF F, I
  <2> QED BY <1>3, <1>6, SumInt, Zenon
<1>9. wp * m < c
  <2> HIDE DEF p, m, W, U, I
  <2>1. m * p <= n * p
    BY <1>2, <1>3, TimesLeq DEF m, I
  <2>2. m * p < 2 * U
    BY <1>1, <1>2, <1>3, <2>1, TimesNat DEF p
  <2>3. (m * p) * W < (2 * U) * W
    BY <1>2, <1>3, <2>2, TimesLess
  <2>4. (m * p) * W = (W * p) * m /\ (2 * U) * W = 2 * W * U
    BY <1>2, <1>3
  <2> QED BY <2>3, <2>4, Zenon
<1>10. e * W = c * total
  <2> HIDE DEF W, U
  <2> QED BY <1>2, <1>3
<1>11. sF <= total
  <2> HIDE DEF c, e, wp, m, sF, W
  <2> SUFFICES ASSUME total + 1 <= sF PROVE FALSE
    BY <1>8
  <2>1. (total + 1) * c <= sF * c
    BY <1>5, <1>8, TimesLeq
  <2>2. (total + 1) * c = c * total + c /\ sF * c = c * sF /\ c * total \in Nat /\ c * sF \in Int /\ wp * m \in Nat
    BY <1>3, <1>5, <1>8, TimesNat
  <2> QED BY <2>1, <2>2, <1>7, <1>9, <1>10, <1>5
<1> QED BY <1>11, Zenon

\* largestRemainder gives away the total, no more and no less, for any weights
\* that are few enough for the precision of decimal.js: the loop over the sorted
\* entries ends with nothing missing, and never has to take anything back.
THEOREM RemainderExact ==
  ASSUME NEW w, Weights(w), NEW total \in Nat, NEW n \in Nat, Precise(total, n), Cardinality(DOMAIN w) <= n
  PROVE  SumFunctionOnSet(largestRemainder(total, w), DOMAIN w) = total
<1> DEFINE I == DOMAIN w
           exact == Quotients(total, w)
           F == [i \in I |-> Floor(exact[i])]
           missing == total - SumFunction(F)
           s == [i \in I |-> ShareOfRest(missing, exact, i)]
           r == largestRemainder(total, w)
<1>1. Entries(exact) /\ DOMAIN exact = I /\ \A i \in I : exact[i] \in Nat
  BY QuotientsAreEntries, PreciseIsRepresentable, Zenon
<1>2. IsFiniteSet(I) /\ \A i \in I : F[i] \in Nat
  BY <1>1, FloorIs, Zenon DEF Weights
<1>3. SumFunction(F) = SumFunctionOnSet(F, I)
  BY Zenon DEF SumFunction
<1>4. SumFunctionOnSet(F, I) \in Nat
  <2> HIDE DEF F, I
  <2> QED BY <1>2, SumNat, Zenon
<1>5. SumFunctionOnSet(F, I) <= total
  BY FloorsFit, Zenon
<1>6. missing \in Nat
  BY <1>3, <1>4, <1>5
<1>7. r = [i \in I |-> F[i] + s[i]]
  BY Zenon DEF largestRemainder
<1> HIDE DEF missing, exact, r
<1>8. SumFunctionOnSet(s, I) = missing
  <2>1. SumFunctionOnSet([i \in DOMAIN exact |-> ShareOfRest(missing, exact, i)], DOMAIN exact) = missing
    BY <1>1, <1>6, RestIsShared, Zenon
  <2> QED BY <1>1, <2>1, Zenon
<1>9. \A i \in I : s[i] \in Int
  BY <1>1, <1>6, ShareOfRestNat
<1> HIDE DEF F, s, I
<1>10. \A i \in I : F[i] \in Int /\ s[i] \in Int /\ r[i] = F[i] + s[i]
  BY <1>2, <1>7, <1>9
<1>11. SumFunctionOnSet(r, I) = SumFunctionOnSet(F, I) + SumFunctionOnSet(s, I)
  BY <1>2, <1>10, SumPlus, Zenon
<1> QED BY <1>3, <1>4, <1>8, <1>11 DEF missing, r, I

-----------------------------------------------------------------------------
(* The shares of largestRemainder are near the exact ones and in their order. *)

\* The quotients that are not whole numbers.
Fractions(exact) == {i \in DOMAIN exact : Remainder(exact[i]) > 0}

\* There are at least as many of them as units are missing.
LEMMA MissingFew ==
  ASSUME NEW w, Weights(w), NEW total \in Nat, NEW k \in 0..Scale, total * Unit < Pow10[Precision + k],
         Cardinality(DOMAIN w) * Pow10[k] < 2 * Unit
  PROVE  total - SumFunctionOnSet([i \in DOMAIN w |-> Floor(Quotients(total, w)[i])], DOMAIN w)
           <= Cardinality(Fractions(Quotients(total, w)))
<1> DEFINE I == DOMAIN w
           exact == Quotients(total, w)
           F == [i \in I |-> Floor(exact[i])]
           A == Fractions(exact)
           pos == [i \in I |-> IF i \in A THEN 1 ELSE 0]
           G == [i \in I |-> F[i] + pos[i]]
           W == SumFunction(w)
           U == Unit
           p == Pow10[k]
           m == Cardinality(I)
<1>1. U \in Nat \ {0} /\ p \in Nat
  BY PowPos, PrecisionAssumption DEF Unit
<1>2. W \in Nat \ {0} /\ (\A i \in I : w[i] \in Nat) /\ IsFiniteSet(I) /\ W = SumFunctionOnSet(w, I) /\ m \in Nat
  BY WeightsSum, FS_CardinalityType, Zenon DEF Weights, SumFunction
<1>3. Representable(total)
  <2>1. Precise(total, m)
    BY Zenon DEF Precise
  <2> QED BY <2>1, PreciseIsRepresentable, Zenon
<1>4. DOMAIN exact = I /\ A \in SUBSET I
  BY <1>3, QuotientsAreEntries, Zenon DEF Fractions
<1>5. ASSUME NEW i \in I
      PROVE  /\ F[i] \in Nat /\ pos[i] \in Nat /\ G[i] = F[i] + pos[i]
             /\ (2 * total * U) * w[i] <= (2 * W * U) * G[i] + W * p
  <2> DEFINE q == exact[i]
  <2>1. q \in Nat /\ 2 * (q * W) > 2 * (total * w[i] * U) - W * p
    <3>1. q = Div(total * w[i], W)
      BY <1>3, QuotientsAreEntries, Zenon
    <3> QED BY <3>1, QuotientFacts, Zenon
  <2>2. i \in A <=> Remainder(q) > 0
    BY <1>4, Zenon DEF Fractions
  <2> HIDE DEF exact, A
  <2>3. F[i] \in Nat /\ Remainder(q) \in 0..(U - 1) /\ q = F[i] * U + Remainder(q)
    BY <2>1, FloorIs, Zenon
  <2>4. pos[i] = (IF i \in A THEN 1 ELSE 0) /\ G[i] = F[i] + pos[i]
    BY Zenon
  <2> HIDE DEF F, pos, G, U, W, q, p
  <2>5. G[i] \in Nat /\ q <= G[i] * U
    <3>1. CASE i \in A
      <4>1. G[i] = F[i] + 1 /\ G[i] * U = F[i] * U + U /\ F[i] * U \in Nat
        BY <1>1, <2>3, <2>4, <3>1
      <4> QED BY <1>1, <2>3, <4>1
    <3>2. CASE i \notin A
      <4>1. G[i] = F[i]
        BY <2>3, <2>4, <3>2
      <4>2. Remainder(q) = 0 /\ F[i] * U \in Nat
        BY <1>1, <2>2, <2>3, <3>2
      <4> QED BY <2>3, <4>1, <4>2
    <3> QED BY <3>1, <3>2, Zenon
  <2>6. q * W <= (G[i] * U) * W
    <3>1. G[i] * U \in Int
      BY <1>1, <2>5
    <3> QED BY <1>2, <2>1, <2>5, <3>1, TimesLeq
  <2>7. (2 * W * U) * G[i] = 2 * ((G[i] * U) * W) /\ (2 * total * U) * w[i] = 2 * (total * w[i] * U)
    BY <1>1, <1>2, <2>5
  <2>8. q * W \in Nat /\ (G[i] * U) * W \in Nat /\ total * w[i] * U \in Nat /\ W * p \in Nat
    BY <1>1, <1>2, <2>1, <2>5, TimesNat, Zenon
  <2> QED BY <2>1, <2>3, <2>4, <2>6, <2>7, <2>8
<1> DEFINE c == 2 * W * U
           e == 2 * total * U
           wp == W * p
           sF == SumFunctionOnSet(F, I)
           sG == SumFunctionOnSet(G, I)
           n == Cardinality(A)
<1>6. c \in Nat \ {0} /\ e \in Nat /\ wp \in Nat
  <2> HIDE DEF W, U, p
  <2> QED BY <1>1, <1>2, TimesNat, TimesPos
<1>7. \A i \in I : w[i] \in Int /\ G[i] \in Int /\ e * w[i] <= c * G[i] + wp
  BY <1>2, <1>5
<1>8. \A i \in I : F[i] \in Int /\ pos[i] \in Int /\ G[i] = F[i] + pos[i] /\ pos[i] = IF i \in A THEN 1 ELSE 0
  BY <1>5
<1>9. sG = sF + n /\ sF \in Int /\ n \in Nat
  <2> HIDE DEF F, pos, G, I, A
  <2>1. sG = sF + SumFunctionOnSet(pos, I) /\ sF \in Int
    BY <1>2, <1>8, SumPlus, SumInt, Zenon
  <2>2. SumFunctionOnSet(pos, I) = n
    BY <1>2, <1>4, <1>8, SumCount, Zenon
  <2>3. n \in Nat
    BY <1>2, <1>4, FS_Subset, FS_CardinalityType, Zenon
  <2> QED BY <2>1, <2>2, <2>3, Zenon
<1>10. e * W <= c * sG + wp * m
  <2>1. c \in Int /\ e \in Int /\ wp \in Int
    BY <1>6
  <2> HIDE DEF G, c, e, wp, I, W
  <2> QED BY <1>2, <1>7, <2>1, SumAffine, Zenon DEF I
<1>11. wp * m < c /\ wp * m \in Nat
  <2> HIDE DEF p, m, W, U, I
  <2>1. m * p < 2 * U /\ m * p \in Nat
    BY <1>1, <1>2, TimesNat, Zenon DEF p, m, U, I
  <2>2. (m * p) * W < (2 * U) * W
    BY <1>1, <1>2, <2>1, TimesLess
  <2>3. (m * p) * W = (W * p) * m /\ (2 * U) * W = 2 * W * U /\ (W * p) * m \in Nat
    BY <1>1, <1>2
  <2> QED BY <2>2, <2>3, Zenon
<1>12. e * W = c * total
  <2> HIDE DEF W, U
  <2> QED BY <1>1, <1>2
<1>13. total - sF <= n
  <2> HIDE DEF c, e, wp, m, sF, sG, W, n
  <2> SUFFICES ASSUME sG + 1 <= total PROVE FALSE
    BY <1>9
  <2>1. (sG + 1) * c <= total * c
    BY <1>6, <1>9, TimesLeq
  <2>2. (sG + 1) * c = c * sG + c /\ total * c = c * total /\ c * sG \in Int /\ c * total \in Int
    BY <1>6, <1>9
  <2> QED BY <2>1, <2>2, <1>6, <1>10, <1>11, <1>12
<1> QED BY <1>13, Zenon

\* Few missing units go to the first entries of the order, one to each.
LEMMA ShareByRank ==
  ASSUME NEW exact, Entries(exact), NEW missing \in 0..Cardinality(DOMAIN exact), NEW i \in DOMAIN exact
  PROVE  ShareOfRest(missing, exact, i) = IF Cardinality(Before(exact, i)) < missing THEN 1 ELSE 0
<1> DEFINE n == Cardinality(DOMAIN exact)
           r == Cardinality(Before(exact, i))
<1>1. n \in Nat \ {0} /\ r \in 0..(n - 1)
  BY RankIs, FS_CardinalityType, FS_EmptySet, Zenon DEF Entries
<1>2. ShareOfRest(missing, exact, i) =
        IF missing <= 0 THEN 0 ELSE missing \div n + (IF r < missing % n THEN 1 ELSE 0)
  BY Zenon DEF ShareOfRest
<1>3. missing \in 0..n
  BY Zenon
<1> HIDE DEF n, r
<1>4. CASE missing = 0
  BY <1>1, <1>2, <1>4 DEF r
<1>5. CASE missing = n
  <2>1. missing \div n = 1 /\ missing % n = 0 /\ ~(missing <= 0)
    BY <1>1, <1>5
  <2> QED BY <1>1, <1>2, <1>5, <2>1 DEF r
<1>6. CASE missing # 0 /\ missing # n
  <2>1. missing \div n = 0 /\ missing % n = missing /\ ~(missing <= 0)
    BY <1>1, <1>3, <1>6
  <2> QED BY <1>1, <1>2, <2>1 DEF r
<1> QED BY <1>4, <1>5, <1>6, Zenon

LEMMA ShareIsOne ==
  ASSUME NEW exact, Entries(exact), \A j \in DOMAIN exact : Remainder(exact[j]) \in Nat,
         NEW missing \in Nat, missing <= Cardinality(Fractions(exact)), NEW i \in DOMAIN exact
  PROVE  /\ ShareOfRest(missing, exact, i) \in {0, 1}
         /\ ShareOfRest(missing, exact, i) = 1 => Remainder(exact[i]) > 0
         /\ \A j \in DOMAIN exact : Remainder(exact[i]) > Remainder(exact[j]) =>
               ShareOfRest(missing, exact, i) >= ShareOfRest(missing, exact, j)
<1> DEFINE I == DOMAIN exact
           A == Fractions(exact)
           rank(j) == Cardinality(Before(exact, j))
<1>1. IsFiniteSet(I) /\ A \in SUBSET I /\ \A j \in I : Before(exact, j) \in SUBSET I
  BY Zenon DEF Entries, Fractions, Before
<1>2. /\ IsFiniteSet(A) /\ Cardinality(A) \in Nat /\ Cardinality(I) \in Nat /\ Cardinality(A) <= Cardinality(I)
      /\ \A j \in I : IsFiniteSet(Before(exact, j)) /\ rank(j) \in Nat
  BY <1>1, FS_Subset, FS_CardinalityType, Zenon
<1>3. missing \in 0..Cardinality(I)
  BY <1>2
<1>4. \A j \in I : ShareOfRest(missing, exact, j) = IF rank(j) < missing THEN 1 ELSE 0
  BY <1>3, ShareByRank, Zenon
<1>5. ASSUME rank(i) < missing PROVE Remainder(exact[i]) > 0
  <2> SUFFICES ASSUME Remainder(exact[i]) = 0 PROVE FALSE
    OBVIOUS
  <2>1. A \subseteq Before(exact, i)
    BY Zenon DEF Fractions, Before
  <2>2. Cardinality(A) <= rank(i)
    BY <1>2, <2>1, FS_Subset, Zenon
  <2> QED BY <1>2, <1>5, <2>2
<1>6. ASSUME NEW j \in I, Remainder(exact[i]) > Remainder(exact[j]) PROVE rank(i) <= rank(j)
  <2>1. Before(exact, i) \subseteq Before(exact, j)
    BY <1>6 DEF Before
  <2> QED BY <1>2, <2>1, FS_Subset, Zenon
<1>7. ShareOfRest(missing, exact, i) \in {0, 1} /\ (ShareOfRest(missing, exact, i) = 1 => rank(i) < missing)
  BY <1>4
<1>8. ASSUME NEW j \in I, Remainder(exact[i]) > Remainder(exact[j])
      PROVE  ShareOfRest(missing, exact, i) >= ShareOfRest(missing, exact, j)
  <2>1. rank(i) <= rank(j) /\ rank(i) \in Nat /\ rank(j) \in Nat
    BY <1>2, <1>6, <1>8, Zenon
  <2>2. /\ ShareOfRest(missing, exact, i) = IF rank(i) < missing THEN 1 ELSE 0
        /\ ShareOfRest(missing, exact, j) = IF rank(j) < missing THEN 1 ELSE 0
    BY <1>4, Zenon
  <2> HIDE DEF rank
  <2> QED BY <2>1, <2>2
<1> QED BY <1>5, <1>7, <1>8, Zenon

\* The share of i, its floor and at most one of the missing units.
LEMMA ShareIs ==
  ASSUME NEW w, Weights(w), NEW total \in Nat, NEW k \in 0..Scale, total * Unit < Pow10[Precision + k],
         Cardinality(DOMAIN w) * Pow10[k] < 2 * Unit
  PROVE  \A i \in DOMAIN w :
           LET q(j) == Div(total * w[j], SumFunction(w))
               s(j) == largestRemainder(total, w)[j] - Floor(q(j))
           IN  /\ q(i) \in Nat /\ s(i) \in {0, 1} /\ (s(i) = 1 => Remainder(q(i)) > 0)
               /\ largestRemainder(total, w)[i] = Floor(q(i)) + s(i)
               /\ \A j \in DOMAIN w : Remainder(q(i)) > Remainder(q(j)) => s(i) >= s(j)
<1> DEFINE I == DOMAIN w
           exact == Quotients(total, w)
           F == [i \in I |-> Floor(exact[i])]
           missing == total - SumFunction(F)
           share(i) == ShareOfRest(missing, exact, i)
           r == largestRemainder(total, w)
           m == Cardinality(I)
<1>1. Precise(total, m) /\ m \in Nat /\ m <= m
  <2>1. m \in Nat
    BY FS_CardinalityType, Zenon DEF Weights
  <2> QED BY <2>1 DEF Precise
<1>2. Representable(total)
  BY <1>1, PreciseIsRepresentable, Zenon
<1>3. /\ Entries(exact) /\ DOMAIN exact = I
      /\ \A i \in I : exact[i] = Div(total * w[i], SumFunction(w)) /\ exact[i] \in Nat
  BY <1>2, QuotientsAreEntries, Zenon
<1>4. \A i \in I : Floor(exact[i]) \in Nat /\ Remainder(exact[i]) \in Nat
  <2>1. \A i \in I : Floor(exact[i]) \in Nat /\ Remainder(exact[i]) \in 0..(Unit - 1)
    BY <1>3, FloorIs, Zenon
  <2>2. Unit \in Nat
    BY PowPos, PrecisionAssumption DEF Unit
  <2> QED BY <2>1, <2>2
<1>5. missing \in Nat /\ missing <= Cardinality(Fractions(exact))
  <2>1. SumFunction(F) = SumFunctionOnSet(F, I)
    BY Zenon DEF SumFunction
  <2>2. SumFunctionOnSet(F, I) <= total /\ total - SumFunctionOnSet(F, I) <= Cardinality(Fractions(exact))
    BY <1>1, FloorsFit, MissingFew, Zenon
  <2>3. SumFunctionOnSet(F, I) \in Int
    <3>1. IsFiniteSet(I) /\ \A i \in I : F[i] \in Int
      BY <1>4 DEF Weights
    <3> HIDE DEF F, I
    <3> QED BY <3>1, SumInt, Zenon
  <2> HIDE DEF F, exact
  <2> QED BY <2>1, <2>2, <2>3
<1>6. \A i \in I : r[i] = Floor(exact[i]) + share(i)
  BY Zenon DEF largestRemainder
<1> HIDE DEF exact, missing, r, I
<1>7. \A i \in I : /\ share(i) \in {0, 1} /\ (share(i) = 1 => Remainder(exact[i]) > 0)
                   /\ \A j \in I : Remainder(exact[i]) > Remainder(exact[j]) => share(i) >= share(j)
  BY <1>3, <1>4, <1>5, ShareIsOne, Zenon
<1> HIDE DEF share
<1>8. \A i \in I : r[i] - Floor(exact[i]) = share(i)
  BY <1>4, <1>6, <1>7
<1> QED BY <1>3, <1>6, <1>7, <1>8, Zenon DEF r, I

\* Every share is the exact one rounded down or up.
LEMMA ShareWithinQuota ==
  ASSUME NEW w, Weights(w), NEW total \in Nat, NEW k \in 0..Scale, total * Unit < Pow10[Precision + k],
         Cardinality(DOMAIN w) * Pow10[k] < 2 * Unit, NEW i \in DOMAIN w
  PROVE  LET W == SumFunction(w)
             r == largestRemainder(total, w)[i]
         IN  r \in Nat /\ r * W > total * w[i] - W /\ r * W < total * w[i] + W
<1> DEFINE W == SumFunction(w)
           a == total * w[i]
           q == Div(a, W)
           F == Floor(q)
           r == largestRemainder(total, w)[i]
           s == r - F
           U == Unit
<1>1. W \in Nat \ {0} /\ a \in Nat /\ U \in Nat \ {0}
  <2>1. U \in Nat \ {0}
    BY PowPos, PrecisionAssumption DEF Unit
  <2> QED BY <2>1, WeightsSum, TimesNat, Zenon DEF Weights
<1>2. (a * U) \div W < Pow10[Precision + Scale]
  <2>1. Precise(total, Cardinality(DOMAIN w)) /\ Scale \in 0..Scale
    BY PrecisionAssumption DEF Precise
  <2>2. Representable(total)
    BY <2>1, PreciseIsRepresentable, Zenon
  <2> QED BY <2>1, <2>2, QuotientFits, Zenon DEF Representable
<1>3. q \in Nat /\ s \in {0, 1} /\ (s = 1 => Remainder(q) > 0) /\ r = F + s
  BY ShareIs, Zenon
<1> HIDE DEF W, a, q, r
<1>4. F \in Nat /\ F * U <= q /\ q < F * U + U /\ Remainder(q) \in 0..(U - 1) /\ q = F * U + Remainder(q)
  BY <1>3, FloorIs, Zenon
<1> HIDE DEF F, s, U
<1>5. r \in Nat /\ r * W \in Nat /\ F * U \in Nat
  BY <1>1, <1>3, <1>4
<1>6. \A m \in Nat : (a <= m * W => q <= m * U) /\ (m * W <= a => m * U <= q)
  BY <1>1, <1>2, RoundsToward, Zenon DEF q, U
<1>7. r * W > a - W
  <2> SUFFICES ASSUME r * W + W <= a PROVE FALSE
    BY <1>1, <1>5
  <2>1. (r + 1) * W = r * W + W /\ r + 1 \in Nat
    BY <1>1, <1>5
  <2>2. (r + 1) * U <= q
    BY <1>6, <2>1, Zenon
  <2>3. (F + 1) * U <= (r + 1) * U
    <3>1. F + 1 \in Int /\ r + 1 \in Int /\ F + 1 <= r + 1 /\ U \in Nat
      BY <1>1, <1>3, <1>4, <1>5
    <3> QED BY <3>1, TimesLeq, Zenon
  <2>4. (F + 1) * U = F * U + U /\ (r + 1) * U \in Nat
    BY <1>1, <1>4, <1>5
  <2> QED BY <1>1, <1>3, <1>4, <1>5, <2>2, <2>3, <2>4
<1>8. r * W < a + W
  <2> SUFFICES ASSUME r * W >= a + W PROVE FALSE
    BY <1>1, <1>5
  <2>1. r # 0
    <3> SUFFICES ASSUME r = 0 PROVE FALSE
      BY Zenon
    <3>1. r * W = 0
      BY <1>1
    <3> QED BY <1>1, <3>1
  <2>2. r - 1 \in Nat /\ (r - 1) * W = r * W - W
    BY <1>1, <1>5, <2>1
  <2>3. q <= (r - 1) * U
    <3>1. a <= (r - 1) * W
      BY <1>1, <1>5, <2>2
    <3> QED BY <1>6, <2>2, <3>1, Zenon
  <2>4. CASE s = 1
    <3>1. r - 1 = F
      BY <1>3, <1>4, <2>4
    <3>2. q <= F * U /\ Remainder(q) > 0
      BY <1>3, <2>3, <2>4, <3>1, Zenon
    <3> HIDE DEF U
    <3> QED BY <1>1, <1>4, <1>5, <3>2
  <2>5. CASE s = 0
    <3>1. (r - 1) * U = F * U - U
      BY <1>1, <1>3, <1>4, <2>5
    <3> QED BY <1>1, <1>3, <1>4, <1>5, <2>3, <3>1
  <2> QED BY <1>3, <2>4, <2>5, Zenon
<1> QED BY <1>5, <1>7, <1>8, Zenon DEF r, W, a

\* A larger weight gets no less, as long as the quotients of different weights
\* differ.
LEMMA ShareInOrder ==
  ASSUME NEW w, Weights(w), NEW total \in Nat, NEW k \in 0..Scale, total * Unit < Pow10[Precision + k],
         Cardinality(DOMAIN w) * Pow10[k] < 2 * Unit, SumFunction(w) * Pow10[k] <= total * Unit,
         NEW i \in DOMAIN w, NEW j \in DOMAIN w, w[i] > w[j]
  PROVE  largestRemainder(total, w)[i] >= largestRemainder(total, w)[j]
<1> DEFINE W == SumFunction(w)
           U == Unit
           p == Pow10[k]
           x == w[i]
           y == w[j]
           qi == Div(total * x, W)
           qj == Div(total * y, W)
           Fi == Floor(qi)
           Fj == Floor(qj)
           ri == largestRemainder(total, w)[i]
           rj == largestRemainder(total, w)[j]
           si == ri - Fi
           sj == rj - Fj
<1>1. W \in Nat \ {0} /\ U \in Nat \ {0} /\ p \in Nat /\ x \in Nat /\ y \in Nat
  <2>1. U \in Nat \ {0} /\ p \in Nat
    BY PowPos, PrecisionAssumption DEF Unit
  <2> QED BY <2>1, WeightsSum, Zenon DEF Weights
<1>2. /\ qi \in Nat /\ qj \in Nat /\ si \in {0, 1} /\ sj \in {0, 1}
      /\ ri = Fi + si /\ rj = Fj + sj
      /\ (Remainder(qi) > Remainder(qj) => si >= sj)
  BY ShareIs, Zenon
<1>3. /\ 2 * (qj * W) <= 2 * (total * y * U) + W * p
      /\ 2 * (qi * W) > 2 * (total * x * U) - W * p
  BY QuotientFacts, Zenon
<1> HIDE DEF W, U, p, x, y, qi, qj
<1>4. qi > qj
  <2>1. W * p <= total * U /\ x > y
    BY Zenon DEF W, p, U, x, y
  <2>2. total * U \in Nat /\ W * p \in Nat /\ qi * W \in Nat /\ qj * W \in Nat
    BY <1>1, <1>2, TimesNat, Zenon
  <2>3. (y + 1) * (total * U) <= x * (total * U)
    <3>1. y + 1 \in Int /\ x \in Int /\ y + 1 <= x
      BY <1>1, <2>1
    <3> QED BY <2>2, <3>1, TimesLeq, Zenon
  <2>4. /\ (y + 1) * (total * U) = total * y * U + total * U /\ x * (total * U) = total * x * U
        /\ total * y * U \in Nat /\ total * x * U \in Nat
    BY <1>1
  <2>5. qi * W > qj * W
    BY <1>3, <2>1, <2>2, <2>3, <2>4
  <2> SUFFICES ASSUME qi <= qj PROVE FALSE
    BY <1>2
  <2>6. qi * W <= qj * W
    BY <1>1, <1>2, TimesLeq
  <2> QED BY <2>2, <2>5, <2>6
<1>5. /\ Fi \in Nat /\ qi < Fi * U + U /\ Remainder(qi) \in 0..(U - 1) /\ qi = Fi * U + Remainder(qi)
      /\ Fj \in Nat /\ Fj * U <= qj /\ Remainder(qj) \in 0..(U - 1) /\ qj = Fj * U + Remainder(qj)
  BY <1>2, FloorIs, Zenon DEF U
<1> HIDE DEF Fi, Fj, si, sj, ri, rj
<1>6. Fj <= Fi
  <2> SUFFICES ASSUME Fi + 1 <= Fj PROVE FALSE
    BY <1>5
  <2>1. (Fi + 1) * U <= Fj * U
    BY <1>1, <1>5, TimesLeq
  <2>2. (Fi + 1) * U = Fi * U + U /\ Fi * U \in Nat /\ Fj * U \in Nat
    BY <1>1, <1>5
  <2> QED BY <1>1, <1>2, <1>4, <1>5, <2>1, <2>2
<1>7. CASE Fi = Fj
  <2>1. Fi * U \in Nat
    BY <1>1, <1>5
  <2>2. Remainder(qi) > Remainder(qj)
    BY <1>1, <1>2, <1>4, <1>5, <1>7, <2>1
  <2> QED BY <1>2, <1>5, <1>7, <2>2 DEF ri, rj
<1>8. CASE Fj + 1 <= Fi
  BY <1>2, <1>5, <1>8 DEF ri, rj
<1> QED BY <1>5, <1>6, <1>7, <1>8

-----------------------------------------------------------------------------
(* The items of an allocation. *)

BasisPoints == {p \in Nat : p <= 10000}

WorkGroups(gs) ==
  /\ IsFiniteSet(DOMAIN gs) /\ DOMAIN gs \subseteq Int /\ DOMAIN gs # {}
  /\ \A i \in DOMAIN gs : gs[i].work \in Nat \ {0} /\ gs[i].bps \in BasisPoints

LEMMA GroupsWeigh ==
  ASSUME NEW gs, WorkGroups(gs)
  PROVE  Weights([i \in DOMAIN gs |-> gs[i].work])
<1> DEFINE I == DOMAIN gs
           w == [i \in I |-> gs[i].work]
<1>1. PICK z \in I : TRUE
  BY Zenon DEF WorkGroups
<1>2. IsFiniteSet(I) /\ I \subseteq Int /\ (\A i \in I : w[i] \in Nat \ {0}) /\ DOMAIN w = I
  BY Zenon DEF WorkGroups
<1> HIDE DEF w, I
<1>3. w[z] <= SumFunctionOnSet(w, I) /\ SumFunctionOnSet(w, I) \in Nat
  BY <1>2, SumCovers, SumNat, Zenon
<1>4. SumFunction(w) > 0
  BY <1>1, <1>2, <1>3 DEF SumFunction
<1>5. Weights(w)
  BY <1>2, <1>4, Zenon DEF Weights
<1> QED BY <1>5, Zenon DEF w, I

\* splitBasisPoints gives all of the deposit away and rounds for the operator.
LEMMA SplitIs ==
  ASSUME NEW g \in Nat, NEW bps \in BasisPoints
  PROVE  LET s == splitBasisPoints(g, bps) IN
         /\ s.customer \in Nat /\ s.operator \in Nat /\ s.customer + s.operator = g
         /\ s.customer * 10000 <= g * bps /\ g * bps < s.customer * 10000 + 10000
<1> DEFINE c == (g * bps) \div 10000
<1>1. g * bps \in Nat /\ bps * g <= 10000 * g /\ bps * g = g * bps
  BY TimesNat, TimesLeq DEF BasisPoints
<1>2. c \in Nat /\ c * 10000 <= g * bps /\ g * bps < c * 10000 + 10000
  <2> DEFINE x == g * bps
  <2>1. x \in Nat /\ 10000 \in Nat \ {0}
    BY <1>1
  <2> HIDE DEF x
  <2>2. x \div 10000 \in Nat /\ (x \div 10000) * 10000 <= x /\ x < (x \div 10000) * 10000 + 10000
    BY <2>1, DivIs
  <2> QED BY <2>2 DEF x
<1>3. splitBasisPoints(g, bps) = [customer |-> c, operator |-> g - c]
  BY DEF splitBasisPoints
<1> HIDE DEF c
<1>4. c <= g
  BY <1>1, <1>2
<1>6. splitBasisPoints(g, bps).customer = c /\ splitBasisPoints(g, bps).operator = g - c
  BY <1>3
<1>7. g - c \in Nat /\ c + (g - c) = g
  BY <1>2, <1>4
<1> QED BY <1>2, <1>6, <1>7

\* The its of allocateDeposit.
LEMMA ItemsAre ==
  ASSUME NEW gs, WorkGroups(gs), NEW deposit \in Nat, Representable(deposit)
  PROVE  LET its == Items(deposit, gs)
             parts == largestRemainder(deposit, [i \in DOMAIN gs |-> gs[i].work])
         IN  /\ DOMAIN its = DOMAIN gs
             /\ \A i \in DOMAIN gs :
                  /\ its[i].customer = gs[i].customer
                  /\ its[i].gross = parts[i] /\ its[i].gross \in Nat
                  /\ its[i].split = splitBasisPoints(its[i].gross, gs[i].bps)
                  /\ its[i].split.customer \in Nat /\ its[i].split.operator \in Nat
                  /\ its[i].split.customer + its[i].split.operator = its[i].gross
<1> DEFINE w == [i \in DOMAIN gs |-> gs[i].work]
           parts == largestRemainder(deposit, w)
<1>1. Weights(w) /\ DOMAIN w = DOMAIN gs
  BY GroupsWeigh, Zenon
<1>2. Items(deposit, gs) = [i \in DOMAIN gs |->
         [customer |-> gs[i].customer, gross |-> parts[i], split |-> splitBasisPoints(parts[i], gs[i].bps)]]
  BY Zenon DEF Items
<1> HIDE DEF w
<1>3. \A i \in DOMAIN gs : parts[i] \in Nat
  BY <1>1, RemainderNat, Zenon
<1> HIDE DEF parts
<1>4. \A i \in DOMAIN gs : gs[i].bps \in BasisPoints
  BY Zenon DEF WorkGroups
<1>5. ASSUME NEW i \in DOMAIN gs
      PROVE  /\ splitBasisPoints(parts[i], gs[i].bps).customer \in Nat
             /\ splitBasisPoints(parts[i], gs[i].bps).operator \in Nat
             /\ splitBasisPoints(parts[i], gs[i].bps).customer + splitBasisPoints(parts[i], gs[i].bps).operator = parts[i]
  <2> DEFINE g == parts[i]
             p == gs[i].bps
  <2>1. g \in Nat /\ p \in BasisPoints
    BY <1>3, <1>4, Zenon
  <2> HIDE DEF g, p
  <2>2. /\ splitBasisPoints(g, p).customer \in Nat /\ splitBasisPoints(g, p).operator \in Nat
        /\ splitBasisPoints(g, p).customer + splitBasisPoints(g, p).operator = g
    BY <2>1, SplitIs
  <2> QED BY <2>2, Zenon DEF g, p
<1> QED BY <1>2, <1>3, <1>5 DEF parts, w

\* The credits of the customers are all that the its give to customers.
LEMMA CreditsAre ==
  ASSUME NEW gs, WorkGroups(gs), NEW deposit \in Nat, Representable(deposit),
         NEW C, IsFiniteSet(C), \A i \in DOMAIN gs : gs[i].customer \in C
  PROVE  LET its == Items(deposit, gs) IN
         /\ \A c : Credit(its, c) \in Nat
         /\ OperatorTotal(its) \in Nat
         /\ CustomerTotal(its) = SumFunctionOnSet([c \in C |-> Credit(its, c)], C)
<1> DEFINE its == Items(deposit, gs)
           I == DOMAIN gs
           f == [i \in DOMAIN its |-> its[i].split.customer]
           o == [i \in DOMAIN its |-> its[i].split.operator]
           key == [i \in I |-> its[i].customer]
<1>1. /\ DOMAIN its = I /\ IsFiniteSet(I) /\ DOMAIN f = I /\ DOMAIN o = I
      /\ \A i \in I : f[i] \in Nat /\ o[i] \in Nat /\ key[i] \in C /\ its[i].customer = key[i]
  BY ItemsAre, Zenon DEF WorkGroups
<1>2. CustomerTotal(its) = SumFunctionOnSet(f, I) /\ OperatorTotal(its) = SumFunctionOnSet(o, I)
  BY <1>1, Zenon DEF CustomerTotal, OperatorTotal, SumFunction
<1>3. \A c : Credit(its, c) = SumFunctionOnSet(f, {i \in DOMAIN its : its[i].customer = c})
  BY Zenon DEF Credit
<1> HIDE DEF its, f, o, key, I
<1>4. \A c : {i \in DOMAIN its : its[i].customer = c} = {i \in I : key[i] = c}
  BY <1>1, Zenon
<1>5. \A c : Credit(its, c) = SumFunctionOnSet(f, {i \in I : key[i] = c})
  BY <1>3, <1>4, Zenon
<1>6. ASSUME NEW c PROVE Credit(its, c) \in Nat
  <2> DEFINE A == {i \in I : key[i] = c}
  <2>1. IsFiniteSet(A) /\ \A i \in A : f[i] \in Nat
    BY <1>1, FS_Subset, Zenon
  <2>2. Credit(its, c) = SumFunctionOnSet(f, A)
    BY <1>5, Zenon
  <2> HIDE DEF A
  <2> QED BY <2>1, <2>2, SumNat, Zenon
<1>7. OperatorTotal(its) \in Nat
  BY <1>1, <1>2, SumNat, Zenon
<1>8. SumFunctionOnSet([c \in C |-> SumFunctionOnSet(f, {i \in I : key[i] = c})], C) = SumFunctionOnSet(f, I)
  BY <1>1, SumGroups
<1>9. [c \in C |-> Credit(its, c)] = [c \in C |-> SumFunctionOnSet(f, {i \in I : key[i] = c})]
  BY <1>5, Zenon
<1> QED BY <1>2, <1>6, <1>7, <1>8, <1>9, Zenon DEF its

\* The parts of customers and operator are all of the deposit.
LEMMA ItemsAddUp ==
  ASSUME NEW gs, WorkGroups(gs), NEW deposit \in Nat, NEW n \in Nat, Precise(deposit, n), Cardinality(DOMAIN gs) <= n
  PROVE  LET its == Items(deposit, gs) IN
         /\ CustomerTotal(its) \in Nat /\ OperatorTotal(its) \in Nat
         /\ CustomerTotal(its) + OperatorTotal(its) = deposit
<1> DEFINE its == Items(deposit, gs)
           I == DOMAIN gs
           w == [i \in I |-> gs[i].work]
           parts == largestRemainder(deposit, w)
           f == [i \in DOMAIN its |-> its[i].split.customer]
           o == [i \in DOMAIN its |-> its[i].split.operator]
<1>1. Representable(deposit) /\ Weights(w) /\ DOMAIN w = I
  BY PreciseIsRepresentable, GroupsWeigh, Zenon
<1>2. /\ DOMAIN its = I /\ IsFiniteSet(I) /\ DOMAIN f = I /\ DOMAIN o = I
      /\ \A i \in I : f[i] \in Nat /\ o[i] \in Nat /\ parts[i] = f[i] + o[i]
  <2>1. IsFiniteSet(I)
    BY Zenon DEF WorkGroups
  <2>2. /\ DOMAIN its = I
        /\ \A i \in I : /\ its[i].split.customer \in Nat /\ its[i].split.operator \in Nat
                        /\ its[i].split.customer + its[i].split.operator = its[i].gross /\ its[i].gross = parts[i]
    BY <1>1, ItemsAre, Zenon
  <2> HIDE DEF its, parts
  <2> QED BY <2>1, <2>2, Zenon
<1>3. SumFunctionOnSet(parts, I) = deposit
  <2> HIDE DEF w
  <2> QED BY <1>1, RemainderExact, Zenon
<1>4. CustomerTotal(its) = SumFunctionOnSet(f, I) /\ OperatorTotal(its) = SumFunctionOnSet(o, I)
  BY <1>2, Zenon DEF CustomerTotal, OperatorTotal, SumFunction
<1> HIDE DEF its, f, o, I, parts
<1>5. SumFunctionOnSet(f, I) \in Nat /\ SumFunctionOnSet(o, I) \in Nat
  BY <1>2, SumNat, Zenon
<1>6. SumFunctionOnSet(parts, I) = SumFunctionOnSet(f, I) + SumFunctionOnSet(o, I)
  <2>1. \A i \in I : f[i] \in Int /\ o[i] \in Int /\ parts[i] = f[i] + o[i]
    BY <1>2
  <2>2. IsFiniteSet(I)
    BY <1>2, Zenon
  <2> QED BY <2>1, <2>2, SumPlus, Zenon
<1> QED BY <1>3, <1>4, <1>5, <1>6, Zenon DEF its

\* When a unit of the largest work is worth the last digit that is kept, so is
\* a unit of any.
LEMMA WorkDiscernible ==
  ASSUME NEW w, Weights(w), NEW t \in Nat, NEW p \in Nat, NEW n \in Nat \ {0}, Cardinality(DOMAIN w) <= n,
         \A i \in DOMAIN w : (n * w[i]) * p <= t
  PROVE  SumFunction(w) * p <= t
<1> DEFINE I == DOMAIN w
           W == SumFunction(w)
           m == Cardinality(I)
           np == n * p
<1>1. IsFiniteSet(I) /\ W = SumFunctionOnSet(w, I) /\ W \in Nat /\ m \in Nat /\ m <= n /\ \A i \in I : w[i] \in Nat
  <2>1. W \in Nat
    BY WeightsSum, Zenon
  <2> QED BY <2>1, FS_CardinalityType, Zenon DEF Weights, SumFunction
<1>2. np \in Int /\ t \in Int /\ 0 \in Int
  BY TimesNat
<1>3. \A i \in I : w[i] \in Int /\ np * w[i] <= 0 * w[i] + t
  <2> SUFFICES ASSUME NEW i \in I PROVE w[i] \in Int /\ np * w[i] <= 0 * w[i] + t
    BY Zenon
  <2> DEFINE v == w[i]
  <2>1. v \in Nat /\ (n * v) * p <= t
    BY <1>1, Zenon
  <2> HIDE DEF v
  <2>2. (n * p) * v = (n * v) * p /\ 0 * v = 0
    BY <2>1
  <2> QED BY <2>1, <2>2 DEF v
<1> HIDE DEF I, W, m
<1>4. np * W <= 0 * W + t * m
  <2> HIDE DEF np
  <2> QED BY <1>1, <1>2, <1>3, SumAffine, Zenon DEF m
<1>5. m * t <= n * t
  BY <1>1, TimesLeq
<1>6. /\ np * W = (W * p) * n /\ 0 * W = 0 /\ t * m = m * t /\ n * t = t * n
      /\ W * p \in Nat /\ (W * p) * n \in Nat /\ m * t \in Nat /\ t * n \in Nat
  BY <1>1
<1>7. (W * p) * n <= t * n
  BY <1>4, <1>5, <1>6
<1> SUFFICES ASSUME t + 1 <= W * p PROVE FALSE
  BY <1>6 DEF W
<1>8. (t + 1) * n <= (W * p) * n
  BY <1>6, TimesLeq
<1>9. (t + 1) * n = t * n + n
  OBVIOUS
<1> QED BY <1>6, <1>7, <1>8, <1>9

-----------------------------------------------------------------------------
(* The allocation of a deposit (DepositSplit). *)

\* The work does not change, and an allocation is the one computed from it.
SplitInv ==
  /\ amount \in Amounts
  /\ \E n \in 0..MaxGroups : groups \in [1..n -> Group]
  /\ result \in {"none", "allocated", "error"}
  /\ result = "allocated" => groups # <<>> /\ items = Items(amount, groups)
  /\ result # "allocated" => items = <<>>
  /\ WorkIsAllocated

\* The deposit and its work are inputs the lemmas above are about.
LEMMA DepositIs ==
  ASSUME SplitInv, groups # <<>>
  PROVE  /\ amount \in Nat \ {0} /\ MaxGroups \in Nat \ {0} /\ Precise(amount, MaxGroups) /\ Representable(amount)
         /\ WorkGroups(groups) /\ Cardinality(DOMAIN groups) <= MaxGroups /\ Cardinality(DOMAIN groups) \in Nat
         /\ \A i \in DOMAIN groups : groups[i].customer \in CustomerIds /\ groups[i].work \in GroupWorks
         /\ \E n \in Nat : DOMAIN groups = 1..n
<1>1. PICK n \in 0..MaxGroups : groups \in [1..n -> Group]
  BY Zenon DEF SplitInv
<1>2. MaxGroups \in Nat /\ n \in Nat /\ n <= MaxGroups
  BY SplitAssumption
<1>3. n # 0
  <2> SUFFICES ASSUME n = 0 PROVE FALSE
    BY Zenon
  <2>1. groups = <<>>
    BY <1>1
  <2> QED BY <2>1, Zenon
<1>4. DOMAIN groups = 1..n
  BY <1>1, Zenon
<1>5. IsFiniteSet(1..n) /\ Cardinality(1..n) = n
  <2>1. 1 \in Int /\ n \in Int /\ ~(1 > n) /\ n - 1 + 1 = n
    BY <1>2, <1>3
  <2> QED BY <2>1, FS_Interval, Zenon
<1>6. amount \in Nat \ {0} /\ Discernible(amount)
  BY SplitAssumption, Zenon DEF SplitInv
<1>7. Precise(amount, MaxGroups)
  BY <1>6, Zenon DEF Discernible, Precise
<1>8. Representable(amount)
  <2>1. amount \in Nat
    BY <1>6, Zenon
  <2> QED BY <1>7, <2>1, PreciseIsRepresentable, Zenon
<1>9. \A i \in 1..n : /\ groups[i].customer \in CustomerIds /\ groups[i].work \in GroupWorks
                      /\ groups[i].bps \in Bps
  BY <1>1, Zenon DEF Group
<1>10. WorkGroups(groups)
  <2>1. 1..n \subseteq Int /\ 1 \in 1..n
    BY <1>2, <1>3
  <2>2. \A i \in 1..n : groups[i].work \in Nat \ {0} /\ groups[i].bps \in BasisPoints
    <3>1. Bps \subseteq BasisPoints
      BY BpsAssumption DEF BasisPoints
    <3> QED BY <1>9, <3>1, SplitAssumption, Zenon
  <2> QED BY <1>4, <1>5, <2>1, <2>2, Zenon DEF WorkGroups
<1> QED BY <1>2, <1>3, <1>4, <1>5, <1>6, <1>7, <1>8, <1>9, <1>10

\* The totals of the items, and of the journal, are the deposit.
LEMMA DepositAddsUp ==
  ASSUME SplitInv, groups # <<>>
  PROVE  LET new == Items(amount, groups) IN
         /\ CustomerTotal(new) + OperatorTotal(new) = amount
         /\ Balanced(amount, SumFunction([c \in CustomerIds |-> Credit(new, c)]) + OperatorTotal(new))
         /\ CustomerTotal(new) \in Nat /\ OperatorTotal(new) \in Nat
         /\ CustomerTotal(new) = SumFunctionOnSet([c \in CustomerIds |-> Credit(new, c)], CustomerIds)
<1> DEFINE new == Items(amount, groups)
           cr == [c \in CustomerIds |-> Credit(new, c)]
<1>1. /\ amount \in Nat /\ amount > 0 /\ MaxGroups \in Nat /\ WorkGroups(groups) /\ Precise(amount, MaxGroups)
      /\ Cardinality(DOMAIN groups) <= MaxGroups /\ Representable(amount)
      /\ \A i \in DOMAIN groups : groups[i].customer \in CustomerIds
  BY DepositIs
<1>2. CustomerTotal(new) + OperatorTotal(new) = amount /\ CustomerTotal(new) \in Nat /\ OperatorTotal(new) \in Nat
  BY <1>1, ItemsAddUp, Zenon
<1>3. CustomerTotal(new) = SumFunctionOnSet(cr, CustomerIds)
  <2>1. IsFiniteSet(CustomerIds)
    BY SplitAssumption, Zenon
  <2> QED BY <1>1, <2>1, CreditsAre, Zenon
<1>4. SumFunction(cr) = SumFunctionOnSet(cr, CustomerIds)
  BY Zenon DEF SumFunction
<1>5. Balanced(amount, SumFunction(cr) + OperatorTotal(new))
  BY <1>1, <1>2, <1>3, <1>4, Zenon DEF Balanced
<1> QED BY <1>2, <1>3, <1>5, Zenon

\* The shares of an allocation.
LEMMA AllocationIsFair ==
  ASSUME SplitInv, result = "allocated"
  PROVE  WithinQuota /\ MoreWorkNotLess /\ SplitIsFair
<1> DEFINE I == DOMAIN groups
           w == [i \in I |-> groups[i].work]
           parts == largestRemainder(amount, w)
<1>1. groups # <<>> /\ items = Items(amount, groups)
  BY Zenon DEF SplitInv
<1>2. /\ amount \in Nat /\ MaxGroups \in Nat \ {0} /\ Representable(amount) /\ Discernible(amount)
      /\ WorkGroups(groups) /\ Cardinality(I) <= MaxGroups /\ Cardinality(I) \in Nat
      /\ \A i \in I : w[i] \in GroupWorks
  <2>1. Discernible(amount)
    BY SplitAssumption, Zenon DEF SplitInv
  <2>2. amount \in Nat
    BY <1>1, DepositIs, Zenon
  <2> QED BY <1>1, <2>1, <2>2, DepositIs, Zenon
<1>3. Weights(w) /\ DOMAIN w = I
  BY <1>2, GroupsWeigh, Zenon
<1>4. /\ DOMAIN items = I
      /\ \A i \in I : /\ items[i].gross = parts[i] /\ items[i].gross \in Nat
                      /\ items[i].split = splitBasisPoints(items[i].gross, groups[i].bps)
  BY <1>1, <1>2, ItemsAre, Zenon
<1>5. TotalWork = SumFunction(w)
  BY Zenon DEF TotalWork
<1>6. PICK k \in 0..Scale :
        /\ amount * Unit < Pow10[Precision + k] /\ MaxGroups * Pow10[k] < 2 * Unit
        /\ \A v \in GroupWorks : (MaxGroups * v) * Pow10[k] <= amount * Unit
  BY <1>2, Zenon DEF Discernible
<1>7. Unit \in Nat \ {0} /\ Pow10[k] \in Nat
  BY PowPos, PrecisionAssumption DEF Unit
<1>8. Cardinality(I) * Pow10[k] < 2 * Unit
  <2> DEFINE p == Pow10[k]
             m == Cardinality(I)
  <2>1. p \in Nat /\ m \in Int /\ MaxGroups \in Int /\ m <= MaxGroups
    BY <1>2, <1>7
  <2> HIDE DEF p, m
  <2>2. m * p <= MaxGroups * p /\ m * p \in Int /\ MaxGroups * p \in Int
    BY <2>1, TimesLeq
  <2>3. MaxGroups * p < 2 * Unit
    BY <1>6, Zenon DEF p
  <2> QED BY <1>7, <2>2, <2>3 DEF p, m
<1>9. SumFunction(w) * Pow10[k] <= amount * Unit
  <2>1. amount * Unit \in Nat
    BY <1>2, <1>7
  <2>2. \A i \in DOMAIN w : (MaxGroups * w[i]) * Pow10[k] <= amount * Unit
    BY <1>2, <1>3, <1>6, Zenon
  <2> HIDE DEF w
  <2> QED BY <1>2, <1>3, <1>7, <2>1, <2>2, WorkDiscernible, Zenon
<1>10. \A i \in I : w[i] = groups[i].work
  BY Zenon
<1> HIDE DEF w, I
<1>11. WithinQuota
  <2>1. \A i \in I : parts[i] * SumFunction(w) > amount * w[i] - SumFunction(w)
                   /\ parts[i] * SumFunction(w) < amount * w[i] + SumFunction(w)
    BY <1>2, <1>3, <1>6, <1>8, ShareWithinQuota, Zenon
  <2> HIDE DEF parts
  <2> QED BY <1>4, <1>5, <1>10, <2>1, Zenon DEF WithinQuota
<1>12. MoreWorkNotLess
  <2>1. \A i, j \in I : w[i] > w[j] => parts[i] >= parts[j]
    BY <1>2, <1>3, <1>6, <1>8, <1>9, ShareInOrder, Zenon
  <2> HIDE DEF parts
  <2> QED BY <1>4, <1>10, <2>1, Zenon DEF MoreWorkNotLess
<1>13. SplitIsFair
  <2> HIDE DEF parts
  <2> SUFFICES ASSUME NEW i \in I
               PROVE  LET s == items[i].split IN
                      /\ s.customer >= 0 /\ s.operator >= 0 /\ s.customer + s.operator = items[i].gross
                      /\ s.customer * 10000 <= items[i].gross * groups[i].bps
                      /\ items[i].gross * groups[i].bps < (s.customer + 1) * 10000
    BY <1>4 DEF SplitIsFair
  <2> DEFINE s == items[i].split
             g == items[i].gross
             b == groups[i].bps
  <2>1. g \in Nat /\ b \in BasisPoints /\ s = splitBasisPoints(g, b)
    BY <1>2, <1>4, Zenon DEF WorkGroups, I
  <2> HIDE DEF s, g, b
  <2>2. /\ s.customer \in Nat /\ s.operator \in Nat /\ s.customer + s.operator = g
        /\ s.customer * 10000 <= g * b /\ g * b < s.customer * 10000 + 10000
    BY <2>1, SplitIs
  <2>3. (s.customer + 1) * 10000 = s.customer * 10000 + 10000 /\ s.customer >= 0 /\ s.operator >= 0
    BY <2>2
  <2> QED BY <2>2, <2>3 DEF s, g, b
<1> QED BY <1>11, <1>12, <1>13, Zenon

LEMMA SplitInvFair == ASSUME SplitInv PROVE FairShares
<1>1. WorkIsAllocated
  BY Zenon DEF SplitInv
<1>2. CASE result = "allocated"
  BY <1>1, <1>2, AllocationIsFair, Zenon DEF FairShares
<1>3. CASE result # "allocated"
  <2>1. items = <<>> /\ DOMAIN items = {}
    <3>1. items = <<>>
      BY <1>3, Zenon DEF SplitInv
    <3> QED BY <3>1
  <2>2. WithinQuota /\ MoreWorkNotLess
    BY <2>1, Zenon DEF WithinQuota, MoreWorkNotLess
  <2>3. SplitIsFair
    BY <2>1 DEF SplitIsFair
  <2> QED BY <1>1, <2>2, <2>3, Zenon DEF FairShares
<1> QED BY <1>2, <1>3, Zenon

LEMMA SplitInvInit == ASSUME SplitInit PROVE SplitInv
  BY Zenon DEF SplitInit, SplitInv, WorkIsAllocated

\* Allocate has no reason to fail when there is work.
LEMMA AllocateInv == ASSUME SplitInv, Allocate PROVE SplitInv'
<1> DEFINE new == Items(amount, groups)
<1>1. /\ amount' = amount /\ groups' = groups /\ result = "none" /\ items = <<>>
      /\ amount \in Amounts /\ \E n \in 0..MaxGroups : groups \in [1..n -> Group]
  BY Zenon DEF SplitInv, Allocate
<1>2. CASE groups # <<>> /\ items' = new /\ result' = "allocated"
  BY <1>1, <1>2, Zenon DEF SplitInv, WorkIsAllocated
<1>3. CASE /\ result' = "error" /\ items' = items
           /\ \/ groups = <<>>
              \/ CustomerTotal(new) + OperatorTotal(new) # amount
              \/ ~Balanced(amount, SumFunction([c \in CustomerIds |-> Credit(new, c)]) + OperatorTotal(new))
  <2>1. groups = <<>>
    BY <1>3, DepositAddsUp, Zenon
  <2> QED BY <1>1, <1>3, <2>1, Zenon DEF SplitInv, WorkIsAllocated
<1> QED BY <1>2, <1>3, Zenon DEF Allocate

LEMMA SplitStutters == ASSUME SplitInv, UNCHANGED splitVars PROVE SplitInv'
<1>1. amount' = amount /\ groups' = groups /\ items' = items /\ result' = result
  BY Zenon DEF splitVars
<1> QED BY <1>1, Zenon DEF SplitInv, WorkIsAllocated

-----------------------------------------------------------------------------
(* The payout of the deposit (Settlement). *)

\* The batch is one that PayCustomers or PayOperator makes.
PlannedBatch ==
  \/ operator /\ deduct /\ OperatorTotal(items) >= MinPayout /\ gross = <<OperatorTotal(items)>>
  \/ ~operator /\ DOMAIN CustomerGross # {} /\ gross = CustomerGross

\* From "sign" on the transaction is the one of the last fee.
PayoutInv ==
  /\ deduct \in BOOLEAN /\ operator \in BOOLEAN
  /\ pc \in {"idle", "start", "loop", "sign", "signed", "error"}
  /\ pc # "idle" => result = "allocated" /\ PlannedBatch
  /\ pc \in {"loop", "sign", "signed"} => feeAtomic \in WalletFees
  /\ pc \in {"sign", "signed"} =>
       transaction = [outputs |-> Net, fee |-> feeAtomic] /\ netItems = Net /\ ~TooSmall
  /\ pc = "signed" => WithinLimit

\* The batch of the customers takes no more than they are credited.
LEMMA CustomerGrossIs ==
  ASSUME SplitInv, result = "allocated"
  PROVE  /\ IsFiniteSet(DOMAIN CustomerGross) /\ DOMAIN CustomerGross \subseteq Int
         /\ Cardinality(DOMAIN CustomerGross) <= MaxGroups
         /\ \A i \in DOMAIN CustomerGross : CustomerGross[i] \in Nat \ {0}
         /\ SumFunction(CustomerGross) <= CustomerTotal(items)
<1> DEFINE cg == CustomerGross
           D == DOMAIN cg
           I == DOMAIN groups
           key == [i \in I |-> groups[i].customer]
           cr == [c \in CustomerIds |-> Credit(items, c)]
           sums == [c \in CustomerIds |-> SumFunctionOnSet(cg, {i \in D : key[i] = c})]
<1>1. groups # <<>> /\ items = Items(amount, groups)
  BY Zenon DEF SplitInv
<1>2. /\ WorkGroups(groups) /\ Cardinality(I) <= MaxGroups /\ Cardinality(I) \in Nat /\ MaxGroups \in Nat
      /\ Representable(amount) /\ amount \in Nat
      /\ \A i \in I : groups[i].customer \in CustomerIds
  <2>1. MaxGroups \in Nat /\ amount \in Nat
    BY <1>1, DepositIs, Zenon
  <2> QED BY <1>1, <2>1, DepositIs, Zenon
<1>3. PICK n \in Nat : I = 1..n
  BY <1>1, DepositIs, Zenon
<1>4. IsFiniteSet(CustomerIds)
  BY SplitAssumption, Zenon
<1>5. (\A c : Credit(items, c) \in Nat) /\ CustomerTotal(items) = SumFunctionOnSet(cr, CustomerIds)
  <2> DEFINE new == Items(amount, groups)
  <2>1. /\ \A c : Credit(new, c) \in Nat
        /\ CustomerTotal(new) = SumFunctionOnSet([c \in CustomerIds |-> Credit(new, c)], CustomerIds)
    BY <1>2, <1>4, CreditsAre, Zenon
  <2> HIDE DEF new
  <2>2. items = new
    BY <1>1, Zenon DEF new
  <2> QED BY <2>1, <2>2, Zenon
<1>6. /\ D \in SUBSET I
      /\ \A i \in D : /\ cg[i] = Credit(items, key[i]) /\ Credit(items, key[i]) >= MinPayout
                      /\ \A j \in 1..(i - 1) : groups[j].customer # groups[i].customer
  <2>1. D = {i \in I : /\ \A j \in 1..(i - 1) : groups[j].customer # groups[i].customer
                       /\ Credit(items, groups[i].customer) >= MinPayout}
    BY Zenon DEF CustomerGross
  <2>2. \A i \in D : cg[i] = Credit(items, groups[i].customer)
    BY Zenon DEF CustomerGross
  <2>3. \A i \in I : key[i] = groups[i].customer
    BY Zenon
  <2> HIDE DEF cg, D, key, I
  <2> QED BY <2>1, <2>2, <2>3, Zenon
<1>7. IsFiniteSet(I) /\ I \subseteq Int
  BY <1>2, Zenon DEF WorkGroups
<1>8. IsFiniteSet(D) /\ D \subseteq Int /\ Cardinality(D) <= MaxGroups
  <2>1. IsFiniteSet(D) /\ Cardinality(D) <= Cardinality(I) /\ D \subseteq Int
    BY <1>6, <1>7, FS_Subset, Zenon
  <2>2. Cardinality(D) \in Nat
    BY <2>1, FS_CardinalityType, Zenon
  <2> QED BY <1>2, <2>1, <2>2
<1>9. \A i \in D : key[i] \in CustomerIds /\ key[i] = groups[i].customer
  BY <1>2, <1>6, Zenon
<1> HIDE DEF cg, D, I, key
<1>10. \A i \in D : cg[i] \in Nat \ {0}
  <2> SUFFICES ASSUME NEW i \in D PROVE cg[i] \in Nat \ {0}
    BY Zenon
  <2> DEFINE g == cg[i]
  <2>1. g \in Nat /\ g >= MinPayout
    BY <1>5, <1>6, Zenon
  <2> HIDE DEF g
  <2> QED BY <2>1, PayoutAssumption DEF g
<1>11. \A i, j \in D : key[i] = key[j] => i = j
  <2> SUFFICES ASSUME NEW i \in D, NEW j \in D, key[i] = key[j], i < j PROVE FALSE
    BY <1>8
  <2>1. i \in 1..(j - 1)
    BY <1>3, <1>6
  <2> QED BY <1>6, <1>9, <2>1, Zenon
<1>12. ASSUME NEW c \in CustomerIds
       PROVE  sums[c] \in Int /\ cr[c] \in Int /\ sums[c] <= cr[c]
  <2> DEFINE A == {i \in D : key[i] = c}
  <2>1. sums[c] = SumFunctionOnSet(cg, A) /\ cr[c] = Credit(items, c) /\ cr[c] \in Nat
    BY <1>5, Zenon
  <2>2. CASE A = {}
    <3>1. SumFunctionOnSet(cg, A) = 0
      BY <2>2, SumEmpty, Zenon
    <3> HIDE DEF sums, cr, A
    <3> QED BY <2>1, <3>1
  <2>3. CASE A # {}
    <3>1. PICK z \in A : TRUE
      BY <2>3, Zenon
    <3>2. A = {z} /\ cg[z] = cr[c] /\ cg[z] \in Nat
      BY <1>6, <1>10, <1>11, <2>1, <3>1
    <3>3. cg[z] \in Int
      BY <3>2
    <3> HIDE DEF sums, cr, A
    <3>4. SumFunctionOnSet(cg, A) = cg[z]
      BY <3>2, <3>3, SumSingle, Zenon
    <3> QED BY <2>1, <3>2, <3>3, <3>4
  <2> QED BY <2>2, <2>3, Zenon
<1>13. SumFunctionOnSet(sums, CustomerIds) = SumFunctionOnSet(cg, D)
  <2>1. IsFiniteSet(D) /\ (\A i \in D : cg[i] \in Int) /\ \A i \in D : key[i] \in CustomerIds
    BY <1>8, <1>9, <1>10
  <2> QED BY <1>4, <2>1, SumGroups
<1>14. SumFunctionOnSet(sums, CustomerIds) <= SumFunctionOnSet(cr, CustomerIds)
  <2> HIDE DEF sums, cr
  <2> QED BY <1>4, <1>12, SumLeq, Zenon
<1>15. SumFunction(cg) <= CustomerTotal(items)
  <2>1. SumFunction(cg) = SumFunctionOnSet(cg, D)
    BY Zenon DEF SumFunction, D
  <2> HIDE DEF sums, cr
  <2> QED BY <1>5, <1>13, <1>14, <2>1, Zenon
<1> QED BY <1>8, <1>10, <1>15, Zenon DEF cg, D

\* A batch is something largestRemainder divides a fee by, and no more than the
\* deposit leaves for it.
LEMMA BatchIs ==
  ASSUME SplitInv, result = "allocated", PlannedBatch
  PROVE  /\ Weights(gross) /\ Cardinality(DOMAIN gross) <= MaxGroups /\ MaxGroups \in Nat
         /\ \A i \in DOMAIN gross : gross[i] \in Nat \ {0}
         /\ SumFunction(gross) \in Nat
         /\ SumFunction(gross) <= amount - (IF operator THEN CustomerTotal(items) ELSE OperatorTotal(items))
<1> DEFINE D == DOMAIN gross
<1>1. groups # <<>> /\ items = Items(amount, groups)
  BY Zenon DEF SplitInv
<1>2. MaxGroups \in Nat /\ 1 <= MaxGroups /\ amount \in Nat
  BY <1>1, DepositIs
<1>3. CustomerTotal(items) + OperatorTotal(items) = amount /\ CustomerTotal(items) \in Nat /\ OperatorTotal(items) \in Nat
  BY <1>1, DepositAddsUp, Zenon
<1>4. /\ IsFiniteSet(D) /\ D \subseteq Int /\ D # {} /\ Cardinality(D) <= MaxGroups
      /\ \A i \in D : gross[i] \in Nat \ {0}
      /\ SumFunction(gross) \in Int =>
           SumFunction(gross) <= amount - (IF operator THEN CustomerTotal(items) ELSE OperatorTotal(items))
  <2>1. CASE operator /\ OperatorTotal(items) >= MinPayout /\ gross = <<OperatorTotal(items)>>
    <3> DEFINE total == OperatorTotal(items)
    <3>1. D = {1} /\ gross[1] = total
      BY <2>1
    <3>2. total \in Nat \ {0} /\ total \in Int
      BY <1>3, <2>1, PayoutAssumption
    <3>3. IsFiniteSet({1}) /\ Cardinality({1}) = 1
      BY FS_Singleton, Zenon
    <3> HIDE DEF total
    <3>4. SumFunction(gross) = total
      <4>1. SumFunction(gross) = SumFunctionOnSet(gross, {1})
        BY <3>1, Zenon DEF SumFunction
      <4> QED BY <3>1, <3>2, <4>1, SumSingle, Zenon
    <3>5. total = amount - CustomerTotal(items)
      BY <1>2, <1>3 DEF total
    <3> HIDE DEF D
    <3> QED BY <1>2, <2>1, <3>1, <3>2, <3>3, <3>4, <3>5
  <2>2. CASE ~operator /\ DOMAIN CustomerGross # {} /\ gross = CustomerGross
    <3>1. /\ IsFiniteSet(D) /\ D \subseteq Int /\ D # {} /\ Cardinality(D) <= MaxGroups
          /\ \A i \in D : gross[i] \in Nat \ {0}
          /\ SumFunction(gross) <= CustomerTotal(items)
      BY <2>2, CustomerGrossIs, Zenon
    <3>2. SumFunction(gross) \in Int => SumFunction(gross) <= amount - OperatorTotal(items)
      BY <1>2, <1>3, <3>1
    <3> QED BY <2>2, <3>1, <3>2, Zenon
  <2> QED BY <2>1, <2>2, Zenon DEF PlannedBatch
<1>5. SumFunction(gross) = SumFunctionOnSet(gross, D)
  BY Zenon DEF SumFunction
<1>6. PICK z \in D : TRUE
  BY <1>4, Zenon
<1> HIDE DEF D
<1>7. \A i \in D : gross[i] \in Nat
  BY <1>4, Zenon
<1>8. SumFunctionOnSet(gross, D) \in Nat /\ gross[z] <= SumFunctionOnSet(gross, D) /\ gross[z] \in Nat \ {0}
  BY <1>4, <1>6, <1>7, SumNat, SumCovers, Zenon
<1>9. SumFunction(gross) \in Nat /\ SumFunction(gross) > 0 /\ SumFunction(gross) \in Int
  BY <1>5, <1>8
<1>10. Weights(gross)
  BY <1>4, <1>7, <1>9, Zenon DEF Weights, D
<1> QED BY <1>2, <1>4, <1>9, <1>10, Zenon DEF D

\* A batch with its fee deducted sums up to the rest, one without to gross.
LEMMA NetIs ==
  ASSUME SplitInv, result = "allocated", PlannedBatch, feeAtomic \in WalletFees, deduct \in BOOLEAN, ~TooSmall
  PROVE  /\ DOMAIN Net = DOMAIN gross
         /\ \A i \in DOMAIN gross : Net[i] \in 1..gross[i]
         /\ SumFunction(Net) \in Nat
         /\ SumFunction(Net) + (IF deduct THEN feeAtomic ELSE 0) = SumFunction(gross)
<1> DEFINE D == DOMAIN gross
           sh == FeeShares
<1>1. /\ Weights(gross) /\ Cardinality(D) <= MaxGroups /\ MaxGroups \in Nat /\ SumFunction(gross) \in Nat
      /\ \A i \in D : gross[i] \in Nat \ {0}
  BY BatchIs, Zenon
<1>2. feeAtomic \in Nat /\ Precise(feeAtomic, MaxGroups)
  BY PayoutAssumption, Zenon
<1>3. sh \in [D -> Nat] /\ SumFunctionOnSet(sh, D) = feeAtomic
  <2>1. Representable(feeAtomic)
    BY <1>2, PreciseIsRepresentable, Zenon
  <2>2. sh = largestRemainder(feeAtomic, gross)
    BY Zenon DEF FeeShares
  <2> HIDE DEF sh
  <2> QED BY <1>1, <1>2, <2>1, <2>2, RemainderNat, RemainderExact, Zenon
<1>4. IsFiniteSet(D) /\ SumFunction(gross) = SumFunctionOnSet(gross, D)
  BY <1>1, Zenon DEF Weights, SumFunction
<1>5. DOMAIN Net = D /\ \A i \in D : Net[i] = IF deduct THEN gross[i] - sh[i] ELSE gross[i]
  BY Zenon DEF Net
<1>6. SumFunction(Net) = SumFunctionOnSet(Net, D)
  BY <1>5, Zenon DEF SumFunction
<1> DEFINE net == Net
<1> HIDE DEF sh, net, D
<1>7. CASE deduct
  <2>1. ~ \E i \in D : sh[i] >= gross[i]
    BY <1>7, Zenon DEF TooSmall, sh, D
  <2>2. \A i \in D : /\ gross[i] \in Int /\ sh[i] \in Int /\ net[i] = gross[i] - sh[i] /\ net[i] \in 1..gross[i]
                     /\ net[i] \in Nat
    BY <1>1, <1>3, <1>5, <1>7, <2>1 DEF net
  <2>3. SumFunctionOnSet(net, D) = SumFunctionOnSet(gross, D) - SumFunctionOnSet(sh, D)
    BY <1>4, <2>2, SumMinus, Zenon
  <2>4. SumFunctionOnSet(net, D) \in Nat
    BY <1>4, <2>2, SumNat, Zenon
  <2>5. SumFunctionOnSet(net, D) + feeAtomic = SumFunction(gross)
    BY <1>1, <1>2, <1>3, <1>4, <2>3
  <2> QED BY <1>5, <1>6, <1>7, <2>2, <2>4, <2>5, Zenon DEF net, D
<1>8. CASE ~deduct
  <2>1. \A i \in D : gross[i] \in Int /\ net[i] = gross[i] /\ net[i] \in 1..gross[i]
    BY <1>1, <1>5, <1>8 DEF net
  <2>2. SumFunctionOnSet(net, D) = SumFunction(gross)
    BY <1>4, <2>1, SumEqual, Zenon
  <2>3. SumFunction(gross) + 0 = SumFunction(gross)
    BY <1>1
  <2> QED BY <1>1, <1>5, <1>6, <1>8, <2>1, <2>2, <2>3, Zenon DEF net, D
<1> QED BY <1>7, <1>8, Zenon

\* A payout that is prepared is one of the two batches.
LEMMA PrepareInv ==
  ASSUME PayoutInv, \/ \E deductFee \in BOOLEAN : PayCustomers(deductFee)
                    \/ PayOperator
  PROVE  PayoutInv'
<1>1. /\ pc' = "start" /\ result = "allocated" /\ deduct' \in BOOLEAN /\ operator' \in BOOLEAN
      /\ UNCHANGED splitVars
      /\ \/ operator' /\ deduct' /\ OperatorTotal(items) >= MinPayout /\ gross' = <<OperatorTotal(items)>>
         \/ ~operator' /\ DOMAIN CustomerGross # {} /\ gross' = CustomerGross
  BY Zenon DEF PayCustomers, PayOperator, PreparePayout
<1>2. groups' = groups /\ items' = items /\ result' = result
  BY <1>1, Zenon DEF splitVars
<1>3. CustomerGross' = CustomerGross /\ OperatorTotal(items)' = OperatorTotal(items)
  BY <1>2, Zenon DEF CustomerGross
<1>4. PlannedBatch'
  BY <1>1, <1>3, Zenon DEF PlannedBatch
<1>5. pc' # "idle" /\ pc' # "loop" /\ pc' # "sign" /\ pc' # "signed"
  BY <1>1, Zenon
<1> QED BY <1>1, <1>2, <1>4, <1>5, Zenon DEF PayoutInv

\* A step that leaves the batch alone leaves what is computed from it alone.
LEMMA BatchKept ==
  ASSUME PlannedBatch, UNCHANGED splitVars, gross' = gross, deduct' = deduct, operator' = operator
  PROVE  PlannedBatch' /\ result' = result
<1>1. groups' = groups /\ items' = items /\ result' = result
  BY Zenon DEF splitVars
<1>2. CustomerGross' = CustomerGross /\ OperatorTotal(items)' = OperatorTotal(items)
  BY <1>1, Zenon DEF CustomerGross
<1> QED BY <1>1, <1>2, Zenon DEF PlannedBatch

LEMMA FeeKept ==
  ASSUME gross' = gross, deduct' = deduct, feeAtomic' = feeAtomic
  PROVE  Net' = Net /\ TooSmall' = TooSmall
<1>1. FeeShares' = FeeShares
  BY Zenon DEF FeeShares
<1> QED BY <1>1, Zenon DEF Net, TooSmall

\* Every step of preparePayout keeps the invariant: a transaction whose fee has
\* converged is the one of the outputs computed last.
LEMMA StepInv == ASSUME PayoutInv, Step, UNCHANGED splitVars PROVE PayoutInv'
<1>1. /\ gross' = gross /\ deduct' = deduct /\ operator' = operator /\ pc # "idle"
      /\ deduct \in BOOLEAN /\ operator \in BOOLEAN
  BY Zenon DEF PayoutInv, Step, Preliminary, Attempt, GiveUp, CheckLimit, NotSigned, WalletFails, NotPrepared
<1>2. result = "allocated" /\ PlannedBatch
  BY <1>1, Zenon DEF PayoutInv
<1>3. result' = "allocated" /\ PlannedBatch'
  BY <1>1, <1>2, BatchKept, Zenon
<1>4. CASE pc' = "error"
  <2>1. pc' # "loop" /\ pc' # "sign" /\ pc' # "signed"
    BY <1>4, Zenon
  <2> QED BY <1>1, <1>3, <1>4, <2>1, Zenon DEF PayoutInv
<1>5. CASE pc' = "loop"
  <2>1. feeAtomic' \in WalletFees
    BY <1>5, Zenon DEF Step, Preliminary, Attempt, GiveUp, CheckLimit, NotSigned, WalletFails, NotPrepared
  <2>2. pc' # "idle" /\ pc' # "sign" /\ pc' # "signed"
    BY <1>5, Zenon
  <2> QED BY <1>1, <1>3, <1>5, <2>1, <2>2, Zenon DEF PayoutInv
<1>6. CASE pc' = "sign"
  <2>1. /\ pc = "loop" /\ ~TooSmall /\ netItems' = Net /\ transaction' = [outputs |-> Net, fee |-> feeAtomic]
        /\ feeAtomic' = feeAtomic
    BY <1>6, Zenon DEF Step, Preliminary, Attempt, Converged, GiveUp, CheckLimit, NotSigned, WalletFails, NotPrepared
  <2>2. Net' = Net /\ TooSmall' = TooSmall
    BY <1>1, <2>1, FeeKept, Zenon
  <2>3. feeAtomic \in WalletFees
    BY <2>1, Zenon DEF PayoutInv
  <2>4. pc' # "idle" /\ pc' # "signed"
    BY <1>6, Zenon
  <2> QED BY <1>1, <1>3, <1>6, <2>1, <2>2, <2>3, <2>4, Zenon DEF PayoutInv
<1>7. CASE pc' = "signed"
  <2>1. pc = "sign" /\ WithinLimit /\ feeAtomic' = feeAtomic /\ netItems' = netItems /\ transaction' = transaction
    BY <1>7, Zenon DEF Step, Preliminary, Attempt, GiveUp, CheckLimit, NotSigned, WalletFails, NotPrepared
  <2>2. Net' = Net /\ TooSmall' = TooSmall
    BY <1>1, <2>1, FeeKept, Zenon
  <2>3. WithinLimit'
    BY <1>1, <2>1 DEF WithinLimit
  <2>4. feeAtomic \in WalletFees /\ transaction = [outputs |-> Net, fee |-> feeAtomic] /\ netItems = Net /\ ~TooSmall
    BY <2>1, Zenon DEF PayoutInv
  <2> QED BY <1>1, <1>3, <1>7, <2>1, <2>2, <2>3, <2>4, Zenon DEF PayoutInv
<1>8. pc' \in {"loop", "sign", "signed", "error"}
  BY Zenon DEF Step, Preliminary, Attempt, GiveUp, CheckLimit, NotSigned, WalletFails, NotPrepared
<1> QED BY <1>4, <1>5, <1>6, <1>7, <1>8, Zenon

LEMMA WalletStutters ==
  ASSUME PayoutInv, UNCHANGED walletVars, pc = "idle" \/ UNCHANGED splitVars
  PROVE  PayoutInv'
<1>1. /\ gross' = gross /\ deduct' = deduct /\ operator' = operator /\ feeAtomic' = feeAtomic
      /\ netItems' = netItems /\ transaction' = transaction /\ pc' = pc
  BY Zenon DEF walletVars
<1>2. CASE pc = "idle"
  <2>1. pc # "loop" /\ pc # "sign" /\ pc # "signed"
    BY <1>2, Zenon
  <2> QED BY <1>1, <1>2, <2>1, Zenon DEF PayoutInv
<1>3. CASE pc # "idle" /\ UNCHANGED splitVars
  <2>1. PlannedBatch' /\ result' = result
    BY <1>1, <1>3, BatchKept, Zenon DEF PayoutInv
  <2>2. Net' = Net /\ TooSmall' = TooSmall
    BY <1>1, FeeKept, Zenon
  <2>3. WithinLimit => WithinLimit'
    BY <1>1 DEF WithinLimit
  <2> QED BY <1>1, <2>1, <2>2, <2>3, Zenon DEF PayoutInv
<1> QED BY <1>2, <1>3, Zenon

\* What is signed is recorded, and the deposit pays for it.
LEMMA PayoutInvPaid == ASSUME SplitInv, PayoutInv PROVE PaidAsRecorded
<1> SUFFICES ASSUME pc = "signed" PROVE PaidAsRecorded
  BY DEF PaidAsRecorded, SignedAsRecorded, PaidFromDeposit, RecordMatchesTransaction, SpendsWhatIsJournalled,
         EveryoneIsPaid, FeeWithinLimit
<1>1. /\ result = "allocated" /\ PlannedBatch /\ feeAtomic \in WalletFees /\ deduct \in BOOLEAN /\ ~TooSmall /\ WithinLimit
      /\ transaction = [outputs |-> Net, fee |-> feeAtomic] /\ netItems = Net
  <2>1. pc # "idle" /\ pc \in {"loop", "sign", "signed"} /\ pc \in {"sign", "signed"}
    BY Zenon
  <2> QED BY <2>1, Zenon DEF PayoutInv
<1>2. /\ SumFunction(gross) \in Nat
      /\ SumFunction(gross) <= amount - (IF operator THEN CustomerTotal(items) ELSE OperatorTotal(items))
  BY <1>1, BatchIs, Zenon
<1>3. /\ \A i \in DOMAIN gross : Net[i] \in 1..gross[i]
      /\ SumFunction(Net) \in Nat
      /\ SumFunction(Net) + (IF deduct THEN feeAtomic ELSE 0) = SumFunction(gross)
  BY <1>1, NetIs, Zenon
<1>4. transaction.outputs = Net /\ transaction.fee = feeAtomic /\ feeAtomic \in Nat
  BY <1>1, PayoutAssumption, Zenon
<1> DEFINE sum == SumFunction(Net)
           total == SumFunction(gross)
           rest == amount - (IF operator THEN CustomerTotal(items) ELSE OperatorTotal(items))
<1>5. sum + feeAtomic = total + (IF deduct THEN 0 ELSE feeAtomic)
  <2> HIDE DEF sum, total
  <2> QED BY <1>1, <1>2, <1>3, <1>4 DEF sum, total
<1>6. SpendsWhatIsJournalled
  BY <1>4, <1>5, Zenon DEF SpendsWhatIsJournalled
<1>7. EveryoneIsPaid
  BY <1>3, <1>4, Zenon DEF EveryoneIsPaid
<1>8. RecordMatchesTransaction
  BY <1>1, Zenon DEF RecordMatchesTransaction
<1>9. FeeWithinLimit
  BY <1>1, <1>4 DEF FeeWithinLimit, WithinLimit
<1>10. PaidFromDeposit
  <2>1. sum + (IF deduct THEN feeAtomic ELSE 0) <= rest
    BY <1>2, <1>3, Zenon
  <2> QED BY <1>4, <2>1, Zenon DEF PaidFromDeposit
<1> QED BY <1>6, <1>7, <1>8, <1>9, <1>10, Zenon DEF PaidAsRecorded, SignedAsRecorded

LEMMA SettlementStart == ASSUME SettlementInit PROVE SplitInv /\ PayoutInv
<1>1. SplitInv
  BY SplitInvInit, Zenon DEF SettlementInit
<1>2. PayoutInv
  BY Zenon DEF SettlementInit, WalletInit, PayoutInv
<1> QED BY <1>1, <1>2, Zenon

LEMMA SettlementStep ==
  ASSUME SplitInv, PayoutInv, [SettlementNext]_<<splitVars, walletVars>>
  PROVE  SplitInv' /\ PayoutInv'
<1>1. CASE Allocate /\ UNCHANGED walletVars
  <2>1. pc = "idle"
    <3>1. result # "allocated"
      BY <1>1, Zenon DEF Allocate
    <3> QED BY <3>1, Zenon DEF PayoutInv
  <2> QED BY <1>1, <2>1, AllocateInv, WalletStutters, Zenon
<1>2. CASE (\E deductFee \in BOOLEAN : PayCustomers(deductFee)) \/ PayOperator
  <2>1. UNCHANGED splitVars
    BY <1>2, Zenon DEF PayCustomers, PayOperator
  <2> QED BY <1>2, <2>1, PrepareInv, SplitStutters, Zenon
<1>3. CASE Step /\ UNCHANGED splitVars
  BY <1>3, StepInv, SplitStutters, Zenon
<1>4. CASE UNCHANGED <<splitVars, walletVars>>
  BY <1>4, WalletStutters, SplitStutters, Zenon
<1> QED BY <1>1, <1>2, <1>3, <1>4, Zenon DEF SettlementNext

\* allocateDeposit, for deposits and work within the precision of decimal.js: it
\* never fails when there is work, gives every group its exact share rounded
\* down or up, no less for more work, and splits it by the policy.
THEOREM SharesAreFair == SettlementSpec => []FairShares
<1>1. SettlementInit => SplitInv /\ PayoutInv
  BY SettlementStart, Zenon
<1>2. SplitInv /\ PayoutInv /\ [SettlementNext]_<<splitVars, walletVars>> => SplitInv' /\ PayoutInv'
  BY SettlementStep, Zenon
<1>3. SplitInv => FairShares
  BY SplitInvFair, Zenon
<1> QED BY <1>1, <1>2, <1>3, PTL DEF SettlementSpec

\* preparePayout and the fee limit, whatever fees the wallet comes up with: a
\* signed payout is the recorded one, pays everyone in it, stays in the limit of
\* its policy, and costs no more than the deposit leaves for it.
THEOREM PayoutIsAsRecorded == SettlementSpec => []PaidAsRecorded
<1>1. SettlementInit => SplitInv /\ PayoutInv
  BY SettlementStart, Zenon
<1>2. SplitInv /\ PayoutInv /\ [SettlementNext]_<<splitVars, walletVars>> => SplitInv' /\ PayoutInv'
  BY SettlementStep, Zenon
<1>3. SplitInv /\ PayoutInv => PaidAsRecorded
  BY PayoutInvPaid, Zenon
<1> QED BY <1>1, <1>2, <1>3, PTL DEF SettlementSpec
=============================================================================
