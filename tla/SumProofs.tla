------------------------------ MODULE SumProofs ------------------------------
(***************************************************************************)
(* What SumFunctionOnSet of the community modules computes, for every      *)
(* finite set.  It is a fold: a recursive function on the subsets of the   *)
(* set, which takes its elements in the order CHOOSE picks them.  The      *)
(* lemmas first show that the recursion has one solution, and then forget  *)
(* the order.  The inductions are by minimal counterexample: the subsets   *)
(* of a finite set are well ordered by strict inclusion, so a set of       *)
(* subsets that violate a claim has a smallest member.                     *)
(***************************************************************************)
EXTENDS Integers, FiniteSets, Functions, FiniteSetTheorems,
        WellFoundedInduction, TLAPS

Pick(s) == CHOOSE x \in s : TRUE

\* The value the fold gives to s when it gives values it[t] to smaller sets.
FoldStep(f, it, s) == IF s = {} THEN 0 ELSE f[Pick(s)] + it[s \ {Pick(s)}]

IsFold(f, S, it) == it = [s \in SUBSET S |-> FoldStep(f, it, s)]

FoldOf(f, S) == CHOOSE it : IsFold(f, S, it)

-----------------------------------------------------------------------------
\* Among the subsets of a finite set that are in Bad there is one none of
\* whose strict subsets is in Bad.
LEMMA SmallestSubset ==
    ASSUME NEW S, IsFiniteSet(S), NEW Bad, Bad \subseteq SUBSET S, Bad # {}
    PROVE  \E T \in Bad : \A U \in SUBSET T : U # T => U \notin Bad
<1>1. IsWellFoundedOn(StrictSubsetOrdering(S), FiniteSubsetsOf(S))
  BY FS_StrictSubsetOrderingWellFounded
<1>2. FiniteSubsetsOf(S) = SUBSET S
  BY FS_FiniteSubsetsOfFinite
<1>3. PICK T \in Bad : \A U \in Bad : <<U, T>> \notin StrictSubsetOrdering(S)
  BY <1>1, <1>2, WFMin
<1>4. ASSUME NEW U \in SUBSET T, U # T, U \in Bad
      PROVE  FALSE
  BY <1>3, <1>4 DEF StrictSubsetOrdering
<1> QED
  BY <1>3, <1>4

LEMMA PickIsMember ==
    ASSUME NEW s, s # {}
    PROVE  Pick(s) \in s
BY DEF Pick

\* Two solutions of the recursion agree on every set both are defined on.
LEMMA FoldUnique ==
    ASSUME NEW f, NEW S, NEW T, IsFiniteSet(S), NEW g, NEW h,
           IsFold(f, S, g), IsFold(f, T, h)
    PROVE  \A s \in SUBSET (S \cap T) : g[s] = h[s]
<1> DEFINE Bad == {s \in SUBSET (S \cap T) : g[s] # h[s]}
<1>1. SUFFICES ASSUME Bad # {} PROVE FALSE
  OBVIOUS
<1>2. IsFiniteSet(S \cap T)
  BY FS_Subset
<1>3. Bad \subseteq SUBSET (S \cap T)
  OBVIOUS
<1> HIDE DEF Bad
<1>4. PICK s \in Bad : \A U \in SUBSET s : U # s => U \notin Bad
  BY <1>1, <1>2, <1>3, SmallestSubset
<1> USE DEF Bad
<1>5. s \subseteq S /\ s \subseteq T /\ g[s] # h[s]
  BY <1>4
<1>6. g[s] = FoldStep(f, g, s) /\ h[s] = FoldStep(f, h, s)
  BY <1>5 DEF IsFold
<1>7. s # {}
  BY <1>5, <1>6 DEF FoldStep
<1>8. Pick(s) \in s
  BY <1>7, PickIsMember
<1>9. g[s \ {Pick(s)}] = h[s \ {Pick(s)}]
  BY <1>4, <1>5, <1>8
<1> QED
  BY <1>5, <1>6, <1>9 DEF FoldStep

\* The recursion has a solution.
LEMMA FoldExists ==
    ASSUME NEW f, NEW S, IsFiniteSet(S)
    PROVE  IsFold(f, S, FoldOf(f, S))
<1> DEFINE Bad == {T \in SUBSET S : ~ IsFold(f, T, FoldOf(f, T))}
<1>1. SUFFICES ASSUME Bad # {} PROVE FALSE
  OBVIOUS
<1>0. Bad \subseteq SUBSET S
  OBVIOUS
<1> HIDE DEF Bad
<1>2. PICK T \in Bad : \A U \in SUBSET T : U # T => U \notin Bad
  BY <1>0, <1>1, SmallestSubset
<1> USE DEF Bad
<1>3. T \in SUBSET S /\ IsFiniteSet(T) /\ ~ IsFold(f, T, FoldOf(f, T))
  BY <1>2, FS_Subset
<1>4. \A U \in SUBSET T : U # T => IsFold(f, U, FoldOf(f, U))
  BY <1>2, <1>3
<1> HIDE DEF Bad
<1> DEFINE V(s) == FoldOf(f, s)[s]
           g == [s \in SUBSET T |-> IF s = {} THEN 0
                                     ELSE f[Pick(s)] + V(s \ {Pick(s)})]
<1>5. ASSUME NEW s \in SUBSET T, s # T
      PROVE  V(s) = g[s]
  <2>1. IsFold(f, s, FoldOf(f, s))
    BY <1>4, <1>5
  <2>2. V(s) = FoldStep(f, FoldOf(f, s), s)
    BY <2>1 DEF IsFold
  <2>3. CASE s = {}
    BY <2>2, <2>3 DEF FoldStep
  <2>4. CASE s # {}
    <3> DEFINE r == s \ {Pick(s)}
    <3>1. Pick(s) \in s /\ r \in SUBSET T /\ r # T /\ r \subseteq s
      BY <2>4, <1>5, PickIsMember
    <3>2. IsFold(f, r, FoldOf(f, r)) /\ IsFiniteSet(r)
      BY <1>3, <1>4, <3>1, FS_Subset
    <3>3. V(r) = FoldOf(f, s)[r]
      BY <2>1, <3>1, <3>2, FoldUnique
    <3> QED
      BY <2>2, <2>4, <3>3 DEF FoldStep
  <2> QED
    BY <2>3, <2>4
<1>6. \A s \in SUBSET T : g[s] = FoldStep(f, g, s)
  <2> SUFFICES ASSUME NEW s \in SUBSET T PROVE g[s] = FoldStep(f, g, s)
    OBVIOUS
  <2>1. CASE s = {}
    BY <2>1 DEF FoldStep
  <2>2. CASE s # {}
    <3>1. Pick(s) \in s
      BY <2>2, PickIsMember
    <3>2. V(s \ {Pick(s)}) = g[s \ {Pick(s)}]
      BY <1>5, <3>1
    <3> QED
      BY <2>2, <3>2 DEF FoldStep
  <2> QED
    BY <2>1, <2>2
<1>7. IsFold(f, T, g)
  <2>1. g = [s \in SUBSET T |-> g[s]]
    OBVIOUS
  <2> HIDE DEF g
  <2> QED
    BY <2>1, <1>6 DEF IsFold
<1> HIDE DEF g
<1>8. IsFold(f, T, FoldOf(f, T))
  BY <1>7 DEF FoldOf
<1> QED
  BY <1>3, <1>8

LEMMA SumIsFold ==
    ASSUME NEW f, NEW S
    PROVE  SumFunctionOnSet(f, S) = FoldOf(f, S)[S]
BY DEF SumFunctionOnSet, FoldFunctionOnSet, MapThenFoldSet, FoldOf, IsFold,
       FoldStep, Pick

-----------------------------------------------------------------------------
\* The sum over the empty set.
LEMMA SumEmpty ==
    ASSUME NEW f
    PROVE  SumFunctionOnSet(f, {}) = 0
<1>1. IsFold(f, {}, FoldOf(f, {}))
  BY FoldExists, FS_EmptySet
<1>2. FoldOf(f, {})[{}] = FoldStep(f, FoldOf(f, {}), {})
  BY <1>1 DEF IsFold
<1> QED
  BY <1>2, SumIsFold DEF FoldStep

\* The sum over a set with elements, in terms of the element the fold picks.
LEMMA SumPicked ==
    ASSUME NEW f, NEW S, IsFiniteSet(S), S # {}
    PROVE  SumFunctionOnSet(f, S)
             = f[Pick(S)] + SumFunctionOnSet(f, S \ {Pick(S)})
<1> DEFINE R == S \ {Pick(S)}
<1>1. IsFiniteSet(R) /\ R \subseteq S
  BY FS_Subset
<1>2. IsFold(f, S, FoldOf(f, S)) /\ IsFold(f, R, FoldOf(f, R))
  BY <1>1, FoldExists
<1>3. FoldOf(f, S)[R] = FoldOf(f, R)[R]
  BY <1>1, <1>2, FoldUnique
<1>4. FoldOf(f, S)[S] = FoldStep(f, FoldOf(f, S), S)
  BY <1>2 DEF IsFold
<1> QED
  BY <1>3, <1>4, SumIsFold DEF FoldStep

\* Functions that agree on a set have the same sum over it.
LEMMA SumCongruence ==
    ASSUME NEW S, IsFiniteSet(S), NEW f, NEW g, \A x \in S : f[x] = g[x]
    PROVE  SumFunctionOnSet(f, S) = SumFunctionOnSet(g, S)
<1> DEFINE Bad == {T \in SUBSET S :
                     SumFunctionOnSet(f, T) # SumFunctionOnSet(g, T)}
<1>1. SUFFICES ASSUME Bad # {} PROVE FALSE
  OBVIOUS
<1>2. Bad \subseteq SUBSET S
  OBVIOUS
<1> HIDE DEF Bad
<1>3. PICK T \in Bad : \A U \in SUBSET T : U # T => U \notin Bad
  BY <1>1, <1>2, SmallestSubset
<1> USE DEF Bad
<1>4. T \in SUBSET S /\ IsFiniteSet(T)
      /\ SumFunctionOnSet(f, T) # SumFunctionOnSet(g, T)
  BY <1>3, FS_Subset
<1>5. T # {}
  BY <1>4, SumEmpty
<1>6. Pick(T) \in T
  BY <1>5, PickIsMember
<1>7. SumFunctionOnSet(f, T \ {Pick(T)}) = SumFunctionOnSet(g, T \ {Pick(T)})
  BY <1>3, <1>4, <1>6
<1>8. f[Pick(T)] = g[Pick(T)]
  BY <1>4, <1>6
<1>9. /\ SumFunctionOnSet(f, T)
           = f[Pick(T)] + SumFunctionOnSet(f, T \ {Pick(T)})
      /\ SumFunctionOnSet(g, T)
           = g[Pick(T)] + SumFunctionOnSet(g, T \ {Pick(T)})
  BY <1>4, <1>5, SumPicked
<1> QED
  BY <1>4, <1>7, <1>8, <1>9

\* The sum of integers is an integer, of naturals a natural.
LEMMA SumType ==
    ASSUME NEW S, IsFiniteSet(S), NEW D \in {Int, Nat}, NEW f,
           \A x \in S : f[x] \in D
    PROVE  SumFunctionOnSet(f, S) \in D
<1> DEFINE Bad == {T \in SUBSET S : SumFunctionOnSet(f, T) \notin D}
<1>1. SUFFICES ASSUME Bad # {} PROVE FALSE
  OBVIOUS
<1>2. Bad \subseteq SUBSET S
  OBVIOUS
<1> HIDE DEF Bad
<1>3. PICK T \in Bad : \A U \in SUBSET T : U # T => U \notin Bad
  BY <1>1, <1>2, SmallestSubset
<1> USE DEF Bad
<1>4. T \in SUBSET S /\ IsFiniteSet(T) /\ SumFunctionOnSet(f, T) \notin D
  BY <1>3, FS_Subset
<1>5. T # {}
  BY <1>4, SumEmpty
<1>6. Pick(T) \in T
  BY <1>5, PickIsMember
<1>7. SumFunctionOnSet(f, T \ {Pick(T)}) \in D
  BY <1>3, <1>4, <1>6
<1>8. f[Pick(T)] \in D
  BY <1>4, <1>6
<1>9. SumFunctionOnSet(f, T)
        = f[Pick(T)] + SumFunctionOnSet(f, T \ {Pick(T)})
  BY <1>4, <1>5, SumPicked
<1> QED
  BY <1>4, <1>7, <1>8, <1>9

\* The order does not matter: any element can be taken out of the sum.
LEMMA SumTakeOut ==
    ASSUME NEW S, IsFiniteSet(S), NEW f, \A y \in S : f[y] \in Int,
           NEW x \in S
    PROVE  SumFunctionOnSet(f, S) = f[x] + SumFunctionOnSet(f, S \ {x})
<1> DEFINE Splits(T, y) == SumFunctionOnSet(f, T)
                             = f[y] + SumFunctionOnSet(f, T \ {y})
           Bad == {T \in SUBSET S : \E y \in T : ~ Splits(T, y)}
<1>1. SUFFICES ASSUME Bad # {} PROVE FALSE
  OBVIOUS
<1>2. Bad \subseteq SUBSET S
  OBVIOUS
<1> HIDE DEF Bad
<1>3. PICK T \in Bad : \A U \in SUBSET T : U # T => U \notin Bad
  BY <1>1, <1>2, SmallestSubset
<1> USE DEF Bad
<1>4. T \in SUBSET S /\ IsFiniteSet(T)
  BY <1>3, FS_Subset
<1>5. PICK y \in T : ~ Splits(T, y)
  BY <1>3
<1>6. \A U \in SUBSET T : U # T => \A z \in U : Splits(U, z)
  BY <1>3, <1>4
<1> DEFINE p == Pick(T)
<1>7. p \in T /\ Splits(T, p)
  BY <1>4, <1>5, SumPicked, PickIsMember
<1>8. p # y
  BY <1>5, <1>7
<1> HIDE DEF p
<1>9. Splits(T \ {p}, y) /\ Splits(T \ {y}, p)
  BY <1>5, <1>6, <1>7, <1>8
<1>10. (T \ {p}) \ {y} = (T \ {y}) \ {p}
  OBVIOUS
<1>11. f[p] \in Int /\ f[y] \in Int
  BY <1>4, <1>5, <1>7
<1>12. SumFunctionOnSet(f, (T \ {y}) \ {p}) \in Int
  <2>1. IsFiniteSet((T \ {y}) \ {p})
    BY <1>4, FS_Subset
  <2> QED
    BY <2>1, <1>4, SumType
<1>13. SumFunctionOnSet(f, T)
         = f[p] + (f[y] + SumFunctionOnSet(f, (T \ {p}) \ {y}))
  BY <1>7, <1>9
<1>14. SumFunctionOnSet(f, T \ {y})
         = f[p] + SumFunctionOnSet(f, (T \ {y}) \ {p})
  BY <1>9
<1>15. Splits(T, y)
  <2>1. PICK c : c = SumFunctionOnSet(f, (T \ {y}) \ {p})
    OBVIOUS
  <2>2. SumFunctionOnSet(f, T) = f[p] + (f[y] + c)
    BY <1>10, <1>13, <2>1
  <2>3. SumFunctionOnSet(f, T \ {y}) = f[p] + c
    BY <1>14, <2>1
  <2>4. c \in Int
    BY <1>12, <2>1
  <2> QED
    BY <1>11, <2>2, <2>3, <2>4
<1> QED
  BY <1>5, <1>15

\* Functions that differ at one point have sums that differ by as much.
LEMMA SumOneChange ==
    ASSUME NEW S, IsFiniteSet(S), NEW f, NEW g, NEW x \in S,
           \A y \in S : f[y] \in Int /\ g[y] \in Int,
           \A y \in S \ {x} : f[y] = g[y]
    PROVE  SumFunctionOnSet(g, S) = SumFunctionOnSet(f, S) - f[x] + g[x]
<1>1. IsFiniteSet(S \ {x})
  BY FS_Subset
<1>2. SumFunctionOnSet(f, S \ {x}) = SumFunctionOnSet(g, S \ {x})
  BY <1>1, SumCongruence
<1>3. /\ SumFunctionOnSet(f, S) = f[x] + SumFunctionOnSet(f, S \ {x})
      /\ SumFunctionOnSet(g, S) = g[x] + SumFunctionOnSet(g, S \ {x})
  BY SumTakeOut
<1>4. SumFunctionOnSet(f, S \ {x}) \in Int
  BY <1>1, SumType
<1> QED
  BY <1>2, <1>3, <1>4

\* A sum of naturals is at least each of them.
LEMMA SumAtLeastEach ==
    ASSUME NEW S, IsFiniteSet(S), NEW f, \A y \in S : f[y] \in Nat,
           NEW x \in S
    PROVE  f[x] <= SumFunctionOnSet(f, S)
<1>1. IsFiniteSet(S \ {x})
  BY FS_Subset
<1>2. SumFunctionOnSet(f, S \ {x}) \in Nat
  BY <1>1, SumType
<1>3. SumFunctionOnSet(f, S) = f[x] + SumFunctionOnSet(f, S \ {x})
  BY SumTakeOut
<1> QED
  BY <1>2, <1>3

\* A sum of zeros is zero.
LEMMA SumZero ==
    ASSUME NEW S, IsFiniteSet(S), NEW f, \A x \in S : f[x] = 0
    PROVE  SumFunctionOnSet(f, S) = 0
<1> DEFINE Bad == {T \in SUBSET S : SumFunctionOnSet(f, T) # 0}
<1>1. SUFFICES ASSUME Bad # {} PROVE FALSE
  OBVIOUS
<1>2. Bad \subseteq SUBSET S
  OBVIOUS
<1> HIDE DEF Bad
<1>3. PICK T \in Bad : \A U \in SUBSET T : U # T => U \notin Bad
  BY <1>1, <1>2, SmallestSubset
<1> USE DEF Bad
<1>4. T \in SUBSET S /\ IsFiniteSet(T) /\ SumFunctionOnSet(f, T) # 0
  BY <1>3, FS_Subset
<1>5. T # {}
  BY <1>4, SumEmpty
<1>6. Pick(T) \in T
  BY <1>5, PickIsMember
<1>7. SumFunctionOnSet(f, T \ {Pick(T)}) = 0 /\ f[Pick(T)] = 0
  BY <1>3, <1>4, <1>6
<1> QED
  BY <1>4, <1>5, <1>7, SumPicked

=============================================================================
