----------------------------- MODULE FoldLemmas -----------------------------
(***************************************************************************)
(* What the folds and the sorts of the community modules compute on a      *)
(* finite set.  Each fact comes from a least counterexample.               *)
(***************************************************************************)
EXTENDS SequencesExt, FiniteSetTheorems, TLAPS

-----------------------------------------------------------------------------
(* Least counterexamples.                                                  *)

\* A family of subsets of a finite set has one that contains no other.
LEMMA LeastSubset ==
    ASSUME NEW S, IsFiniteSet(S), NEW B \in SUBSET SUBSET S, B # {}
    PROVE  \E T \in B : \A U \in B : U \subseteq T => U = T
<1> DEFINE R == StrictSubsetOrdering(S)
<1>1. IsWellFoundedOn(R, SUBSET S)
  BY FS_StrictSubsetOrderingWellFounded, FS_FiniteSubsetsOfFinite
<1>2. PICK T \in B : \A U \in B : ~(<<U, T>> \in R)
  <2> HIDE DEF R
  <2> QED BY <1>1, WFMin
<1>3. ASSUME NEW U \in B, U \subseteq T PROVE U = T
  <2>1. U # T => <<U, T>> \in R
    BY <1>3 DEF StrictSubsetOrdering
  <2> QED BY <1>2, <2>1
<1> QED BY <1>3

LEMMA LeastNumber ==
    ASSUME NEW S \in SUBSET Nat, S # {}
    PROVE  \E m \in S : \A k \in S : m <= k
<1>1. IsWellFoundedOn(OpToRel(<, Nat), Nat)
  BY NatLessThanWellFounded, Zenon DEF OpToRel
<1>2. \E m \in S : \A k \in S : ~(<<k, m>> \in OpToRel(<, Nat))
  BY <1>1, WFMin, Zenon DEF OpToRel
<1>3. PICK m \in S : \A k \in S : ~(k < m)
  BY <1>2 DEF OpToRel
<1> QED BY <1>3

\* What is ordered has a last one, if it is finite.
LEMMA LastExists ==
    ASSUME NEW S, IsFiniteSet(S), S # {}, NEW R,
           \A x \in S : <<x, x>> \notin R,
           \A x, y, z \in S : <<x, y>> \in R /\ <<y, z>> \in R => <<x, z>> \in R
    PROVE  \E m \in S : \A k \in S : <<m, k>> \notin R
<1> DEFINE After(x) == {k \in S : <<x, k>> \in R}
           B == {After(x) : x \in S}
<1>1. B \in SUBSET SUBSET S /\ B # {}
  <2>1. PICK x \in S : TRUE
    OBVIOUS
  <2>2. After(x) \in B
    BY <2>1
  <2>3. \A T \in B : T \subseteq S
    OBVIOUS
  <2> QED BY <2>2, <2>3
<1>2. PICK T \in B : \A U \in B : U \subseteq T => U = T
  <2> HIDE DEF B
  <2> QED BY <1>1, LeastSubset
<1>3. PICK m \in S : T = After(m)
  BY <1>2
<1>4. ASSUME NEW k \in S, <<m, k>> \in R PROVE FALSE
  <2>1. After(k) \in B /\ After(k) \subseteq After(m)
    BY <1>4
  <2>2. After(k) = After(m)
    BY <1>2, <1>3, <2>1
  <2>3. k \in After(m) /\ k \notin After(k)
    BY <1>4
  <2> QED BY <2>2, <2>3
<1> QED BY <1>4

LEMMA GreatestNumber ==
    ASSUME NEW S \in SUBSET Int, IsFiniteSet(S), S # {}
    PROVE  \E m \in S : \A k \in S : k <= m
<1> DEFINE R == {p \in S \X S : p[1] < p[2]}
<1>1. \A x, y \in S : <<x, y>> \in R <=> x < y
  OBVIOUS
<1>2. \A x \in S : <<x, x>> \notin R
  BY <1>1
<1>3. \A x, y, z \in S : <<x, y>> \in R /\ <<y, z>> \in R => <<x, z>> \in R
  BY <1>1
<1>4. PICK m \in S : \A k \in S : <<m, k>> \notin R
  <2> HIDE DEF R
  <2> QED BY <1>2, <1>3, LastExists
<1>5. \A k \in S : ~(m < k)
  <2> HIDE DEF R
  <2> QED BY <1>1, <1>4
<1> QED BY <1>5

\* What fits into the quotient fits, multiplied, into the number.
LEMMA ProductBound ==
    ASSUME NEW a \in Nat, NEW b \in Nat, NEW m \in Nat, b > 0, a <= m \div b
    PROVE  a * b \in 0..m
<1>1. m \div b \in Nat /\ (m \div b) * b <= m
  OBVIOUS
<1>2. a * b <= (m \div b) * b
  <2> DEFINE c == m \div b
  <2>1. c \in Nat /\ a <= c
    BY <1>1
  <2> HIDE DEF c
  <2>2. PICK d \in Nat : c = a + d
    <3>1. c - a \in Nat /\ c = a + (c - a)
      BY <2>1
    <3> QED BY <3>1
  <2>3. c * b = a * b + d * b /\ d * b >= 0 /\ a * b \in Nat
    BY <2>2
  <2> QED BY <2>3 DEF c
<1> QED BY <1>1, <1>2

-----------------------------------------------------------------------------
(* Sums.                                                                   *)

SumOver(f, S) == FoldFunctionOnSet(+, 0, f, S)

Pick(S) == CHOOSE x \in S : TRUE

\* The table that FoldFunctionOnSet fills.
IsSumTable(g, f, S) ==
    g = [T \in SUBSET S |-> IF T = {} THEN 0 ELSE f[Pick(T)] + g[T \ {Pick(T)}]]

SumTable(f, S) == CHOOSE g : IsSumTable(g, f, S)

LEMMA SumIsTable == \A f, S : SumOver(f, S) = SumTable(f, S)[S]
BY DEF SumOver, FoldFunctionOnSet, MapThenFoldSet, SumTable, IsSumTable, Pick

LEMMA FoldIsSum == \A f : FoldFunction(+, 0, f) = SumOver(f, DOMAIN f)
BY DEF FoldFunction, SumOver

LEMMA TablesAgree ==
    ASSUME NEW f, NEW S, NEW T, IsFiniteSet(S), NEW g, NEW h,
           IsSumTable(g, f, S), IsSumTable(h, f, T)
    PROVE  \A U \in (SUBSET S) \cap (SUBSET T) : g[U] = h[U]
<1> DEFINE B == {U \in SUBSET S : U \subseteq T /\ g[U] # h[U]}
<1>1. SUFFICES ASSUME B # {} PROVE FALSE
  OBVIOUS
<1>2. B \in SUBSET SUBSET S
  OBVIOUS
<1>3. PICK U \in B : \A V \in B : V \subseteq U => V = U
  <2> HIDE DEF B
  <2> QED BY <1>1, <1>2, LeastSubset
<1>4. /\ g[U] = IF U = {} THEN 0 ELSE f[Pick(U)] + g[U \ {Pick(U)}]
      /\ h[U] = IF U = {} THEN 0 ELSE f[Pick(U)] + h[U \ {Pick(U)}]
  <2>1. U \in SUBSET S /\ U \in SUBSET T
    BY <1>3
  <2> QED BY <2>1 DEF IsSumTable
<1>5. CASE U = {}
  BY <1>3, <1>4, <1>5
<1>6. CASE U # {}
  <2>1. Pick(U) \in U
    BY <1>6 DEF Pick
  <2>2. U \ {Pick(U)} \subseteq U /\ U \ {Pick(U)} # U
    BY <2>1
  <2>3. U \ {Pick(U)} \notin B
    BY <1>3, <2>2
  <2>4. g[U \ {Pick(U)}] = h[U \ {Pick(U)}]
    BY <1>3, <2>3
  <2> QED BY <1>3, <1>4, <1>6, <2>4
<1> QED BY <1>5, <1>6

LEMMA TableExists ==
    ASSUME NEW f, NEW S, IsFiniteSet(S)
    PROVE  IsSumTable(SumTable(f, S), f, S)
<1> DEFINE B == {T \in SUBSET S : ~ \E g : IsSumTable(g, f, T)}
<1>1. SUFFICES ASSUME B # {} PROVE FALSE
  <2>1. B = {}
    BY <1>1
  <2>2. \E g : IsSumTable(g, f, S)
    BY <2>1
  <2> QED BY <2>2 DEF SumTable
<1>2. B \in SUBSET SUBSET S
  OBVIOUS
<1>3. PICK T \in B : \A U \in B : U \subseteq T => U = T
  <2> HIDE DEF B
  <2> QED BY <1>1, <1>2, LeastSubset
<1> DEFINE V(U) == IF U = {} THEN 0 ELSE f[Pick(U)] + SumTable(f, U \ {Pick(U)})[U \ {Pick(U)}]
           g == [U \in SUBSET T |-> V(U)]
<1>4. ASSUME NEW U \in SUBSET T, U # T PROVE IsSumTable(SumTable(f, U), f, U) /\ IsFiniteSet(U)
  <2>1. U \notin B /\ U \in SUBSET S
    BY <1>3, <1>4
  <2>2. \E h : IsSumTable(h, f, U)
    BY <2>1
  <2> QED BY <2>1, <2>2, FS_Subset DEF SumTable
<1>5. ASSUME NEW U \in SUBSET T, U # T PROVE SumTable(f, U)[U] = V(U)
  <2>1. SumTable(f, U)[U] = IF U = {} THEN 0 ELSE f[Pick(U)] + SumTable(f, U)[U \ {Pick(U)}]
    BY <1>4, <1>5 DEF IsSumTable
  <2>2. CASE U # {}
    <3> DEFINE W == U \ {Pick(U)}
    <3>1. W \in SUBSET T /\ W # T /\ W \in SUBSET U
      BY <1>5
    <3>2. IsSumTable(SumTable(f, U), f, U) /\ IsFiniteSet(U) /\ IsSumTable(SumTable(f, W), f, W)
      BY <1>4, <1>5, <3>1
    <3>3. SumTable(f, U)[W] = SumTable(f, W)[W]
      <4> HIDE DEF W
      <4> QED BY <3>1, <3>2, TablesAgree
    <3> QED BY <2>1, <2>2, <3>3
  <2> QED BY <2>1, <2>2
<1>6. ASSUME NEW U \in SUBSET T
      PROVE  g[U] = IF U = {} THEN 0 ELSE f[Pick(U)] + g[U \ {Pick(U)}]
  <2>1. CASE U # {}
    <3> DEFINE W == U \ {Pick(U)}
    <3>1. Pick(U) \in U
      BY <2>1 DEF Pick
    <3>2. W \in SUBSET T /\ W # T
      BY <3>1
    <3>3. SumTable(f, W)[W] = V(W)
      <4> HIDE DEF W, V
      <4> QED BY <1>5, <3>2
    <3>4. g[W] = V(W) /\ g[U] = V(U)
      <4> HIDE DEF W, V
      <4> QED BY <3>2
    <3>5. V(U) = f[Pick(U)] + SumTable(f, W)[W]
      BY <2>1
    <3> HIDE DEF V, g
    <3> QED BY <2>1, <3>3, <3>4, <3>5
  <2>2. CASE U = {}
    BY <2>2
  <2> QED BY <2>1, <2>2
<1>7. g = [U \in SUBSET T |-> IF U = {} THEN 0 ELSE f[Pick(U)] + g[U \ {Pick(U)}]]
  <2>1. g = [U \in SUBSET T |-> g[U]]
    OBVIOUS
  <2> HIDE DEF g
  <2> QED BY <1>6, <2>1
<1>8. IsSumTable(g, f, T)
  <2> HIDE DEF g
  <2> QED BY <1>7 DEF IsSumTable
<1> QED BY <1>3, <1>8

\* The sum by the element the fold takes first ...
LEMMA SumStep ==
    ASSUME NEW f, NEW S, IsFiniteSet(S)
    PROVE  SumOver(f, S) = IF S = {} THEN 0 ELSE f[Pick(S)] + SumOver(f, S \ {Pick(S)})
<1>1. IsSumTable(SumTable(f, S), f, S)
  BY TableExists
<1>2. SumTable(f, S)[S] = IF S = {} THEN 0 ELSE f[Pick(S)] + SumTable(f, S)[S \ {Pick(S)}]
  BY <1>1 DEF IsSumTable
<1> DEFINE T == S \ {Pick(S)}
<1>3. IsFiniteSet(T) /\ T \in SUBSET S
  BY FS_Subset
<1>4. SumTable(f, S)[T] = SumTable(f, T)[T]
  <2>1. IsSumTable(SumTable(f, T), f, T)
    BY <1>3, TableExists
  <2>2. T \in (SUBSET S) \cap (SUBSET T)
    BY <1>3
  <2> HIDE DEF T
  <2> QED BY <1>1, <2>1, <2>2, TablesAgree
<1> QED BY <1>2, <1>4, SumIsTable

LEMMA SumType ==
    ASSUME NEW f, NEW S, IsFiniteSet(S), \A x \in S : f[x] \in Int
    PROVE  SumOver(f, S) \in Int
<1> DEFINE B == {T \in SUBSET S : SumOver(f, T) \notin Int}
<1>1. SUFFICES ASSUME B # {} PROVE FALSE
  OBVIOUS
<1>2. B \in SUBSET SUBSET S
  OBVIOUS
<1>3. PICK T \in B : \A U \in B : U \subseteq T => U = T
  <2> HIDE DEF B
  <2> QED BY <1>1, <1>2, LeastSubset
<1>4. SumOver(f, T) = IF T = {} THEN 0 ELSE f[Pick(T)] + SumOver(f, T \ {Pick(T)})
  <2>1. IsFiniteSet(T)
    BY <1>3, FS_Subset
  <2> QED BY <2>1, SumStep
<1>5. T # {}
  BY <1>3, <1>4
<1>6. Pick(T) \in T
  BY <1>5 DEF Pick
<1>7. T \ {Pick(T)} \in SUBSET S /\ T \ {Pick(T)} \subseteq T /\ T \ {Pick(T)} # T
  BY <1>3, <1>6
<1>8. SumOver(f, T \ {Pick(T)}) \in Int
  BY <1>3, <1>7
<1>9. f[Pick(T)] \in Int
  BY <1>3, <1>6
<1> QED BY <1>3, <1>4, <1>5, <1>8, <1>9

\* ... and by any element.
LEMMA SumRemove ==
    ASSUME NEW f, NEW S, IsFiniteSet(S), \A x \in S : f[x] \in Int, NEW a \in S
    PROVE  SumOver(f, S) = f[a] + SumOver(f, S \ {a})
<1> DEFINE B == {T \in SUBSET S : \E x \in T : SumOver(f, T) # f[x] + SumOver(f, T \ {x})}
<1>1. SUFFICES ASSUME B # {} PROVE FALSE
  <2>1. S \notin B
    BY <1>1
  <2> QED BY <2>1
<1>2. B \in SUBSET SUBSET S
  OBVIOUS
<1>3. PICK T \in B : \A U \in B : U \subseteq T => U = T
  <2> HIDE DEF B
  <2> QED BY <1>1, <1>2, LeastSubset
<1>4. PICK x \in T : SumOver(f, T) # f[x] + SumOver(f, T \ {x})
  BY <1>3
<1> DEFINE c == Pick(T)
<1>5. c \in T
  BY <1>4 DEF Pick
<1>6. T \in SUBSET S /\ IsFiniteSet(T)
  BY <1>3, FS_Subset
<1>7. SumOver(f, T) = f[c] + SumOver(f, T \ {c})
  BY <1>4, <1>6, SumStep
<1> HIDE DEF c
<1>8. c # x
  BY <1>4, <1>7
<1> DEFINE Both == (T \ {c}) \ {x}
<1>9. /\ T \ {c} \in SUBSET S /\ T \ {c} \subseteq T /\ T \ {c} # T /\ x \in T \ {c}
      /\ T \ {x} \in SUBSET S /\ T \ {x} \subseteq T /\ T \ {x} # T /\ c \in T \ {x}
      /\ (T \ {x}) \ {c} = Both /\ Both \in SUBSET S /\ IsFiniteSet(Both)
  <2>1. Both \in SUBSET S
    BY <1>6
  <2>2. IsFiniteSet(Both)
    BY <2>1, FS_Subset
  <2> QED BY <1>4, <1>5, <1>6, <1>8, <2>1, <2>2
<1>10. SumOver(f, T \ {c}) = f[x] + SumOver(f, Both)
  <2>1. T \ {c} \notin B
    BY <1>3, <1>9
  <2> QED BY <1>9, <2>1
<1>11. SumOver(f, T \ {x}) = f[c] + SumOver(f, Both)
  <2>1. T \ {x} \notin B
    BY <1>3, <1>9
  <2> QED BY <1>9, <2>1
<1>12. f[x] \in Int /\ f[c] \in Int /\ SumOver(f, Both) \in Int
  <2>1. SumOver(f, Both) \in Int
    BY <1>9, SumType
  <2> QED BY <1>4, <1>5, <1>6, <2>1
<1> HIDE DEF Both
<1> QED BY <1>4, <1>7, <1>10, <1>11, <1>12

LEMMA SumEmpty == \A f : SumOver(f, {}) = 0
BY SumStep, FS_EmptySet

\* The sum looks at the members only.
LEMMA SumAgree ==
    ASSUME NEW f, NEW g, NEW S, IsFiniteSet(S), \A x \in S : f[x] = g[x]
    PROVE  SumOver(f, S) = SumOver(g, S)
<1> DEFINE B == {T \in SUBSET S : SumOver(f, T) # SumOver(g, T)}
<1>1. SUFFICES ASSUME B # {} PROVE FALSE
  OBVIOUS
<1>2. B \in SUBSET SUBSET S
  OBVIOUS
<1>3. PICK T \in B : \A U \in B : U \subseteq T => U = T
  <2> HIDE DEF B
  <2> QED BY <1>1, <1>2, LeastSubset
<1>4. /\ SumOver(f, T) = IF T = {} THEN 0 ELSE f[Pick(T)] + SumOver(f, T \ {Pick(T)})
      /\ SumOver(g, T) = IF T = {} THEN 0 ELSE g[Pick(T)] + SumOver(g, T \ {Pick(T)})
  <2>1. IsFiniteSet(T)
    BY <1>3, FS_Subset
  <2> QED BY <2>1, SumStep
<1>5. Pick(T) \in T
  BY <1>3, <1>4 DEF Pick
<1>6. T \ {Pick(T)} \in SUBSET S /\ T \ {Pick(T)} \subseteq T /\ T \ {Pick(T)} # T
  BY <1>3, <1>5
<1>7. SumOver(f, T \ {Pick(T)}) = SumOver(g, T \ {Pick(T)}) /\ f[Pick(T)] = g[Pick(T)]
  BY <1>3, <1>5, <1>6
<1> QED BY <1>3, <1>4, <1>7

\* A bound on a combination of two functions bounds that of their sums.
LEMMA SumBound ==
    ASSUME NEW a \in Int, NEW b \in Int, NEW d \in Int, NEW f, NEW g, NEW S, IsFiniteSet(S),
           \A x \in S : f[x] \in Int /\ g[x] \in Int /\ a * f[x] + b * g[x] <= d
    PROVE  a * SumOver(f, S) + b * SumOver(g, S) <= d * Cardinality(S)
<1> DEFINE Holds(T) == a * SumOver(f, T) + b * SumOver(g, T) <= d * Cardinality(T)
           B == {T \in SUBSET S : ~Holds(T)}
<1>1. SUFFICES ASSUME B # {} PROVE FALSE
  OBVIOUS
<1>2. B \in SUBSET SUBSET S
  OBVIOUS
<1>3. PICK T \in B : \A U \in B : U \subseteq T => U = T
  <2> HIDE DEF B
  <2> QED BY <1>1, <1>2, LeastSubset
<1>4. T \in SUBSET S /\ IsFiniteSet(T) /\ ~Holds(T)
  BY <1>3, FS_Subset
<1>5. CASE T = {}
  <2>1. SumOver(f, T) = 0 /\ SumOver(g, T) = 0 /\ Cardinality(T) = 0
    BY <1>5, SumEmpty, FS_EmptySet
  <2> QED BY <1>4, <2>1
<1>6. CASE T # {}
  <2>1. PICK x \in T : TRUE
    BY <1>6
  <2> DEFINE U == T \ {x}
             F == SumOver(f, U)
             G == SumOver(g, U)
             n == Cardinality(U)
  <2>2. U \in SUBSET S /\ IsFiniteSet(U) /\ U \subseteq T /\ U # T /\ Cardinality(T) = n + 1 /\ n \in Nat
    <3>1. IsFiniteSet(U) /\ Cardinality(U) = Cardinality(T) - 1
      BY <1>4, <2>1, FS_RemoveElement
    <3>2. Cardinality(T) \in Nat /\ Cardinality(U) \in Nat
      BY <1>4, <3>1, FS_CardinalityType
    <3> QED BY <1>4, <2>1, <3>1, <3>2
  <2>3. SumOver(f, T) = f[x] + F /\ SumOver(g, T) = g[x] + G
    BY <1>4, <2>1, SumRemove
  <2>4. F \in Int /\ G \in Int
    BY <2>2, SumType
  <2>5. a * F + b * G <= d * n
    BY <1>3, <2>2
  <2>6. f[x] \in Int /\ g[x] \in Int /\ a * f[x] + b * g[x] <= d
    BY <1>4, <2>1
  <2> DEFINE fx == f[x]
             gx == g[x]
             N == Cardinality(T)
             FT == SumOver(f, T)
             GT == SumOver(g, T)
  <2>7. /\ F \in Int /\ G \in Int /\ fx \in Int /\ gx \in Int /\ n \in Int
        /\ FT = fx + F /\ GT = gx + G /\ N = n + 1 /\ a * F + b * G <= d * n /\ a * fx + b * gx <= d
    BY <2>2, <2>3, <2>4, <2>5, <2>6
  <2>8. a * FT + b * GT <= d * N
    <3> HIDE DEF F, G, fx, gx, n, N, FT, GT
    <3>1. a * FT = a * fx + a * F /\ b * GT = b * gx + b * G /\ d * N = d * n + d
      BY <2>7
    <3>2. /\ a * fx \in Int /\ a * F \in Int /\ b * gx \in Int /\ b * G \in Int /\ d * n \in Int
      BY <2>7
    <3> QED BY <2>7, <3>1, <3>2
  <2> QED BY <1>4, <2>8
<1> QED BY <1>5, <1>6

\* Sums of natural numbers.
LEMMA SumOfNaturals ==
    ASSUME NEW f, NEW S, IsFiniteSet(S), \A x \in S : f[x] \in Nat
    PROVE  /\ SumOver(f, S) \in Nat
           /\ \A x \in S : f[x] <= SumOver(f, S)
           /\ SumOver(f, S) = 0 <=> \A x \in S : f[x] = 0
<1>1. \A T \in SUBSET S : SumOver(f, T) \in Nat
  <2> SUFFICES ASSUME NEW T \in SUBSET S PROVE SumOver(f, T) \in Nat
    OBVIOUS
  <2>1. IsFiniteSet(T) /\ \A x \in T : f[x] \in Int /\ f[x] \in Int /\ (-1) * f[x] + 0 * f[x] <= 0
    BY FS_Subset
  <2>2. SumOver(f, T) \in Int
    BY <2>1, SumType
  <2>3. (-1) * SumOver(f, T) + 0 * SumOver(f, T) <= 0 * Cardinality(T) /\ Cardinality(T) \in Nat
    <3>1. -1 \in Int /\ 0 \in Int
      OBVIOUS
    <3> QED BY <2>1, <3>1, SumBound, FS_CardinalityType
  <2> QED BY <2>2, <2>3
<1>2. \A x \in S : SumOver(f, S) = f[x] + SumOver(f, S \ {x}) /\ SumOver(f, S \ {x}) \in Nat
  <2> TAKE x \in S
  <2>1. SumOver(f, S) = f[x] + SumOver(f, S \ {x})
    BY SumRemove
  <2>2. S \ {x} \in SUBSET S
    OBVIOUS
  <2> QED BY <1>1, <2>1, <2>2
<1>3. SumOver(f, S) \in Nat
  <2>1. S \in SUBSET S
    OBVIOUS
  <2> QED BY <1>1, <2>1
<1>4. (\A x \in S : f[x] = 0) => SumOver(f, S) = 0
  <2> SUFFICES ASSUME \A x \in S : f[x] = 0 PROVE SumOver(f, S) <= 0
    BY <1>3
  <2>1. 1 * SumOver(f, S) + 0 * SumOver(f, S) <= 0 * Cardinality(S) /\ Cardinality(S) \in Nat
    <3>1. 1 \in Int /\ 0 \in Int
      OBVIOUS
    <3>2. \A x \in S : f[x] \in Int /\ 1 * f[x] + 0 * f[x] <= 0
      OBVIOUS
    <3> QED BY <3>1, <3>2, SumBound, FS_CardinalityType
  <2> QED BY <1>3, <2>1
<1>5. ASSUME NEW x \in S
      PROVE  f[x] <= SumOver(f, S) /\ (SumOver(f, S) = 0 => f[x] = 0)
  <2>1. SumOver(f, S) = f[x] + SumOver(f, S \ {x}) /\ SumOver(f, S \ {x}) \in Nat /\ f[x] \in Nat
    BY <1>2
  <2> QED BY <2>1
<1> QED BY <1>3, <1>4, <1>5

\* A set is summed in two parts.
LEMMA SumSplit ==
    ASSUME NEW f, NEW S, IsFiniteSet(S), \A x \in S : f[x] \in Int, NEW P \in SUBSET S
    PROVE  SumOver(f, S) = SumOver(f, P) + SumOver(f, S \ P)
<1> DEFINE Rest == S \ P
           B == {T \in SUBSET Rest : SumOver(f, P \cup T) # SumOver(f, P) + SumOver(f, T)}
<1>0. IsFiniteSet(Rest) /\ P \cup Rest = S
  <2>1. Rest \in SUBSET S
    OBVIOUS
  <2> QED BY <2>1, FS_Subset
<1>1. SUFFICES ASSUME B # {} PROVE FALSE
  <2>1. Rest \notin B
    BY <1>1
  <2> QED BY <1>0, <2>1
<1>2. B \in SUBSET SUBSET Rest
  OBVIOUS
<1>3. PICK T \in B : \A U \in B : U \subseteq T => U = T
  <2> HIDE DEF B, Rest
  <2> QED BY <1>0, <1>1, <1>2, LeastSubset
<1>4. /\ T \in SUBSET Rest /\ T \in SUBSET S /\ P \cup T \in SUBSET S
      /\ SumOver(f, P \cup T) # SumOver(f, P) + SumOver(f, T)
  BY <1>3
<1>5. IsFiniteSet(T) /\ IsFiniteSet(P \cup T) /\ IsFiniteSet(P)
  BY <1>4, FS_Subset
<1>6. SumOver(f, P) \in Int
  BY <1>5, SumType
<1>7. CASE T = {}
  <2>1. P \cup T = P /\ SumOver(f, T) = 0
    BY <1>7, SumEmpty
  <2> QED BY <1>4, <1>6, <2>1
<1>8. CASE T # {}
  <2>1. PICK x \in T : TRUE
    BY <1>8
  <2> DEFINE U == T \ {x}
  <2>2. U \in SUBSET Rest /\ U \subseteq T /\ U # T /\ (P \cup T) \ {x} = P \cup U /\ U \in SUBSET S
    BY <1>4, <2>1
  <2>3. SumOver(f, P \cup T) = f[x] + SumOver(f, P \cup U)
    <3>1. x \in P \cup T /\ \A y \in P \cup T : f[y] \in Int
      BY <1>4, <2>1
    <3>2. SumOver(f, P \cup T) = f[x] + SumOver(f, (P \cup T) \ {x})
      BY <1>5, <3>1, SumRemove
    <3> QED BY <2>2, <3>2
  <2>4. SumOver(f, T) = f[x] + SumOver(f, U)
    BY <1>4, <1>5, <2>1, SumRemove
  <2>5. SumOver(f, P \cup U) = SumOver(f, P) + SumOver(f, U)
    BY <1>3, <2>2
  <2>6. SumOver(f, U) \in Int /\ f[x] \in Int
    <3>1. IsFiniteSet(U)
      BY <2>2, FS_Subset
    <3> QED BY <1>4, <2>1, <2>2, <3>1, SumType
  <2> HIDE DEF U
  <2> QED BY <1>4, <1>6, <2>3, <2>4, <2>5, <2>6
<1> QED BY <1>7, <1>8

\* Another name for each member leaves the sum as it is.
LEMMA SumRenamed ==
    ASSUME NEW S, IsFiniteSet(S), NEW h, NEW f, NEW g,
           \A x \in S : g[x] \in Int /\ f[h[x]] = g[x],
           \A x, y \in S : h[x] = h[y] => x = y
    PROVE  SumOver(f, {h[x] : x \in S}) = SumOver(g, S)
<1> DEFINE Image(T) == {h[x] : x \in T}
           B == {T \in SUBSET S : SumOver(f, Image(T)) # SumOver(g, T)}
<1>1. SUFFICES ASSUME B # {} PROVE FALSE
  OBVIOUS
<1>2. B \in SUBSET SUBSET S
  OBVIOUS
<1>3. PICK T \in B : \A U \in B : U \subseteq T => U = T
  <2> HIDE DEF B
  <2> QED BY <1>1, <1>2, LeastSubset
<1>4. T \in SUBSET S /\ IsFiniteSet(T) /\ SumOver(f, Image(T)) # SumOver(g, T)
  BY <1>3, FS_Subset
<1>5. CASE T = {}
  <2>1. Image(T) = {}
    BY <1>5
  <2> QED BY <1>4, <1>5, <2>1, SumEmpty
<1>6. CASE T # {}
  <2>1. PICK x \in T : TRUE
    BY <1>6
  <2> DEFINE U == T \ {x}
  <2>2. U \in SUBSET S /\ U \subseteq T /\ U # T
    BY <1>4, <2>1
  <2>3. SumOver(f, Image(U)) = SumOver(g, U)
    BY <1>3, <2>2
  <2>4. SumOver(g, T) = g[x] + SumOver(g, U)
    BY <1>4, <2>1, SumRemove
  <2>5. Image(T) \ {h[x]} = Image(U) /\ h[x] \in Image(T)
    BY <1>4, <2>1
  <2>6. IsFiniteSet(Image(T))
    <3> DEFINE H == [y \in T |-> h[y]]
    <3>1. H \in Surjection(T, Image(T))
      BY DEF Surjection
    <3> HIDE DEF H, Image
    <3> QED BY <1>4, <3>1, FS_Surjection
  <2>7. \A z \in Image(T) : f[z] \in Int
    BY <1>4
  <2>8. SumOver(f, Image(T)) = f[h[x]] + SumOver(f, Image(T) \ {h[x]})
    <3> HIDE DEF Image
    <3> QED BY <2>5, <2>6, <2>7, SumRemove
  <2>9. f[h[x]] = g[x]
    BY <1>4, <2>1
  <2> QED BY <1>4, <2>3, <2>4, <2>5, <2>8, <2>9
<1> QED BY <1>5, <1>6

-----------------------------------------------------------------------------
(* Ranks in a finite set that is ordered.                                  *)

StrictlyOrders(R, S) ==
    /\ \A x \in S : <<x, x>> \notin R
    /\ \A x, y, z \in S : <<x, y>> \in R /\ <<y, z>> \in R => <<x, z>> \in R
    /\ \A x, y \in S : x = y \/ <<x, y>> \in R \/ <<y, x>> \in R

Precede(R, S, x) == {k \in S : <<k, x>> \in R}

\* As many precede a member as its rank says, and every rank is taken.
LEMMA RankFacts ==
    ASSUME NEW S, IsFiniteSet(S), NEW R, StrictlyOrders(R, S)
    PROVE  /\ Cardinality(S) \in Nat
           /\ \A x \in S : Cardinality(Precede(R, S, x)) \in 0..Cardinality(S) - 1
           /\ \A x, y \in S : <<x, y>> \in R
                                <=> Cardinality(Precede(R, S, x)) < Cardinality(Precede(R, S, y))
           /\ \A x, y \in S : Cardinality(Precede(R, S, x)) = Cardinality(Precede(R, S, y)) => x = y
           /\ \A i \in 0..Cardinality(S) - 1 : \E x \in S : Cardinality(Precede(R, S, x)) = i
<1> DEFINE n == Cardinality(S)
           rank(x) == Cardinality(Precede(R, S, x))
<1>1. n \in Nat
  BY FS_CardinalityType
<1>2. \A x \in S : IsFiniteSet(Precede(R, S, x)) /\ rank(x) \in Nat
  <2> TAKE x \in S
  <2>1. Precede(R, S, x) \in SUBSET S
    BY DEF Precede
  <2>2. IsFiniteSet(Precede(R, S, x))
    BY <2>1, FS_Subset
  <2> QED BY <2>2, FS_CardinalityType
<1>3. ASSUME NEW x \in S PROVE rank(x) \in 0..n - 1
  <2> DEFINE rest == S \ {x}
  <2>1. Precede(R, S, x) \in SUBSET rest
    BY DEF Precede, StrictlyOrders
  <2>2. IsFiniteSet(rest) /\ Cardinality(rest) = n - 1
    BY FS_RemoveElement
  <2> HIDE DEF rest
  <2>3. rank(x) <= Cardinality(rest)
    BY <2>1, <2>2, FS_Subset
  <2> QED BY <1>1, <1>2, <2>2, <2>3
<1>4. ASSUME NEW x \in S, NEW y \in S, <<x, y>> \in R PROVE rank(x) < rank(y)
  <2> DEFINE P == Precede(R, S, x)
  <2>1. P \cup {x} \in SUBSET Precede(R, S, y) /\ x \notin P
    BY <1>4 DEF Precede, StrictlyOrders
  <2>2. IsFiniteSet(P) /\ IsFiniteSet(Precede(R, S, y)) /\ Cardinality(P) \in Nat /\ rank(y) \in Nat
    BY <1>2
  <2> HIDE DEF P
  <2>3. Cardinality(P \cup {x}) = Cardinality(P) + 1
    BY <2>1, <2>2, FS_AddElement
  <2>4. Cardinality(P \cup {x}) <= rank(y)
    BY <2>1, <2>2, FS_Subset
  <2>5. Cardinality(P) < rank(y)
    BY <2>2, <2>3, <2>4
  <2> QED BY <2>5 DEF P
<1>5. ASSUME NEW x \in S, NEW y \in S
      PROVE  /\ <<x, y>> \in R <=> rank(x) < rank(y)
             /\ rank(x) = rank(y) => x = y
  <2>1. rank(x) \in Nat /\ rank(y) \in Nat
    BY <1>2
  <2>2. /\ <<x, y>> \in R => rank(x) < rank(y)
        /\ <<y, x>> \in R => rank(y) < rank(x)
        /\ x = y \/ <<x, y>> \in R \/ <<y, x>> \in R
    BY <1>4 DEF StrictlyOrders
  <2> QED BY <2>1, <2>2
<1>6. \A i \in 0..n - 1 : \E x \in S : rank(x) = i
  <2> DEFINE f == [x \in S |-> rank(x)]
             T == 0..n - 1
  <2>1. f \in Injection(S, T)
    <3>1. f \in [S -> T]
      BY <1>3
    <3>2. \A x, y \in S : f[x] = f[y] => x = y
      <4> TAKE x, y \in S
      <4>1. f[x] = rank(x) /\ f[y] = rank(y)
        OBVIOUS
      <4> HIDE DEF f, rank
      <4> QED BY <1>5, <4>1
    <3>3. DOMAIN f = S
      OBVIOUS
    <3> HIDE DEF f, T
    <3> QED BY <3>1, <3>2, <3>3 DEF Injection, IsInjective
  <2>2. IsFiniteSet(T) /\ Cardinality(T) = n
    <3>1. 0 \in Int /\ n - 1 \in Int
      BY <1>1
    <3>2. IsFiniteSet(0..n - 1) /\ Cardinality(0..n - 1) = IF 0 > n - 1 THEN 0 ELSE (n - 1) - 0 + 1
      <4> HIDE DEF n
      <4> QED BY <3>1, FS_Interval
    <3> QED BY <1>1, <3>2
  <2>3. f \in Surjection(S, T)
    <3> HIDE DEF f, T
    <3> QED BY <2>1, <2>2, FS_Injection
  <2>4. \A i \in T : \E x \in S : f[x] = i
    <3> HIDE DEF f, T
    <3> QED BY <2>3 DEF Surjection
  <2> QED BY <2>4
<1> HIDE DEF n, rank
<1>7. /\ n \in Nat /\ \A x \in S : rank(x) \in 0..n - 1
      /\ \A x, y \in S : <<x, y>> \in R <=> rank(x) < rank(y)
      /\ \A x, y \in S : rank(x) = rank(y) => x = y
      /\ \A i \in 0..n - 1 : \E x \in S : rank(x) = i
  BY <1>1, <1>3, <1>5, <1>6
<1> QED BY <1>7 DEF n, rank

\* Counted value by value, the members of a set are all of them.
LEMMA SumOfFibres ==
    ASSUME NEW S, IsFiniteSet(S), NEW h
    PROVE  /\ IsFiniteSet({h[x] : x \in S})
           /\ SumOver([v \in {h[x] : x \in S} |-> Cardinality({x \in S : h[x] = v})], {h[x] : x \in S})
                = Cardinality(S)
<1> DEFINE Image(T) == {h[x] : x \in T}
           Fibre(T, v) == {x \in T : h[x] = v}
           f(T) == [v \in Image(T) |-> Cardinality(Fibre(T, v))]
           B == {T \in SUBSET S : SumOver(f(T), Image(T)) # Cardinality(T)}
<1>1. ASSUME NEW T \in SUBSET S
      PROVE  /\ IsFiniteSet(T) /\ Cardinality(T) \in Nat /\ IsFiniteSet(Image(T))
             /\ \A v : IsFiniteSet(Fibre(T, v)) /\ Cardinality(Fibre(T, v)) \in Nat
  <2>1. IsFiniteSet(T)
    BY FS_Subset
  <2>2. IsFiniteSet(Image(T))
    <3> DEFINE g == [x \in T |-> h[x]]
    <3>1. g \in Surjection(T, Image(T))
      BY DEF Surjection
    <3> HIDE DEF g, Image
    <3> QED BY <2>1, <3>1, FS_Surjection DEF ExistsSurjection
  <2>3. \A v : IsFiniteSet(Fibre(T, v))
    <3> TAKE v
    <3>1. Fibre(T, v) \in SUBSET T
      OBVIOUS
    <3> QED BY <2>1, <3>1, FS_Subset
  <2> QED BY <2>1, <2>2, <2>3, FS_CardinalityType
<1>2. SUFFICES B = {}
  <2>1. S \notin B
    BY <1>2
  <2>2. SumOver(f(S), Image(S)) = Cardinality(S)
    <3> HIDE DEF f
    <3> QED BY <2>1
  <2> QED BY <1>1, <2>2
<1>3. SUFFICES ASSUME B # {} PROVE FALSE
  OBVIOUS
<1>4. B \in SUBSET SUBSET S
  OBVIOUS
<1>5. PICK T \in B : \A U \in B : U \subseteq T => U = T
  <2> HIDE DEF B
  <2> QED BY <1>3, <1>4, LeastSubset
<1>6. T \in SUBSET S /\ SumOver(f(T), Image(T)) # Cardinality(T)
  <2> HIDE DEF f
  <2> QED BY <1>5
<1>7. T # {}
  <2> SUFFICES ASSUME T = {} PROVE FALSE
    OBVIOUS
  <2>1. Image(T) = {}
    OBVIOUS
  <2>2. SumOver(f(T), Image(T)) = 0 /\ Cardinality(T) = 0
    <3> HIDE DEF f, Image
    <3> QED BY <2>1, SumEmpty, FS_EmptySet
  <2> QED BY <1>6, <2>2
<1>8. PICK x \in T : TRUE
  BY <1>7
<1> DEFINE U == T \ {x}
           v == h[x]
           E == Image(T) \ {v}
<1>9. U \in SUBSET S /\ U \subseteq T /\ U # T
  BY <1>6, <1>8
<1>10. SumOver(f(U), Image(U)) = Cardinality(U)
  <2>1. U \notin B
    BY <1>5, <1>9
  <2> HIDE DEF f, U
  <2> QED BY <1>9, <2>1
<1>11. Cardinality(T) = Cardinality(U) + 1 /\ Cardinality(U) \in Nat
  <2>1. IsFiniteSet(T) /\ IsFiniteSet(U)
    BY <1>1, <1>6, <1>9
  <2>2. T = U \cup {x} /\ x \notin U
    BY <1>8
  <2> HIDE DEF f, Image, Fibre, U, v, E
  <2>3. Cardinality(U \cup {x}) = Cardinality(U) + 1
    BY <2>1, <2>2, FS_AddElement
  <2>4. Cardinality(U) \in Nat
    BY <2>1, FS_CardinalityType
  <2> QED BY <2>2, <2>3, <2>4
<1>12. f(T)[v] = Cardinality(Fibre(U, v)) + 1 /\ Cardinality(Fibre(U, v)) \in Nat
  <2>1. Fibre(T, v) = Fibre(U, v) \cup {x} /\ x \notin Fibre(U, v)
    BY <1>8
  <2>2. v \in Image(T)
    BY <1>8
  <2>3. IsFiniteSet(Fibre(U, v)) /\ Cardinality(Fibre(U, v)) \in Nat
    BY <1>1, <1>9
  <2>4. f(T)[v] = Cardinality(Fibre(T, v))
    BY <2>2
  <2> HIDE DEF f, Fibre, U, v
  <2>5. Cardinality(Fibre(U, v) \cup {x}) = Cardinality(Fibre(U, v)) + 1
    BY <2>1, <2>3, FS_AddElement
  <2> QED BY <2>1, <2>3, <2>4, <2>5
<1>13. \A w \in E : w \in Image(U) /\ f(T)[w] = f(U)[w]
  <2> TAKE w \in E
  <2>1. Fibre(T, w) = Fibre(U, w)
    OBVIOUS
  <2>2. w \in Image(U) /\ w \in Image(T)
    OBVIOUS
  <2>3. f(T)[w] = Cardinality(Fibre(T, w)) /\ f(U)[w] = Cardinality(Fibre(U, w))
    BY <2>2
  <2> HIDE DEF f, Fibre
  <2> QED BY <2>1, <2>2, <2>3
<1>14. /\ IsFiniteSet(Image(T)) /\ IsFiniteSet(Image(U)) /\ IsFiniteSet(E)
       /\ v \in Image(T)
  <2>1. IsFiniteSet(Image(T)) /\ IsFiniteSet(Image(U))
    BY <1>1, <1>6, <1>9
  <2>2. E \in SUBSET Image(T)
    OBVIOUS
  <2>3. v \in Image(T)
    BY <1>8
  <2> HIDE DEF E, Image
  <2> QED BY <2>1, <2>2, <2>3, FS_Subset
<1>15. \A w \in Image(T) : f(T)[w] \in Int
  <2> TAKE w \in Image(T)
  <2>1. f(T)[w] = Cardinality(Fibre(T, w))
    OBVIOUS
  <2> HIDE DEF f, Fibre, Image
  <2> QED BY <1>1, <1>6, <2>1
<1>16. \A w \in Image(U) : f(U)[w] \in Int
  <2> TAKE w \in Image(U)
  <2>1. f(U)[w] = Cardinality(Fibre(U, w))
    OBVIOUS
  <2> HIDE DEF f, Fibre, Image, U
  <2> QED BY <1>1, <1>9, <2>1
<1>17. v \in Image(U) => f(U)[v] = Cardinality(Fibre(U, v)) /\ Image(U) \ {v} = E
  OBVIOUS
<1>18. v \notin Image(U) => Image(U) = E /\ Cardinality(Fibre(U, v)) = 0
  <2> SUFFICES ASSUME v \notin Image(U) PROVE Image(U) = E /\ Cardinality(Fibre(U, v)) = 0
    OBVIOUS
  <2>1. Fibre(U, v) = {}
    OBVIOUS
  <2>2. Image(U) = E
    OBVIOUS
  <2> HIDE DEF Fibre, U, v
  <2> QED BY <2>1, <2>2, FS_EmptySet
<1> HIDE DEF f, Image, Fibre, U, v, E
<1>19. SumOver(f(T), Image(T)) = f(T)[v] + SumOver(f(T), Image(T) \ {v})
  BY <1>14, <1>15, SumRemove
<1>20. SumOver(f(T), E) = SumOver(f(U), E)
  BY <1>13, <1>14, SumAgree
<1>21. SumOver(f(U), E) \in Int
  BY <1>13, <1>14, <1>16, SumType
<1>22. Image(T) \ {v} = E
  BY DEF E
<1>23. CASE v \in Image(U)
  <2>1. SumOver(f(U), Image(U)) = f(U)[v] + SumOver(f(U), Image(U) \ {v})
    BY <1>14, <1>16, <1>23, SumRemove
  <2>2. SumOver(f(U), Image(U)) = Cardinality(Fibre(U, v)) + SumOver(f(U), E)
    BY <1>17, <1>23, <2>1
  <2>3. SumOver(f(T), Image(T)) = Cardinality(Fibre(U, v)) + 1 + SumOver(f(U), E)
    BY <1>12, <1>19, <1>20, <1>22
  <2> QED BY <1>6, <1>10, <1>11, <1>12, <1>21, <2>2, <2>3
<1>24. CASE v \notin Image(U)
  <2>1. SumOver(f(T), Image(T)) = 1 + SumOver(f(U), E) /\ SumOver(f(U), E) = Cardinality(U)
    BY <1>10, <1>12, <1>18, <1>19, <1>20, <1>22, <1>24
  <2> QED BY <1>6, <1>11, <1>21, <2>1
<1> QED BY <1>23, <1>24

=============================================================================
