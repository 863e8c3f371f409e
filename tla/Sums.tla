-------------------------------- MODULE Sums --------------------------------
(***************************************************************************)
(* What SumFunctionOnSet of the community modules adds up to, for finite   *)
(* sets, and how many elements they have: the facts about sums and counts  *)
(* that conservation of units and figures that agree rest on.              *)
(*                                                                         *)
(* Induction is over the number of elements, in the form "there is no set  *)
(* with the least number of elements that is an exception".                *)
(***************************************************************************)
EXTENDS Integers, FiniteSets, Functions, FiniteSetTheorems, NaturalsInduction,
        SequenceTheorems, WellFoundedInduction, TLAPS

\* One step of the recursion that defines a sum, and the functions on the
\* subsets of S that satisfy it.
SumStep(F, g, s) == IF s = {} THEN 0
                 ELSE LET x == CHOOSE x \in s : TRUE IN F[x] + g[s \ {x}]
Solves(F, S, g) == g = [s \in SUBSET S |-> SumStep(F, g, s)]

\* Numbers with a property have a least one.
LEMMA LeastNumber ==
    ASSUME NEW T \in SUBSET Nat, T # {}
    PROVE  \E m \in T : \A n \in T : m <= n
<1>1. \E m \in T : \A n \in T : ~ (<<n, m>> \in OpToRel(<, Nat))
  BY NatLessThanWellFounded, WFMin
<1>2. \E m \in T : \A n \in T : ~ (n < m)
  BY <1>1, Zenon DEF OpToRel
<1>3. QED
  BY <1>2

LEMMA RemoveChosen ==
    ASSUME NEW s, IsFiniteSet(s), s # {}
    PROVE  LET x == CHOOSE x \in s : TRUE
           IN  /\ x \in s
               /\ IsFiniteSet(s \ {x})
               /\ Cardinality(s) \in Nat /\ Cardinality(s \ {x}) \in Nat
               /\ Cardinality(s \ {x}) = Cardinality(s) - 1
<1> DEFINE x == CHOOSE x \in s : TRUE
<1>1. x \in s
  OBVIOUS
<1> HIDE DEF x
<1>2. QED
  BY <1>1, FS_RemoveElement, FS_CardinalityType

\* The recursion has a solution.
LEMMA Solvable ==
    ASSUME NEW F, NEW S, IsFiniteSet(S)
    PROVE  \E g : Solves(F, S, g)
<1> DEFINE UpTo(g, n) == /\ g = [s \in SUBSET S |-> g[s]]
                         /\ \A s \in SUBSET S : Cardinality(s) <= n => g[s] = SumStep(F, g, s)
           T == {n \in Nat : ~ \E g : UpTo(g, n)}
<1>1. \A s \in SUBSET S : IsFiniteSet(s) /\ Cardinality(s) \in Nat
                          /\ Cardinality(s) <= Cardinality(S)
  BY FS_Subset, FS_CardinalityType
<1>2. ASSUME T # {}
      PROVE  FALSE
  <2>1. PICK m \in T : \A n \in T : m <= n
    <3> HIDE DEF T
    <3>1. T \in SUBSET Nat
      BY DEF T
    <3>2. QED
      BY <1>2, <3>1, LeastNumber
  <2>2. m # 0
    <3> DEFINE g == [s \in SUBSET S |-> 0]
    <3>1. UpTo(g, 0)
      <4>1. ASSUME NEW s \in SUBSET S, Cardinality(s) <= 0
            PROVE  s = {}
        BY <1>1, <4>1, FS_EmptySet
      <4>2. QED
        BY <4>1 DEF SumStep
    <3>2. QED
      BY <3>1
  <2>3. m - 1 \in Nat /\ m - 1 \notin T
    <3>1. m \in Nat
      BY <2>1
    <3> HIDE DEF T
    <3>2. QED
      BY <2>1, <2>2, <3>1
  <2>4. PICK g : UpTo(g, m - 1)
    BY <2>3
  <2> DEFINE h == [s \in SUBSET S |-> IF Cardinality(s) <= m - 1 THEN g[s] ELSE SumStep(F, g, s)]
  <2>5. ASSUME NEW s \in SUBSET S, Cardinality(s) <= m
        PROVE  h[s] = SumStep(F, h, s)
    <3>1. h[s] = SumStep(F, g, s)
      BY <2>4
    <3>2. CASE s = {}
      BY <3>1, <3>2 DEF SumStep
    <3>3. CASE s # {}
      <4> DEFINE x == CHOOSE x \in s : TRUE
      <4>1. s \ {x} \in SUBSET S /\ Cardinality(s \ {x}) <= m - 1
        <5>1. Cardinality(s \ {x}) = Cardinality(s) - 1 /\ Cardinality(s) \in Nat
          BY <1>1, <3>3, RemoveChosen
        <5> HIDE DEF x
        <5>2. QED
          BY <2>1, <2>5, <5>1
      <4>2. h[s \ {x}] = g[s \ {x}]
        BY <4>1
      <4> HIDE DEF h
      <4>3. QED
        BY <3>1, <3>3, <4>2 DEF SumStep
    <3>4. QED
      BY <3>2, <3>3
  <2>6. UpTo(h, m)
    <3>1. h = [s \in SUBSET S |-> h[s]]
      OBVIOUS
    <3> HIDE DEF h
    <3>2. QED
      BY <2>5, <3>1
  <2> HIDE DEF UpTo, h
  <2>7. QED
    BY <2>1, <2>6 DEF T
<1>3. Cardinality(S) \in Nat \ T
  BY <1>2, FS_CardinalityType
<1>4. PICK g : UpTo(g, Cardinality(S))
  BY <1>3
<1>5. g = [s \in SUBSET S |-> SumStep(F, g, s)]
  BY <1>1, <1>4
<1>6. QED
  BY <1>5 DEF Solves

\* The sum is what every solution says, on whatever set it solves.
LEMMA SolutionsAgree ==
    ASSUME NEW F, NEW S, NEW R, NEW g, NEW h, Solves(F, S, g), Solves(F, R, h),
           NEW U, IsFiniteSet(U), U \subseteq S, U \subseteq R
    PROVE  g[U] = h[U]
<1> DEFINE Bad == {n \in Nat : \E s \in SUBSET U : Cardinality(s) = n /\ g[s] # h[s]}
<1>1. \A s \in SUBSET U : IsFiniteSet(s) /\ Cardinality(s) \in Nat
  BY FS_Subset, FS_CardinalityType
<1>2. ASSUME Bad # {}
      PROVE  FALSE
  <2>1. PICK m \in Bad : \A n \in Bad : m <= n
    <3> HIDE DEF Bad
    <3>1. Bad \in SUBSET Nat
      BY DEF Bad
    <3>2. QED
      BY <1>2, <3>1, LeastNumber
  <2>2. PICK s \in SUBSET U : Cardinality(s) = m /\ g[s] # h[s]
    BY <2>1
  <2>3. g[s] = SumStep(F, g, s) /\ h[s] = SumStep(F, h, s)
    <3>1. s \in SUBSET S /\ s \in SUBSET R
      OBVIOUS
    <3>2. QED
      BY <3>1, Zenon DEF Solves
  <2>4. s # {}
    BY <2>2, <2>3 DEF SumStep
  <2> DEFINE x == CHOOSE x \in s : TRUE
  <2>5. s \ {x} \in SUBSET U /\ Cardinality(s \ {x}) \in Nat /\ Cardinality(s \ {x}) < m
    <3>1. Cardinality(s \ {x}) = Cardinality(s) - 1 /\ Cardinality(s) \in Nat
      BY <1>1, <2>4, RemoveChosen
    <3>2. s \ {x} \in SUBSET U
      OBVIOUS
    <3> HIDE DEF x
    <3>3. Cardinality(s \ {x}) \in Nat
      BY <1>1, <3>2
    <3>4. QED
      BY <2>2, <3>1, <3>2, <3>3
  <2>6. g[s \ {x}] = h[s \ {x}]
    BY <2>1, <2>5
  <2>7. QED
    BY <2>2, <2>3, <2>4, <2>6 DEF SumStep
<1>3. QED
  BY <1>1, <1>2

LEMMA SumSolves ==
    ASSUME NEW F, NEW S, IsFiniteSet(S)
    PROVE  \E g : Solves(F, S, g) /\ SumFunctionOnSet(F, S) = g[S]
<1> DEFINE it == CHOOSE g : g = [s \in SUBSET S |->
                    IF s = {} THEN 0
                    ELSE LET x == CHOOSE x \in s : TRUE IN F[x] + g[s \ {x}]]
<1>1. SumFunctionOnSet(F, S) = it[S]
  BY DEF SumFunctionOnSet, FoldFunctionOnSet, MapThenFoldSet
<1>2. Solves(F, S, it)
  <2> DEFINE Is(g) == g = [s \in SUBSET S |->
                    IF s = {} THEN 0
                    ELSE LET x == CHOOSE x \in s : TRUE IN F[x] + g[s \ {x}]]
  <2>1. \A g : Solves(F, S, g) <=> Is(g)
    BY Zenon DEF Solves, SumStep
  <2>2. \E g : Is(g)
    <3> HIDE DEF Is, it
    <3>1. QED
      BY <2>1, Solvable
  <2>3. it = CHOOSE g : Is(g)
    OBVIOUS
  <2>4. Is(CHOOSE g : Is(g))
    <3> HIDE DEF Is
    <3>1. QED
      BY <2>2
  <2>5. QED
    BY <2>1, <2>3, <2>4
<1> HIDE DEF it
<1>3. QED
  BY <1>1, <1>2

\* The sum takes one element, the rest is a sum.
LEMMA SumUnfolds ==
    ASSUME NEW F, NEW S, IsFiniteSet(S)
    PROVE  /\ S = {} => SumFunctionOnSet(F, S) = 0
           /\ S # {} => \E x \in S :
                SumFunctionOnSet(F, S) = F[x] + SumFunctionOnSet(F, S \ {x})
<1>1. PICK g : Solves(F, S, g) /\ SumFunctionOnSet(F, S) = g[S]
  BY SumSolves
<1>2. g[S] = SumStep(F, g, S)
  BY <1>1, Zenon DEF Solves
<1>3. CASE S = {}
  BY <1>1, <1>2, <1>3 DEF SumStep
<1>4. CASE S # {}
  <2> DEFINE x == CHOOSE x \in S : TRUE
  <2>1. x \in S /\ IsFiniteSet(S \ {x})
    BY <1>4, RemoveChosen
  <2>2. PICK h : Solves(F, S \ {x}, h) /\ SumFunctionOnSet(F, S \ {x}) = h[S \ {x}]
    BY <2>1, SumSolves
  <2>3. h[S \ {x}] = g[S \ {x}]
    BY <1>1, <2>1, <2>2, SolutionsAgree
  <2>4. g[S] = F[x] + g[S \ {x}]
    BY <1>2, <1>4 DEF SumStep
  <2> HIDE DEF x
  <2>5. QED
    BY <1>1, <2>1, <2>2, <2>3, <2>4
<1>5. QED
  BY <1>3, <1>4

-----------------------------------------------------------------------------
(* Induction over the subsets of a finite set, and what it gives.          *)

\* A family of subsets of a finite set has a member with none below it.
LEMMA MinimalSubset ==
    ASSUME NEW S, IsFiniteSet(S), NEW T, \A U \in T : U \subseteq S, T # {}
    PROVE  \E m \in T : \A n \in T : n \subseteq m => n = m
<1>1. T \subseteq FiniteSubsetsOf(S)
  BY FS_FiniteSubsetsOfFinite
<1>2. PICK m \in T : \A n \in T : ~ (<<n, m>> \in StrictSubsetOrdering(S))
  BY <1>1, FS_StrictSubsetOrderingWellFounded, WFMin
<1>3. QED
  BY <1>2 DEF StrictSubsetOrdering

LEMMA HasLargest ==
    ASSUME NEW S, S \subseteq Nat, IsFiniteSet(S), S # {}
    PROVE  \E m \in S : \A n \in S : n <= m
<1> DEFINE Above(m) == {n \in S : m <= n}
           T == {Above(m) : m \in S}
<1>1. (\A U \in T : U \subseteq S) /\ T # {}
  OBVIOUS
<1> HIDE DEF T
<1>2. \E a \in T : \A b \in T : b \subseteq a => b = a
  BY <1>1, MinimalSubset
<1>3. PICK m \in S : \A b \in T : b \subseteq Above(m) => b = Above(m)
  BY <1>2 DEF T
<1>4. ASSUME NEW n \in S, ~(n <= m)
      PROVE  FALSE
  <2>1. Above(n) \in T
    BY DEF T
  <2>2. Above(n) \subseteq Above(m)
    <3>1. n \in Nat /\ m \in Nat
      OBVIOUS
    <3>2. ASSUME NEW k \in S, n <= k
          PROVE  m <= k
      <4>1. k \in Nat
        OBVIOUS
      <4>2. QED
        BY <1>4, <3>1, <3>2, <4>1
    <3>3. QED
      BY <3>2
  <2>3. m \in Above(m) /\ m \notin Above(n)
    BY <1>4
  <2>4. QED
    BY <1>3, <2>1, <2>2, <2>3
<1>5. QED
  BY <1>4

LEMMA SumEmpty ==
    ASSUME NEW F
    PROVE  SumFunctionOnSet(F, {}) = 0
BY FS_EmptySet, SumUnfolds

\* Sums of integers are integers, sums of naturals naturals.
LEMMA SumType ==
    ASSUME NEW V \in {Int, Nat}, NEW F, NEW S, IsFiniteSet(S), \A x \in S : F[x] \in V
    PROVE  SumFunctionOnSet(F, S) \in V
<1> DEFINE Bad == {U \in SUBSET S : SumFunctionOnSet(F, U) \notin V}
<1>0. 0 \in V
  OBVIOUS
<1>1. ASSUME Bad # {}
      PROVE  FALSE
  <2>1. PICK m \in Bad : \A n \in Bad : n \subseteq m => n = m
    <3>1. \A U \in Bad : U \subseteq S
      OBVIOUS
    <3> HIDE DEF Bad
    <3>2. QED
      BY <1>1, <3>1, MinimalSubset
  <2>2. m # {}
    BY <1>0, <2>1, SumEmpty
  <2>3. IsFiniteSet(m) /\ m \subseteq S
    BY FS_Subset
  <2>4. PICK x \in m : SumFunctionOnSet(F, m) = F[x] + SumFunctionOnSet(F, m \ {x})
    BY <2>2, <2>3, SumUnfolds
  <2>5. m \ {x} \in SUBSET S /\ m \ {x} \notin Bad
    BY <2>1
  <2>6. SumFunctionOnSet(F, m \ {x}) \in V
    BY <2>5
  <2>7. QED
    BY <2>1, <2>3, <2>4, <2>6
<1>2. QED
  BY <1>1

\* Any element may be taken out first.
LEMMA SumRemove ==
    ASSUME NEW F, NEW S, IsFiniteSet(S), \A x \in S : F[x] \in Int, NEW x \in S
    PROVE  SumFunctionOnSet(F, S) = F[x] + SumFunctionOnSet(F, S \ {x})
<1> DEFINE Good(U, y) == SumFunctionOnSet(F, U) = F[y] + SumFunctionOnSet(F, U \ {y})
           Bad == {U \in SUBSET S : \E y \in U : ~Good(U, y)}
<1>1. ASSUME Bad # {}
      PROVE  FALSE
  <2>1. PICK m \in Bad : \A n \in Bad : n \subseteq m => n = m
    <3>1. \A U \in Bad : U \subseteq S
      OBVIOUS
    <3> HIDE DEF Bad
    <3>2. QED
      BY <1>1, <3>1, MinimalSubset
  <2>2. PICK y \in m : ~Good(m, y)
    OBVIOUS
  <2>3. IsFiniteSet(m)
    BY FS_Subset
  <2>4. PICK z \in m : Good(m, z)
    BY <2>3, SumUnfolds
  <2>5. z # y
    BY <2>2, <2>4
  <2>6. m \ {z} \in SUBSET S /\ m \ {y} \in SUBSET S
    OBVIOUS
  <2>7. m \ {z} \notin Bad /\ m \ {y} \notin Bad
    <3> HIDE DEF Bad
    <3>1. QED
      BY <2>1
  <2>8. Good(m \ {z}, y) /\ Good(m \ {y}, z)
    <3> HIDE DEF Good
    <3>1. QED
      BY <2>5, <2>6, <2>7
  <2>9. SumFunctionOnSet(F, (m \ {z}) \ {y}) = SumFunctionOnSet(F, (m \ {y}) \ {z})
    <3>1. (m \ {z}) \ {y} = (m \ {y}) \ {z}
      OBVIOUS
    <3>2. QED
      BY <3>1
  <2>10. SumFunctionOnSet(F, (m \ {y}) \ {z}) \in Int
    <3>1. IsFiniteSet((m \ {y}) \ {z})
      BY FS_Subset
    <3>2. QED
      BY <3>1, SumType
  <2>11. F[y] \in Int /\ F[z] \in Int
    OBVIOUS
  <2>12. QED
    BY <2>2, <2>4, <2>8, <2>9, <2>10, <2>11
<1>2. QED
  BY <1>1

LEMMA SumAdd ==
    ASSUME NEW F, NEW S, IsFiniteSet(S), NEW x, x \notin S,
           \A y \in S \cup {x} : F[y] \in Int
    PROVE  SumFunctionOnSet(F, S \cup {x}) = F[x] + SumFunctionOnSet(F, S)
<1>1. (S \cup {x}) \ {x} = S
  OBVIOUS
<1>2. IsFiniteSet(S \cup {x})
  BY FS_AddElement
<1>3. SumFunctionOnSet(F, S \cup {x}) = F[x] + SumFunctionOnSet(F, (S \cup {x}) \ {x})
  BY <1>2, SumRemove
<1>4. QED
  BY <1>1, <1>3

LEMMA SumEqual ==
    ASSUME NEW F, NEW G, NEW S, IsFiniteSet(S),
           \A x \in S : F[x] \in Int /\ G[x] = F[x]
    PROVE  SumFunctionOnSet(G, S) = SumFunctionOnSet(F, S)
<1> DEFINE Bad == {U \in SUBSET S : SumFunctionOnSet(G, U) # SumFunctionOnSet(F, U)}
<1>1. ASSUME Bad # {}
      PROVE  FALSE
  <2>1. PICK m \in Bad : \A n \in Bad : n \subseteq m => n = m
    <3>1. \A U \in Bad : U \subseteq S
      OBVIOUS
    <3> HIDE DEF Bad
    <3>2. QED
      BY <1>1, <3>1, MinimalSubset
  <2>2. m # {}
    BY <2>1, SumEmpty
  <2>3. IsFiniteSet(m) /\ m \subseteq S
    BY FS_Subset
  <2>4. PICK x \in m : SumFunctionOnSet(F, m) = F[x] + SumFunctionOnSet(F, m \ {x})
    BY <2>2, <2>3, SumUnfolds
  <2>5. SumFunctionOnSet(G, m) = G[x] + SumFunctionOnSet(G, m \ {x})
    <3>1. \A y \in m : G[y] \in Int
      OBVIOUS
    <3>2. QED
      BY <2>3, <3>1, SumRemove
  <2>6. m \ {x} \in SUBSET S /\ m \ {x} \notin Bad
    BY <2>1
  <2>7. G[x] = F[x] /\ SumFunctionOnSet(G, m \ {x}) = SumFunctionOnSet(F, m \ {x})
    BY <2>3, <2>6
  <2>8. QED
    BY <2>1, <2>4, <2>5, <2>7
<1>2. QED
  BY <1>1

\* Changing one summand changes the sum by as much.
LEMMA SumChange ==
    ASSUME NEW F, NEW G, NEW S, IsFiniteSet(S), NEW x \in S,
           \A y \in S : F[y] \in Int, G[x] \in Int,
           \A y \in S \ {x} : G[y] = F[y]
    PROVE  SumFunctionOnSet(G, S) = SumFunctionOnSet(F, S) + (G[x] - F[x])
<1>1. IsFiniteSet(S \ {x})
  BY FS_Subset
<1>2. SumFunctionOnSet(G, S \ {x}) = SumFunctionOnSet(F, S \ {x})
  BY <1>1, SumEqual
<1>3. SumFunctionOnSet(F, S \ {x}) \in Int
  BY <1>1, SumType
<1>4. SumFunctionOnSet(F, S) = F[x] + SumFunctionOnSet(F, S \ {x})
  BY SumRemove
<1>5. SumFunctionOnSet(G, S) = G[x] + SumFunctionOnSet(G, S \ {x})
  <2>1. \A y \in S : G[y] \in Int
    OBVIOUS
  <2>2. QED
    BY <2>1, SumRemove
<1>6. QED
  BY <1>2, <1>3, <1>4, <1>5

LEMMA SumZero ==
    ASSUME NEW F, NEW S, IsFiniteSet(S), \A x \in S : F[x] = 0
    PROVE  SumFunctionOnSet(F, S) = 0
<1> DEFINE Bad == {U \in SUBSET S : SumFunctionOnSet(F, U) # 0}
<1>1. ASSUME Bad # {}
      PROVE  FALSE
  <2>1. PICK m \in Bad : \A n \in Bad : n \subseteq m => n = m
    <3>1. \A U \in Bad : U \subseteq S
      OBVIOUS
    <3> HIDE DEF Bad
    <3>2. QED
      BY <1>1, <3>1, MinimalSubset
  <2>2. m # {}
    BY <2>1, SumEmpty
  <2>3. IsFiniteSet(m) /\ m \subseteq S
    BY FS_Subset
  <2>4. PICK x \in m : SumFunctionOnSet(F, m) = F[x] + SumFunctionOnSet(F, m \ {x})
    BY <2>2, <2>3, SumUnfolds
  <2>5. m \ {x} \in SUBSET S /\ m \ {x} \notin Bad
    BY <2>1
  <2>6. SumFunctionOnSet(F, m \ {x}) = 0
    BY <2>5
  <2>7. QED
    BY <2>1, <2>3, <2>4, <2>6
<1>2. QED
  BY <1>1

\* Sums are taken summand by summand.
LEMMA SumPlus ==
    ASSUME NEW F, NEW G, NEW H, NEW S, IsFiniteSet(S),
           \A x \in S : F[x] \in Int /\ G[x] \in Int /\ H[x] = F[x] + G[x]
    PROVE  SumFunctionOnSet(H, S) = SumFunctionOnSet(F, S) + SumFunctionOnSet(G, S)
<1> DEFINE Bad == {U \in SUBSET S : SumFunctionOnSet(H, U)
                                      # SumFunctionOnSet(F, U) + SumFunctionOnSet(G, U)}
<1>1. ASSUME Bad # {}
      PROVE  FALSE
  <2>1. PICK m \in Bad : \A n \in Bad : n \subseteq m => n = m
    <3>1. \A U \in Bad : U \subseteq S
      OBVIOUS
    <3> HIDE DEF Bad
    <3>2. QED
      BY <1>1, <3>1, MinimalSubset
  <2>2. m # {}
    <3>1. \A K : SumFunctionOnSet(K, {}) = 0
      BY SumEmpty
    <3>2. m = {} => /\ SumFunctionOnSet(H, m) = 0
                    /\ SumFunctionOnSet(F, m) = 0 /\ SumFunctionOnSet(G, m) = 0
      BY <3>1
    <3>3. SumFunctionOnSet(H, m) # SumFunctionOnSet(F, m) + SumFunctionOnSet(G, m)
      BY <2>1
    <3> HIDE DEF Bad
    <3>4. QED
      BY <3>2, <3>3
  <2>3. IsFiniteSet(m) /\ m \subseteq S
    BY FS_Subset
  <2>4. PICK x \in m : TRUE
    BY <2>2
  <2>5. \A y \in m : F[y] \in Int /\ G[y] \in Int /\ H[y] \in Int
    OBVIOUS
  <2>6. /\ SumFunctionOnSet(F, m) = F[x] + SumFunctionOnSet(F, m \ {x})
        /\ SumFunctionOnSet(G, m) = G[x] + SumFunctionOnSet(G, m \ {x})
        /\ SumFunctionOnSet(H, m) = H[x] + SumFunctionOnSet(H, m \ {x})
    BY <2>3, <2>5, SumRemove
  <2>7. m \ {x} \in SUBSET S /\ m \ {x} \notin Bad
    BY <2>1
  <2>8. SumFunctionOnSet(H, m \ {x})
            = SumFunctionOnSet(F, m \ {x}) + SumFunctionOnSet(G, m \ {x})
    BY <2>7
  <2>9. SumFunctionOnSet(F, m \ {x}) \in Int /\ SumFunctionOnSet(G, m \ {x}) \in Int
    <3>1. IsFiniteSet(m \ {x})
      BY <2>3, FS_Subset
    <3>2. QED
      BY <2>5, <3>1, SumType
  <2>10. H[x] = F[x] + G[x] /\ F[x] \in Int /\ G[x] \in Int
    BY <2>3
  <2>11. QED
    BY <2>1, <2>6, <2>8, <2>9, <2>10
<1>2. QED
  BY <1>1

\* A table adds up to the same by rows and by columns.
LEMMA SumSwap ==
    ASSUME NEW E, IsFiniteSet(E), NEW L, IsFiniteSet(L), NEW F,
           \A e \in E : \A l \in L : F[e][l] \in Int
    PROVE  SumFunctionOnSet([e \in E |-> SumFunctionOnSet(F[e], L)], E)
               = SumFunctionOnSet([l \in L |-> SumFunctionOnSet([e \in E |-> F[e][l]], E)], L)
<1> DEFINE Row == [e \in E |-> SumFunctionOnSet(F[e], L)]
           Column(l) == [e \in E |-> F[e][l]]
           Columns(U) == [l \in L |-> SumFunctionOnSet(Column(l), U)]
           Bad == {U \in SUBSET E : SumFunctionOnSet(Row, U) # SumFunctionOnSet(Columns(U), L)}
<1>1. /\ \A e \in E : Row[e] = SumFunctionOnSet(F[e], L)
      /\ \A l \in L : \A e \in E : Column(l)[e] = F[e][l]
      /\ \A U : \A l \in L : Columns(U)[l] = SumFunctionOnSet(Column(l), U)
  OBVIOUS
<1>2. \A e \in E : Row[e] \in Int
  BY <1>1, SumType
<1> HIDE DEF Row, Column
<1>3. ASSUME NEW U, U \subseteq E, NEW l \in L
      PROVE  Columns(U)[l] \in Int
  <2>1. IsFiniteSet(U) /\ \A e \in U : Column(l)[e] \in Int
    BY <1>1, <1>3, FS_Subset
  <2>2. SumFunctionOnSet(Column(l), U) \in Int
    BY <2>1, SumType
  <2>3. QED
    BY <1>1, <2>2
<1> HIDE DEF Columns
<1>4. ASSUME Bad # {}
      PROVE  FALSE
  <2>1. PICK m \in Bad : \A n \in Bad : n \subseteq m => n = m
    <3>1. \A U \in Bad : U \subseteq E
      OBVIOUS
    <3> HIDE DEF Bad
    <3>2. QED
      BY <1>4, <3>1, MinimalSubset
  <2>2. m \subseteq E /\ IsFiniteSet(m) /\ SumFunctionOnSet(Row, m) # SumFunctionOnSet(Columns(m), L)
    BY FS_Subset
  <2>3. m # {}
    <3>1. SumFunctionOnSet(Row, {}) = 0
      BY SumEmpty
    <3>2. \A l \in L : Columns({})[l] = 0
      BY <1>1, SumEmpty
    <3>3. SumFunctionOnSet(Columns({}), L) = 0
      BY <3>2, SumZero
    <3> HIDE DEF Bad
    <3>4. QED
      BY <2>2, <3>1, <3>3
  <2>4. PICK x \in m : TRUE
    BY <2>3
  <2> DEFINE n == m \ {x}
  <2>5. n \in SUBSET E /\ n \notin Bad /\ IsFiniteSet(n)
    BY <2>1, <2>2, FS_Subset
  <2>6. SumFunctionOnSet(Row, n) = SumFunctionOnSet(Columns(n), L)
    BY <2>5
  <2>7. SumFunctionOnSet(Row, m) = Row[x] + SumFunctionOnSet(Row, n)
    BY <1>2, <2>2, SumRemove
  <2>8. ASSUME NEW l \in L
        PROVE  Columns(m)[l] = F[x][l] + Columns(n)[l]
    <3>1. \A e \in m : Column(l)[e] \in Int
      BY <1>1, <2>2
    <3>2. SumFunctionOnSet(Column(l), m) = Column(l)[x] + SumFunctionOnSet(Column(l), n)
      BY <2>2, <3>1, SumRemove
    <3>3. x \in E
      BY <2>2
    <3> HIDE DEF n
    <3>4. QED
      BY <1>1, <3>2, <3>3
  <2> HIDE DEF n, Bad
  <2>9. x \in E
    BY <2>2
  <2> DEFINE A == F[x]
             B == Columns(n)
             C == Columns(m)
  <2>10. \A l \in L : A[l] \in Int /\ B[l] \in Int /\ C[l] = A[l] + B[l]
    BY <1>3, <2>5, <2>8, <2>9
  <2>11. Row[x] = SumFunctionOnSet(A, L)
    BY <1>1, <2>9
  <2> HIDE DEF A, B, C
  <2>12. SumFunctionOnSet(C, L) = SumFunctionOnSet(A, L) + SumFunctionOnSet(B, L)
    BY <2>10, SumPlus
  <2>13. QED
    BY <2>2, <2>6, <2>7, <2>11, <2>12 DEF B, C
<1>5. SumFunctionOnSet(Row, E) = SumFunctionOnSet(Columns(E), L)
  BY <1>4
<1>6. QED
  BY <1>5 DEF Row, Column, Columns

\* What counts for nothing may be left out.
LEMMA SumWhere ==
    ASSUME NEW F, NEW S, IsFiniteSet(S), \A x \in S : F[x] \in Int,
           NEW T, T \subseteq S, \A x \in S \ T : F[x] = 0
    PROVE  SumFunctionOnSet(F, S) = SumFunctionOnSet(F, T)
<1> DEFINE R == S \ T
           Bad == {U \in SUBSET R : SumFunctionOnSet(F, T \cup U) # SumFunctionOnSet(F, T)}
<1>1. IsFiniteSet(R) /\ IsFiniteSet(T)
  BY FS_Subset
<1>2. ASSUME Bad # {}
      PROVE  FALSE
  <2>1. PICK m \in Bad : \A n \in Bad : n \subseteq m => n = m
    <3>1. \A U \in Bad : U \subseteq R
      OBVIOUS
    <3> HIDE DEF Bad, R
    <3>2. QED
      BY <1>1, <1>2, <3>1, MinimalSubset
  <2>2. m \subseteq R /\ m # {} /\ SumFunctionOnSet(F, T \cup m) # SumFunctionOnSet(F, T)
    <3>1. T \cup {} = T
      OBVIOUS
    <3>2. QED
      BY <3>1
  <2>3. PICK x \in m : TRUE
    BY <2>2
  <2> DEFINE n == m \ {x}
             V == T \cup m
  <2>4. n \in SUBSET R /\ n \notin Bad
    BY <2>1
  <2>5. SumFunctionOnSet(F, T \cup n) = SumFunctionOnSet(F, T)
    BY <2>4
  <2>6. IsFiniteSet(V) /\ V \subseteq S /\ x \in V /\ V \ {x} = T \cup n /\ F[x] = 0
    BY <2>2, FS_Subset
  <2>7. IsFiniteSet(T \cup n) /\ T \cup n \subseteq S
    BY <2>6, FS_Subset
  <2> HIDE DEF V, n
  <2>8. SumFunctionOnSet(F, V) = F[x] + SumFunctionOnSet(F, V \ {x})
    BY <2>6, SumRemove
  <2>9. SumFunctionOnSet(F, T \cup n) \in Int
    BY <2>7, SumType
  <2>10. SumFunctionOnSet(F, V) = 0 + SumFunctionOnSet(F, T)
    BY <2>5, <2>6, <2>8
  <2>11. SumFunctionOnSet(F, V) = SumFunctionOnSet(F, T)
    BY <2>5, <2>9, <2>10
  <2>12. QED
    BY <2>2, <2>11 DEF V
<1>3. {} \in SUBSET R /\ R \in SUBSET R /\ T \cup R = S
  OBVIOUS
<1>4. SumFunctionOnSet(F, T \cup R) = SumFunctionOnSet(F, T)
  BY <1>2
<1>5. QED
  BY <1>3, <1>4

\* The members of a set and the others.
LEMMA SumSplit ==
    ASSUME NEW F, NEW S, IsFiniteSet(S), \A x \in S : F[x] \in Int, NEW T, T \subseteq S
    PROVE  /\ SumFunctionOnSet(F, T) \in Int /\ SumFunctionOnSet(F, S \ T) \in Int
           /\ SumFunctionOnSet(F, S) = SumFunctionOnSet(F, T) + SumFunctionOnSet(F, S \ T)
<1> DEFINE G == [x \in S |-> IF x \in T THEN F[x] ELSE 0]
           H == [x \in S |-> IF x \in T THEN 0 ELSE F[x]]
           U == S \ T
<1>1. /\ \A x \in S : G[x] \in Int /\ H[x] \in Int /\ F[x] = G[x] + H[x]
      /\ \A x \in U : G[x] = 0 /\ H[x] = F[x] /\ F[x] \in Int
      /\ \A x \in S \ U : H[x] = 0
      /\ \A x \in T : G[x] = F[x] /\ F[x] \in Int
  OBVIOUS
<1>2. IsFiniteSet(T) /\ IsFiniteSet(U) /\ U \subseteq S
  BY FS_Subset
<1> HIDE DEF G, H
<1>3. SumFunctionOnSet(F, S) = SumFunctionOnSet(G, S) + SumFunctionOnSet(H, S)
  BY <1>1, SumPlus
<1>4. SumFunctionOnSet(G, S) = SumFunctionOnSet(G, T)
  BY <1>1, SumWhere
<1>5. SumFunctionOnSet(G, T) = SumFunctionOnSet(F, T)
  BY <1>1, <1>2, SumEqual
<1> HIDE DEF U
<1>6. SumFunctionOnSet(H, S) = SumFunctionOnSet(H, U)
  BY <1>1, <1>2, SumWhere
<1>7. SumFunctionOnSet(H, U) = SumFunctionOnSet(F, U)
  BY <1>1, <1>2, SumEqual
<1>8. SumFunctionOnSet(F, T) \in Int /\ SumFunctionOnSet(F, U) \in Int
  BY <1>1, <1>2, SumType
<1>9. QED
  BY <1>3, <1>4, <1>5, <1>6, <1>7, <1>8 DEF U

LEMMA SumOfOne ==
    ASSUME NEW F, NEW x, F[x] \in Int
    PROVE  SumFunctionOnSet(F, {x}) = F[x]
<1>1. IsFiniteSet({x}) /\ {x} \ {x} = {}
  BY FS_Singleton
<1>2. SumFunctionOnSet(F, {x}) = F[x] + SumFunctionOnSet(F, {x} \ {x})
  BY <1>1, SumRemove
<1>3. QED
  BY <1>1, <1>2, SumEmpty

\* The parts of a partition, those g maps to one value each, add up to the
\* whole.
PartsOf(S, g) == {g[x] : x \in S}
PartOf(S, g, b) == {x \in S : g[x] = b}

LEMMA SumPartition ==
    ASSUME NEW F, NEW S, IsFiniteSet(S), \A x \in S : F[x] \in Int, NEW g
    PROVE  SumFunctionOnSet([b \in PartsOf(S, g) |-> SumFunctionOnSet(F, PartOf(S, g, b))],
                            PartsOf(S, g))
               = SumFunctionOnSet(F, S)
<1> DEFINE B == PartsOf(S, g)
           M == [b \in B |-> [x \in S |-> IF g[x] = b THEN F[x] ELSE 0]]
           Row == [b \in B |-> SumFunctionOnSet(M[b], S)]
           Column == [x \in S |-> SumFunctionOnSet([b \in B |-> M[b][x]], B)]
           Parts == [b \in B |-> SumFunctionOnSet(F, PartOf(S, g, b))]
<1>1. IsFiniteSet(B)
  <2> DEFINE h == [x \in S |-> g[x]]
  <2>1. h \in [S -> B] /\ \A b \in B : \E x \in S : h[x] = b
    BY DEF PartsOf
  <2> HIDE DEF h, B
  <2>2. h \in Surjection(S, B)
    BY <2>1 DEF Surjection
  <2>3. QED
    BY <2>2, FS_Surjection
<1>2. \A b \in B : \A x \in S : M[b][x] \in Int
  OBVIOUS
<1>3. SumFunctionOnSet(Row, B) = SumFunctionOnSet(Column, S)
  <2> HIDE DEF M, B
  <2>1. QED
    BY <1>1, <1>2, SumSwap
<1>4. ASSUME NEW b \in B
      PROVE  Row[b] = Parts[b] /\ Parts[b] \in Int
  <2> DEFINE T == PartOf(S, g, b)
             N == M[b]
  <2>1. T \subseteq S /\ IsFiniteSet(T)
    BY FS_Subset DEF PartOf
  <2>2. /\ \A x \in S : N[x] \in Int
        /\ \A x \in S \ T : N[x] = 0
        /\ \A x \in T : F[x] \in Int /\ N[x] = F[x]
    BY DEF PartOf
  <2>3. Row[b] = SumFunctionOnSet(N, S) /\ Parts[b] = SumFunctionOnSet(F, T)
    OBVIOUS
  <2> HIDE DEF N, T, Row, Parts
  <2>4. SumFunctionOnSet(N, S) = SumFunctionOnSet(N, T)
    BY <2>1, <2>2, SumWhere
  <2>5. SumFunctionOnSet(N, T) = SumFunctionOnSet(F, T)
    BY <2>1, <2>2, SumEqual
  <2>6. SumFunctionOnSet(F, T) \in Int
    BY <2>1, <2>2, SumType
  <2>7. QED
    BY <2>3, <2>4, <2>5, <2>6
<1>5. ASSUME NEW x \in S
      PROVE  Column[x] = F[x]
  <2> DEFINE N == [b \in B |-> M[b][x]]
             c == g[x]
  <2>1. /\ c \in B
        /\ \A b \in B : N[b] \in Int
        /\ \A b \in B \ {c} : N[b] = 0
        /\ N[c] = F[x]
    BY DEF PartsOf
  <2>2. Column[x] = SumFunctionOnSet(N, B)
    OBVIOUS
  <2> HIDE DEF N, B, Column, c
  <2>3. SumFunctionOnSet(N, B) = SumFunctionOnSet(N, {c})
    <3>1. {c} \subseteq B
      BY <2>1
    <3>2. QED
      BY <1>1, <2>1, <3>1, SumWhere
  <2>4. SumFunctionOnSet(N, {c}) = N[c]
    BY <2>1, SumOfOne
  <2>5. QED
    BY <2>1, <2>2, <2>3, <2>4
<1> HIDE DEF Row, Column, Parts, M
<1>6. SumFunctionOnSet(Row, B) = SumFunctionOnSet(Parts, B)
  <2> HIDE DEF B
  <2>1. QED
    BY <1>1, <1>4, SumEqual
<1>7. SumFunctionOnSet(Column, S) = SumFunctionOnSet(F, S)
  BY <1>5, SumEqual
<1>8. QED
  BY <1>3, <1>6, <1>7 DEF Parts

-----------------------------------------------------------------------------
(* Units of order lines.  A work list or a payload is a sequence of items, *)
(* each a number of units of a line.                                       *)

\* What the items of w at the positions D take of line l, and what the events
\* E, with payloads s, take of it together.
OfLine(w, D, l) == {k \in D : w[k].line = l}
Taken(w, D, l) == SumFunctionOnSet([k \in OfLine(w, D, l) |-> w[k].qty], OfLine(w, D, l))
EventSum(s, E, l) == SumFunctionOnSet([e \in E |-> Taken(s[e], DOMAIN s[e], l)], E)

\* What F says of the members of S that g maps to p.
MappedTo(S, g, p) == {l \in S : g[l] = p}
GroupSum(F, S, g, p) ==
    SumFunctionOnSet([l \in MappedTo(S, g, p) |-> F[l]], MappedTo(S, g, p))

CountsUnits(I) == \A i \in I : i.qty \in Int

LEMMA UnitsTaken ==
    ASSUME NEW I, CountsUnits(I), NEW w \in Seq(I), NEW D, D \subseteq 1 .. Len(w), NEW l
    PROVE  /\ IsFiniteSet(OfLine(w, D, l))
           /\ \A k \in OfLine(w, D, l) : w[k].qty \in Int
           /\ Taken(w, D, l) \in Int
<1> DEFINE K == OfLine(w, D, l)
           F == [k \in K |-> w[k].qty]
<1>1. IsFiniteSet(1 .. Len(w)) /\ K \subseteq 1 .. Len(w)
  <2>1. Len(w) \in Nat
    BY LenProperties
  <2>2. IsFiniteSet(1 .. Len(w))
    BY <2>1, FS_Interval
  <2>3. QED
    BY <2>2 DEF OfLine
<1>2. IsFiniteSet(K)
  BY <1>1, FS_Subset
<1>3. \A k \in K : w[k].qty \in Int
  <2>1. \A k \in K : w[k] \in I
    BY <1>1, ElementOfSeq
  <2>2. QED
    BY <2>1 DEF CountsUnits
<1>4. \A k \in K : F[k] \in Int
  BY <1>3
<1> HIDE DEF F, K
<1>5. SumFunctionOnSet(F, K) \in Int
  BY <1>2, <1>4, SumType
<1>6. QED
  BY <1>2, <1>3, <1>5 DEF Taken, F, K

LEMMA NoneTaken ==
    ASSUME NEW w, NEW D, NEW l, \A k \in D : w[k].line # l
    PROVE  Taken(w, D, l) = 0
<1>1. OfLine(w, D, l) = {}
  BY DEF OfLine
<1>2. QED
  BY <1>1, SumEmpty DEF Taken

LEMMA NextTaken ==
    ASSUME NEW I, CountsUnits(I), NEW w \in Seq(I), NEW n \in Nat \ {0}, n <= Len(w), NEW l
    PROVE  Taken(w, 1 .. n, l)
               = Taken(w, 1 .. (n - 1), l) + (IF w[n].line = l THEN w[n].qty ELSE 0)
<1> DEFINE A == OfLine(w, 1 .. (n - 1), l)
           B == OfLine(w, 1 .. n, l)
           G == [k \in A |-> w[k].qty]
           H == [k \in B |-> w[k].qty]
<1>1. /\ Taken(w, 1 .. n, l) = SumFunctionOnSet(H, B)
      /\ Taken(w, 1 .. (n - 1), l) = SumFunctionOnSet(G, A)
  BY DEF Taken
<1>2. /\ Len(w) \in Nat /\ 1 .. n = (1 .. (n - 1)) \cup {n} /\ n \notin 1 .. (n - 1)
      /\ 1 .. n \subseteq 1 .. Len(w) /\ 1 .. (n - 1) \subseteq 1 .. Len(w)
  BY LenProperties
<1>3. /\ IsFiniteSet(A) /\ A \subseteq B
      /\ \A k \in B : w[k].qty \in Int
      /\ Taken(w, 1 .. (n - 1), l) \in Int
  <2>1. IsFiniteSet(A) /\ Taken(w, 1 .. (n - 1), l) \in Int
    BY <1>2, UnitsTaken
  <2>2. \A k \in B : w[k].qty \in Int
    BY <1>2, UnitsTaken
  <2>3. A \subseteq B
    BY <1>2 DEF OfLine
  <2>4. QED
    BY <2>1, <2>2, <2>3
<1>4. \A k \in A : H[k] \in Int /\ G[k] = H[k]
  BY <1>3
<1>5. CASE w[n].line = l
  <2>1. B = A \cup {n} /\ n \notin A
    BY <1>2, <1>5 DEF OfLine
  <2>2. H[n] = w[n].qty /\ w[n].qty \in Int
    BY <1>3, <2>1
  <2> HIDE DEF A, B, G, H
  <2>3. SumFunctionOnSet(H, A \cup {n}) = H[n] + SumFunctionOnSet(H, A)
    BY <1>3, <1>4, <2>1, <2>2, SumAdd
  <2>4. SumFunctionOnSet(G, A) = SumFunctionOnSet(H, A)
    BY <1>3, <1>4, SumEqual
  <2>5. QED
    BY <1>1, <1>3, <1>5, <2>1, <2>2, <2>3, <2>4
<1>6. CASE w[n].line # l
  <2>1. B = A
    BY <1>2, <1>6 DEF OfLine
  <2>2. H = G
    BY <2>1
  <2> HIDE DEF A, B, G, H
  <2>3. QED
    BY <1>1, <1>3, <1>6, <2>1, <2>2
<1>7. QED
  BY <1>5, <1>6

\* A payload takes a number of units, and none before it is there.
LEMMA PayloadTakes ==
    ASSUME NEW I, CountsUnits(I), NEW w \in Seq(I), NEW l
    PROVE  /\ Taken(w, DOMAIN w, l) \in Int
           /\ w = <<>> => Taken(w, DOMAIN w, l) = 0
<1>1. DOMAIN w = 1 .. Len(w)
  BY LenProperties
<1>2. Taken(w, DOMAIN w, l) \in Int
  BY <1>1, UnitsTaken
<1>3. w = <<>> => DOMAIN w = {}
  BY <1>1, EmptySeq
<1>4. w = <<>> => \A k \in DOMAIN w : w[k].line # l
  BY <1>3
<1>5. QED
  BY <1>2, <1>4, NoneTaken

LEMMA SameEvents ==
    ASSUME NEW s, NEW r, NEW E, IsFiniteSet(E), NEW l,
           \A e \in E : r[e] = s[e] /\ Taken(s[e], DOMAIN s[e], l) \in Int
    PROVE  EventSum(r, E, l) = EventSum(s, E, l)
<1> DEFINE F == [e \in E |-> Taken(s[e], DOMAIN s[e], l)]
           G == [e \in E |-> Taken(r[e], DOMAIN r[e], l)]
<1>1. EventSum(s, E, l) = SumFunctionOnSet(F, E) /\ EventSum(r, E, l) = SumFunctionOnSet(G, E)
  BY DEF EventSum
<1>2. \A e \in E : F[e] \in Int /\ G[e] = F[e]
  OBVIOUS
<1> HIDE DEF F, G
<1>3. QED
  BY <1>1, <1>2, SumEqual

LEMMA OneMoreEvent ==
    ASSUME NEW s, NEW E, IsFiniteSet(E), NEW x, x \notin E, NEW l,
           \A e \in E \cup {x} : Taken(s[e], DOMAIN s[e], l) \in Int
    PROVE  EventSum(s, E \cup {x}, l) = EventSum(s, E, l) + Taken(s[x], DOMAIN s[x], l)
<1> DEFINE D == E \cup {x}
           F == [e \in E |-> Taken(s[e], DOMAIN s[e], l)]
           G == [e \in D |-> Taken(s[e], DOMAIN s[e], l)]
<1>1. EventSum(s, E, l) = SumFunctionOnSet(F, E) /\ EventSum(s, D, l) = SumFunctionOnSet(G, D)
  BY DEF EventSum
<1>2. /\ \A e \in E : G[e] \in Int /\ F[e] = G[e]
      /\ \A e \in D : G[e] \in Int
      /\ G[x] = Taken(s[x], DOMAIN s[x], l) /\ G[x] \in Int
  OBVIOUS
<1>3. D = E \cup {x}
  OBVIOUS
<1> HIDE DEF F, G, D
<1>4. SumFunctionOnSet(G, E \cup {x}) = G[x] + SumFunctionOnSet(G, E)
  BY <1>2, <1>3, SumAdd
<1>5. SumFunctionOnSet(F, E) = SumFunctionOnSet(G, E)
  BY <1>2, SumEqual
<1>6. SumFunctionOnSet(G, E) \in Int
  BY <1>2, SumType
<1>7. QED
  BY <1>1, <1>2, <1>3, <1>4, <1>5, <1>6

LEMMA ChangedEvent ==
    ASSUME NEW s, NEW r, NEW E, IsFiniteSet(E), NEW x \in E, NEW l,
           \A e \in E : /\ e # x => r[e] = s[e]
                       /\ Taken(s[e], DOMAIN s[e], l) \in Int
                       /\ Taken(r[e], DOMAIN r[e], l) \in Int
    PROVE  /\ EventSum(s, E, l) \in Int
           /\ EventSum(r, E, l) = EventSum(s, E, l)
                   + (Taken(r[x], DOMAIN r[x], l) - Taken(s[x], DOMAIN s[x], l))
<1> DEFINE F == [e \in E |-> Taken(s[e], DOMAIN s[e], l)]
           G == [e \in E |-> Taken(r[e], DOMAIN r[e], l)]
<1>1. EventSum(s, E, l) = SumFunctionOnSet(F, E) /\ EventSum(r, E, l) = SumFunctionOnSet(G, E)
  BY DEF EventSum
<1>2. /\ \A e \in E : F[e] \in Int /\ G[e] \in Int
      /\ \A e \in E \ {x} : G[e] = F[e]
      /\ F[x] = Taken(s[x], DOMAIN s[x], l) /\ G[x] = Taken(r[x], DOMAIN r[x], l)
  OBVIOUS
<1> HIDE DEF F, G
<1>3. SumFunctionOnSet(G, E) = SumFunctionOnSet(F, E) + (G[x] - F[x])
  BY <1>2, SumChange
<1>4. SumFunctionOnSet(F, E) \in Int
  BY <1>2, SumType
<1>5. QED
  BY <1>1, <1>2, <1>3, <1>4

LEMMA GroupType ==
    ASSUME NEW S, IsFiniteSet(S), NEW F \in [S -> Int], NEW g, NEW p
    PROVE  GroupSum(F, S, g, p) \in Int
<1> DEFINE L == MappedTo(S, g, p)
           G == [l \in L |-> F[l]]
<1>1. GroupSum(F, S, g, p) = SumFunctionOnSet(G, L)
  BY DEF GroupSum
<1>2. IsFiniteSet(L) /\ L \subseteq S
  BY FS_Subset DEF MappedTo
<1>3. \A l \in L : G[l] \in Int
  BY <1>2
<1> HIDE DEF G, L
<1>4. QED
  BY <1>1, <1>2, <1>3, SumType

LEMMA SameGroup ==
    ASSUME NEW S, IsFiniteSet(S), NEW F \in [S -> Int], NEW E \in [S -> Int],
           NEW g, NEW p, \A l \in S : g[l] = p => E[l] = F[l]
    PROVE  GroupSum(E, S, g, p) = GroupSum(F, S, g, p)
<1> DEFINE L == MappedTo(S, g, p)
           G == [l \in L |-> F[l]]
           H == [l \in L |-> E[l]]
<1>1. GroupSum(F, S, g, p) = SumFunctionOnSet(G, L) /\ GroupSum(E, S, g, p) = SumFunctionOnSet(H, L)
  BY DEF GroupSum
<1>2. IsFiniteSet(L) /\ L \subseteq S
  BY FS_Subset DEF MappedTo
<1>3. \A l \in L : G[l] \in Int /\ H[l] = G[l]
  BY <1>2 DEF MappedTo
<1> HIDE DEF G, H, L
<1>4. QED
  BY <1>1, <1>2, <1>3, SumEqual

LEMMA ChangedGroup ==
    ASSUME NEW S, IsFiniteSet(S), NEW F \in [S -> Int], NEW E \in [S -> Int],
           NEW g, NEW x \in S, \A l \in S : l # x => E[l] = F[l]
    PROVE  GroupSum(E, S, g, g[x]) = GroupSum(F, S, g, g[x]) + (E[x] - F[x])
<1> DEFINE L == MappedTo(S, g, g[x])
           G == [l \in L |-> F[l]]
           H == [l \in L |-> E[l]]
<1>1. /\ GroupSum(F, S, g, g[x]) = SumFunctionOnSet(G, L)
      /\ GroupSum(E, S, g, g[x]) = SumFunctionOnSet(H, L)
  BY DEF GroupSum
<1>2. IsFiniteSet(L) /\ L \subseteq S /\ x \in L
  BY FS_Subset DEF MappedTo
<1>3. /\ G[x] = F[x] /\ H[x] = E[x] /\ H[x] \in Int
      /\ \A l \in L : G[l] \in Int
      /\ \A l \in L \ {x} : H[l] = G[l]
  BY <1>2
<1> HIDE DEF G, H, L
<1>4. SumFunctionOnSet(H, L) = SumFunctionOnSet(G, L) + (H[x] - G[x])
  BY <1>2, <1>3, SumChange
<1>5. QED
  BY <1>1, <1>3, <1>4

LEMMA GroupPlus ==
    ASSUME NEW S, IsFiniteSet(S), NEW F \in [S -> Int], NEW E \in [S -> Int],
           NEW D \in [S -> Int], NEW g, NEW p, \A l \in S : D[l] = F[l] + E[l]
    PROVE  GroupSum(D, S, g, p) = GroupSum(F, S, g, p) + GroupSum(E, S, g, p)
<1> DEFINE L == MappedTo(S, g, p)
           G == [l \in L |-> F[l]]
           H == [l \in L |-> E[l]]
           K == [l \in L |-> D[l]]
<1>1. /\ GroupSum(F, S, g, p) = SumFunctionOnSet(G, L)
      /\ GroupSum(E, S, g, p) = SumFunctionOnSet(H, L)
      /\ GroupSum(D, S, g, p) = SumFunctionOnSet(K, L)
  BY DEF GroupSum
<1>2. IsFiniteSet(L) /\ L \subseteq S
  BY FS_Subset DEF MappedTo
<1>3. \A l \in L : G[l] \in Int /\ H[l] \in Int /\ K[l] = G[l] + H[l]
  BY <1>2
<1> HIDE DEF G, H, K, L
<1>4. SumFunctionOnSet(K, L) = SumFunctionOnSet(G, L) + SumFunctionOnSet(H, L)
  BY <1>2, <1>3, SumPlus
<1>5. QED
  BY <1>1, <1>4

LEMMA GroupOfNone ==
    ASSUME NEW S, IsFiniteSet(S), NEW F, NEW g, NEW p, \A l \in S : F[l] = 0
    PROVE  GroupSum(F, S, g, p) = 0
<1> DEFINE L == MappedTo(S, g, p)
           G == [l \in L |-> F[l]]
<1>1. GroupSum(F, S, g, p) = SumFunctionOnSet(G, L)
  BY DEF GroupSum
<1>2. IsFiniteSet(L) /\ \A l \in L : G[l] = 0
  BY FS_Subset DEF MappedTo
<1> HIDE DEF G, L
<1>3. QED
  BY <1>1, <1>2, SumZero

-----------------------------------------------------------------------------
(* Counts.                                                                 *)

\* The members of a set and the others.
LEMMA CountSplit ==
    ASSUME NEW S, IsFiniteSet(S), NEW T, T \subseteq S
    PROVE  /\ IsFiniteSet(T) /\ IsFiniteSet(S \ T)
           /\ Cardinality(T) \in Nat /\ Cardinality(S \ T) \in Nat
           /\ Cardinality(S) = Cardinality(T) + Cardinality(S \ T)
<1>1. S \cap T = T
  OBVIOUS
<1>2. IsFiniteSet(T) /\ IsFiniteSet(S \ T)
  BY FS_Subset
<1>3. Cardinality(S \ T) = Cardinality(S) - Cardinality(T)
  BY <1>1, FS_Difference
<1>4. Cardinality(T) \in Nat /\ Cardinality(S \ T) \in Nat /\ Cardinality(S) \in Nat
  BY <1>2, FS_CardinalityType
<1>5. QED
  BY <1>2, <1>3, <1>4

\* The values of a function that takes none of them twice.
LEMMA CountImage ==
    ASSUME NEW S, IsFiniteSet(S), NEW h, DOMAIN h = S, h = [x \in S |-> h[x]],
           \A x, y \in S : h[x] = h[y] => x = y,
           NEW T, \A y : y \in T <=> \E x \in S : y = h[x]
    PROVE  IsFiniteSet(T) /\ Cardinality(T) = Cardinality(S)
<1>1. h \in [S -> T]
  OBVIOUS
<1>2. h \in Bijection(S, T)
  BY <1>1 DEF Bijection, Injection, Surjection, IsInjective
<1>3. ExistsBijection(S, T)
  BY <1>2 DEF ExistsBijection
<1>4. QED
  BY <1>3, FS_Bijection

\* A count is the sum of as many ones.
LEMMA CountIsSum ==
    ASSUME NEW S, IsFiniteSet(S), NEW F, \A x \in S : F[x] = 1
    PROVE  SumFunctionOnSet(F, S) = Cardinality(S)
<1> DEFINE Bad == {U \in SUBSET S : SumFunctionOnSet(F, U) # Cardinality(U)}
<1>1. ASSUME Bad # {}
      PROVE  FALSE
  <2>1. PICK m \in Bad : \A n \in Bad : n \subseteq m => n = m
    <3>1. \A U \in Bad : U \subseteq S
      OBVIOUS
    <3> HIDE DEF Bad
    <3>2. QED
      BY <1>1, <3>1, MinimalSubset
  <2>2. m # {}
    BY <2>1, SumEmpty, FS_EmptySet
  <2>3. IsFiniteSet(m) /\ m \subseteq S /\ Cardinality(m) \in Nat
    BY FS_Subset, FS_CardinalityType
  <2>4. PICK x \in m : SumFunctionOnSet(F, m) = F[x] + SumFunctionOnSet(F, m \ {x})
    BY <2>2, <2>3, SumUnfolds
  <2>5. m \ {x} \in SUBSET S /\ m \ {x} \notin Bad
    BY <2>1
  <2>6. SumFunctionOnSet(F, m \ {x}) = Cardinality(m \ {x})
    BY <2>5
  <2>7. Cardinality(m \ {x}) = Cardinality(m) - 1 /\ F[x] = 1
    BY <2>3, FS_RemoveElement
  <2> HIDE DEF Bad
  <2>8. SumFunctionOnSet(F, m) = Cardinality(m)
    BY <2>3, <2>4, <2>6, <2>7
  <2>9. QED
    BY <2>1, <2>8 DEF Bad
<1>2. QED
  BY <1>1

\* The figures of the parts add up to the whole, parts with nothing in them
\* included.
LEMMA PartsAddUp ==
    ASSUME NEW F, NEW S, IsFiniteSet(S), \A x \in S : F[x] \in Int,
           NEW g, NEW B, IsFiniteSet(B), \A x \in S : g[x] \in B,
           NEW P, \A b \in B : P[b] = SumFunctionOnSet(F, PartOf(S, g, b))
    PROVE  SumFunctionOnSet(P, B) = SumFunctionOnSet(F, S)
<1> DEFINE C == PartsOf(S, g)
           Q == [b \in C |-> SumFunctionOnSet(F, PartOf(S, g, b))]
<1>1. C \subseteq B /\ IsFiniteSet(C)
  BY FS_Subset DEF PartsOf
<1>2. ASSUME NEW b \in B
      PROVE  P[b] \in Int
  <2>1. PartOf(S, g, b) \subseteq S
    BY DEF PartOf
  <2>2. IsFiniteSet(PartOf(S, g, b)) /\ \A x \in PartOf(S, g, b) : F[x] \in Int
    BY <2>1, FS_Subset
  <2>3. SumFunctionOnSet(F, PartOf(S, g, b)) \in Int
    BY <2>2, SumType
  <2>4. QED
    BY <2>3
<1>3. ASSUME NEW b \in B \ C
      PROVE  P[b] = 0
  <2>1. PartOf(S, g, b) = {}
    BY DEF PartOf, PartsOf
  <2>2. QED
    BY <2>1, SumEmpty
<1>4. \A b \in C : P[b] \in Int /\ Q[b] = P[b]
  BY <1>1, <1>2
<1>5. SumFunctionOnSet(Q, C) = SumFunctionOnSet(F, S)
  BY SumPartition
<1> HIDE DEF Q, C
<1>6. SumFunctionOnSet(P, B) = SumFunctionOnSet(P, C)
  BY <1>1, <1>2, <1>3, SumWhere
<1>7. SumFunctionOnSet(Q, C) = SumFunctionOnSet(P, C)
  BY <1>1, <1>4, SumEqual
<1>8. QED
  BY <1>5, <1>6, <1>7

LEMMA PartsCountUp ==
    ASSUME NEW S, IsFiniteSet(S),
           NEW g, NEW B, IsFiniteSet(B), \A x \in S : g[x] \in B,
           NEW P, \A b \in B : P[b] = Cardinality(PartOf(S, g, b))
    PROVE  SumFunctionOnSet(P, B) = Cardinality(S)
<1> DEFINE F == [x \in S |-> 1]
<1>1. \A x \in S : F[x] = 1 /\ F[x] \in Int
  OBVIOUS
<1> HIDE DEF F
<1>2. ASSUME NEW b \in B
      PROVE  P[b] = SumFunctionOnSet(F, PartOf(S, g, b))
  <2>1. PartOf(S, g, b) \subseteq S
    BY DEF PartOf
  <2>2. IsFiniteSet(PartOf(S, g, b)) /\ \A x \in PartOf(S, g, b) : F[x] = 1
    BY <1>1, <2>1, FS_Subset
  <2>3. SumFunctionOnSet(F, PartOf(S, g, b)) = Cardinality(PartOf(S, g, b))
    BY <2>2, CountIsSum
  <2>4. QED
    BY <2>3
<1>3. SumFunctionOnSet(P, B) = SumFunctionOnSet(F, S)
  BY <1>1, <1>2, PartsAddUp
<1>4. QED
  BY <1>1, <1>3, CountIsSum

\* So do those of the parts when each is added up on its own.
LEMMA PartsTotal ==
    ASSUME NEW F, NEW S, IsFiniteSet(S), \A x \in S : F[x] \in Int,
           NEW g, NEW B, IsFiniteSet(B), \A x \in S : g[x] \in B,
           NEW P, \A b \in B : P[b] = SumFunctionOnSet([x \in PartOf(S, g, b) |-> F[x]],
                                                       PartOf(S, g, b))
    PROVE  SumFunctionOnSet(P, B) = SumFunctionOnSet(F, S)
<1>1. ASSUME NEW b \in B
      PROVE  P[b] = SumFunctionOnSet(F, PartOf(S, g, b))
  <2> DEFINE T == PartOf(S, g, b)
             G == [x \in T |-> F[x]]
  <2>1. T \subseteq S /\ IsFiniteSet(T)
    BY FS_Subset DEF PartOf
  <2>2. \A x \in T : F[x] \in Int /\ G[x] = F[x]
    BY <2>1
  <2>3. P[b] = SumFunctionOnSet(G, T)
    OBVIOUS
  <2> HIDE DEF G, T
  <2>4. SumFunctionOnSet(G, T) = SumFunctionOnSet(F, T)
    BY <2>1, <2>2, SumEqual
  <2>5. QED
    BY <2>3, <2>4 DEF T
<1>2. QED
  BY <1>1, PartsAddUp

LEMMA PartsFinite ==
    ASSUME NEW S, IsFiniteSet(S), NEW g
    PROVE  IsFiniteSet(PartsOf(S, g)) /\ \A x \in S : g[x] \in PartsOf(S, g)
<1> DEFINE B == PartsOf(S, g)
           h == [x \in S |-> g[x]]
<1>1. h \in [S -> B] /\ (\A b \in B : \E x \in S : h[x] = b) /\ \A x \in S : g[x] \in B
  BY DEF PartsOf
<1> HIDE DEF h, B
<1>2. h \in Surjection(S, B)
  BY <1>1 DEF Surjection
<1>3. QED
  BY <1>1, <1>2, FS_Surjection DEF B
=============================================================================
