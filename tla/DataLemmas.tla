----------------------------- MODULE DataLemmas -----------------------------
(***************************************************************************)
(* Least elements, induction, ranks in a total order, sums of integer      *)
(* functions over finite sets, flattened sequences, counting by kind,      *)
(* division and finite sets of functions, as the standard and community    *)
(* modules FiniteSets, Functions and SequencesExt define what they are     *)
(* about.  The provers cannot use an induction theorem that takes a        *)
(* predicate as parameter; a smallest counterexample, whose existence is a *)
(* fact about well-founded relations (WFMin), does as well.                *)
(***************************************************************************)
EXTENDS SequencesExt, Integers, FiniteSetTheorems, SequenceTheorems, WellFoundedInduction, TLAPS

\* A set of naturals that is not empty has a least element.
LEMMA LeastNatural ==
  ASSUME NEW T \in SUBSET Nat, T # {}
  PROVE  \E n \in T : \A m \in T : n <= m
<1> DEFINE R == {ss \in Nat \X Nat : ss[1] < ss[2]}
<1>1. IsWellFoundedOn(R, Nat)
  BY NatLessThanWellFounded, Zenon DEF OpToRel
<1>2. \A m, n \in Nat : m < n => <<m, n>> \in R
  OBVIOUS
<1> HIDE DEF R
<1>3. PICK n \in T : \A m \in T : <<m, n>> \notin R
  BY <1>1, WFMin, Zenon
<1>4. ASSUME NEW m \in T PROVE n <= m
  <2>1. ~(m < n)
    BY <1>2, <1>3
  <2> QED BY <2>1
<1> QED
  BY <1>4

\* A family of finite subsets of S that is not empty has a member none of whose proper
\* subsets is in the family.
LEMMA SmallestSet ==
  ASSUME NEW S, IsFiniteSet(S), NEW T \in SUBSET SUBSET S, T # {}
  PROVE  \E m \in T : \A s \in SUBSET m : s # m => s \notin T
<1>1. T \subseteq FiniteSubsetsOf(S)
  BY FS_Subset DEF FiniteSubsetsOf
<1>2. IsWellFoundedOn(StrictSubsetOrdering(S), FiniteSubsetsOf(S))
  BY FS_StrictSubsetOrderingWellFounded, Zenon
<1>3. PICK m \in T : \A s \in T : <<s, m>> \notin StrictSubsetOrdering(S)
  BY <1>1, <1>2, WFMin, Zenon
<1> QED
  BY <1>3 DEF StrictSubsetOrdering

\* What holds of the empty set, and of a set as soon as it does without one of its
\* elements, holds of every finite set.
LEMMA SetByElements ==
  ASSUME NEW S, IsFiniteSet(S), NEW Good, {} \in Good,
         \A T \in SUBSET S : \A x \in T : T \ {x} \in Good => T \in Good
  PROVE  S \in Good
<1> DEFINE Bad == (SUBSET S) \ Good
<1>1. SUFFICES ASSUME Bad # {} PROVE FALSE
  OBVIOUS
<1>2. PICK m \in Bad : \A s \in SUBSET m : s # m => s \notin Bad
  <2> HIDE DEF Bad
  <2> SUFFICES Bad \in SUBSET SUBSET S
    BY <1>1, SmallestSet, Zenon
  <2> QED BY DEF Bad
<1>3. PICK x \in m : TRUE
  BY <1>2
<1>4. m \ {x} \notin Bad
  BY <1>2, <1>3
<1> QED BY <1>2, <1>3, <1>4

\* What holds of 0, and of each number up to n if it holds of the one before, holds of n.
LEMMA CountUp ==
  ASSUME NEW n \in Nat, NEW Good, 0 \in Good, \A m \in 0..(n - 1) : m \in Good => m + 1 \in Good
  PROVE  n \in Good
<1> DEFINE Bad == {m \in 0..n : m \notin Good}
<1> SUFFICES ASSUME n \notin Good PROVE FALSE
  OBVIOUS
<1>1. n \in Bad /\ Bad \in SUBSET Nat
  OBVIOUS
<1> HIDE DEF Bad
<1>2. PICK m \in Bad : \A k \in Bad : m <= k
  BY <1>1, LeastNatural
<1>3. m \in 0..n /\ m \notin Good /\ m - 1 \notin Bad
  BY <1>1, <1>2 DEF Bad
<1>4. m # 0 /\ m - 1 \in 0..(n - 1)
  BY <1>3
<1>5. m - 1 \in Good
  BY <1>3, <1>4 DEF Bad
<1>6. (m - 1) + 1 \in Good
  BY <1>4, <1>5
<1> QED BY <1>3, <1>6

-----------------------------------------------------------------------------
(* Ranks *)

\* The rank of i in a finite set ordered by le: as many elements come up to it.
Rank(i, S, le) == Cardinality({j \in S : <<j, i>> \in le})
IsTotalOrder(S, le) ==
  /\ \A i, j \in S : <<i, j>> \in le \/ <<j, i>> \in le
  /\ \A i, j \in S : <<i, j>> \in le /\ <<j, i>> \in le => i = j
  /\ \A i, j, k \in S : <<i, j>> \in le /\ <<j, k>> \in le => <<i, k>> \in le

LEMMA RanksOrder ==
  ASSUME NEW S, IsFiniteSet(S), NEW le, IsTotalOrder(S, le)
  PROVE  /\ \A i \in S : Rank(i, S, le) \in 1..Cardinality(S)
         /\ \A i, j \in S : <<i, j>> \in le <=> Rank(i, S, le) <= Rank(j, S, le)
         /\ \A i, j \in S : Rank(i, S, le) = Rank(j, S, le) => i = j
<1> DEFINE Upto(i) == {j \in S : <<j, i>> \in le}
           top == Cardinality(S)
<1>0. \A i, j, k \in S :
        /\ <<i, j>> \in le \/ <<j, i>> \in le
        /\ <<i, j>> \in le /\ <<j, i>> \in le => i = j
        /\ <<i, j>> \in le /\ <<j, k>> \in le => <<i, k>> \in le
  BY DEF IsTotalOrder
<1>1. \A i \in S : /\ IsFiniteSet(Upto(i)) /\ Cardinality(Upto(i)) \in Nat
                   /\ Cardinality(Upto(i)) <= top /\ top \in Nat
  BY FS_Subset, FS_CardinalityType
<1>2. \A i \in S : Cardinality(Upto(i)) # 0
  <2> SUFFICES ASSUME NEW i \in S, Cardinality(Upto(i)) = 0 PROVE FALSE
    OBVIOUS
  <2>1. IsFiniteSet(Upto(i)) /\ i \in Upto(i)
    BY <1>0, <1>1
  <2> HIDE DEF Upto
  <2> QED BY <2>1, FS_EmptySet
<1>3. ASSUME NEW i \in S, NEW j \in S, <<i, j>> \in le
      PROVE  Cardinality(Upto(i)) <= Cardinality(Upto(j))
  <2>1. Upto(i) \in SUBSET Upto(j)
    BY <1>0, <1>3
  <2> QED BY <1>1, <2>1, FS_Subset
<1>4. ASSUME NEW i \in S, NEW j \in S, <<i, j>> \in le, i # j
      PROVE  Cardinality(Upto(i)) # Cardinality(Upto(j))
  <2>1. Upto(i) \in SUBSET Upto(j)
    BY <1>0, <1>4
  <2>2. j \in Upto(j) /\ j \notin Upto(i)
    BY <1>0, <1>4
  <2>3. Upto(i) # Upto(j)
    BY <2>2
  <2> HIDE DEF Upto
  <2> QED BY <1>1, <2>1, <2>3, FS_Subset
<1> DEFINE rank(i) == Rank(i, S, le)
<1>5. \A i \in S : rank(i) = Cardinality(Upto(i))
  BY DEF Rank
<1> HIDE DEF Upto, rank, top
<1>6. \A i \in S : rank(i) \in 1..top
  BY <1>1, <1>2, <1>5
<1>7. ASSUME NEW i \in S, NEW j \in S PROVE <<i, j>> \in le <=> rank(i) <= rank(j)
  <2>1. CASE i = j
    BY <1>0, <1>6, <2>1
  <2>2. CASE i # j /\ <<i, j>> \in le
    BY <1>3, <1>5, <2>2
  <2>3. CASE i # j /\ <<i, j>> \notin le
    <3>1. <<j, i>> \in le /\ j # i
      BY <1>0, <2>3
    <3>2. rank(j) <= rank(i) /\ rank(j) # rank(i)
      BY <1>3, <1>4, <1>5, <3>1
    <3> QED BY <1>6, <2>3, <3>2
  <2> QED BY <2>1, <2>2, <2>3
<1>8. ASSUME NEW i \in S, NEW j \in S, rank(i) = rank(j) PROVE i = j
  BY <1>0, <1>6, <1>7, <1>8
<1> QED BY <1>6, <1>7, <1>8 DEF rank, top

LEMMA EveryRankTaken ==
  ASSUME NEW S, IsFiniteSet(S), NEW le, IsTotalOrder(S, le)
  PROVE  \A k \in 1..Cardinality(S) : \E i \in S : Rank(i, S, le) = k
<1> DEFINE rank == [i \in S |-> Rank(i, S, le)]
           top == Cardinality(S)
<1>1. rank \in Injection(S, 1..top)
  BY RanksOrder DEF Injection, IsInjective
<1>2. top \in Nat
  BY FS_CardinalityType
<1> HIDE DEF rank
<1>3. IsFiniteSet(1..top) /\ Cardinality(1..top) = top
  BY <1>2, FS_Interval
<1>4. rank \in Surjection(S, 1..top)
  BY <1>1, <1>3, FS_Injection
<1> QED BY <1>4 DEF rank, Surjection

-----------------------------------------------------------------------------
(* The function a sum is defined by. *)

\* g gives the sum of f over each subset of S, by the equation of the definition.
Solves(g, f, S) ==
  g = [s \in SUBSET S |-> IF s = {} THEN 0
                          ELSE LET x == CHOOSE y \in s : TRUE IN f[x] + g[s \ {x}]]

LEMMA SolutionAt ==
  ASSUME NEW g, NEW f, NEW S, Solves(g, f, S), NEW s \in SUBSET S
  PROVE  g[s] = IF s = {} THEN 0 ELSE f[CHOOSE y \in s : TRUE] + g[s \ {CHOOSE y \in s : TRUE}]
  BY Zenon DEF Solves

\* Two solutions agree where both are defined.
LEMMA SolutionsAgree ==
  ASSUME NEW f, NEW S, NEW T, IsFiniteSet(S), NEW g, NEW h, Solves(g, f, S), Solves(h, f, T)
  PROVE  \A s \in SUBSET (S \cap T) : g[s] = h[s]
<1> DEFINE Bad == {s \in SUBSET (S \cap T) : g[s] # h[s]}
<1>1. SUFFICES ASSUME Bad # {} PROVE FALSE
  OBVIOUS
<1>2. IsFiniteSet(S \cap T)
  BY FS_Subset
<1>3. PICK m \in Bad : \A s \in SUBSET m : s # m => s \notin Bad
  <2> HIDE DEF Bad
  <2> SUFFICES Bad \in SUBSET SUBSET (S \cap T)
    BY <1>1, <1>2, SmallestSet, Zenon
  <2> QED BY DEF Bad
<1>4. CASE m = {}
  BY <1>4, SolutionAt
<1>5. CASE m # {}
  <2> DEFINE x == CHOOSE y \in m : TRUE
  <2>1. x \in m
    BY <1>5
  <2>2. g[m \ {x}] = h[m \ {x}]
    BY <1>3, <2>1
  <2>3. g[m] = f[x] + g[m \ {x}] /\ h[m] = f[x] + h[m \ {x}]
    BY <1>5, SolutionAt, Zenon
  <2> QED BY <1>3, <2>2, <2>3
<1> QED BY <1>4, <1>5

\* A solution over S is one over each of its subsets, cut down.
LEMMA SolutionBelow ==
  ASSUME NEW f, NEW S, NEW T \in SUBSET S, NEW g, Solves(g, f, S)
  PROVE  Solves([s \in SUBSET T |-> g[s]], f, T)
<1> DEFINE h == [s \in SUBSET T |-> g[s]]
           sol == [s \in SUBSET T |-> IF s = {} THEN 0
                     ELSE LET x == CHOOSE y \in s : TRUE IN f[x] + h[s \ {x}]]
<1>1. ASSUME NEW s \in SUBSET T PROVE h[s] = sol[s]
  <2> DEFINE x == CHOOSE y \in s : TRUE
  <2>1. h[s] = g[s] /\ h[s \ {x}] = g[s \ {x}]
    OBVIOUS
  <2>2. g[s] = IF s = {} THEN 0 ELSE f[x] + g[s \ {x}]
    BY SolutionAt, Zenon
  <2> QED BY <2>1, <2>2
<1>2. h = sol
  BY <1>1
<1> QED BY <1>2, Zenon DEF Solves

\* Every finite set has a solution: one for a smallest set without any could be put
\* together from those of its proper subsets.
LEMMA SolutionExists ==
  ASSUME NEW f, NEW S, IsFiniteSet(S)
  PROVE  \E g : Solves(g, f, S)
<1> DEFINE Bad == {s \in SUBSET S : ~\E g : Solves(g, f, s)}
<1>1. SUFFICES ASSUME Bad # {} PROVE FALSE
  OBVIOUS
<1>2. PICK m \in Bad : \A s \in SUBSET m : s # m => s \notin Bad
  <2> HIDE DEF Bad
  <2> SUFFICES Bad \in SUBSET SUBSET S
    BY <1>1, SmallestSet, Zenon
  <2> QED BY DEF Bad
<1> DEFINE Sol(s) == CHOOSE g : Solves(g, f, s)
           First(s) == CHOOSE y \in s : TRUE
           Rest(s) == s \ {First(s)}
<1>3. ASSUME NEW s \in SUBSET m, s # m PROVE Solves(Sol(s), f, s)
  <2>1. \E g : Solves(g, f, s)
    BY <1>2, <1>3
  <2> QED BY <2>1, Zenon
<1>4. \A s \in SUBSET m : IsFiniteSet(s)
  BY FS_Subset
<1> DEFINE G == [s \in SUBSET m |-> IF s = {} THEN 0 ELSE f[First(s)] + Sol(Rest(s))[Rest(s)]]
<1>5. ASSUME NEW s \in SUBSET m, s # {}
      PROVE  /\ First(s) \in s /\ Rest(s) \in SUBSET m /\ Rest(s) # m
             /\ Rest(s) \in SUBSET s
  BY <1>5
<1>6. ASSUME NEW s \in SUBSET m, s # m PROVE G[s] = Sol(s)[s]
  <2>1. CASE s = {}
    BY <2>1, <1>3, <1>6, SolutionAt
  <2>2. CASE s # {}
    <3>1. Solves(Sol(s), f, s) /\ Solves(Sol(Rest(s)), f, Rest(s))
      BY <1>3, <1>5, <1>6, <2>2
    <3>2. Sol(s)[s] = f[First(s)] + Sol(s)[Rest(s)]
      <4> HIDE DEF Sol
      <4>1. s \in SUBSET s
        OBVIOUS
      <4> QED BY <3>1, <2>2, <4>1, SolutionAt
    <3>3. Sol(s)[Rest(s)] = Sol(Rest(s))[Rest(s)]
      <4>1. \A u \in SUBSET (s \cap Rest(s)) : Sol(s)[u] = Sol(Rest(s))[u]
        <5> HIDE DEF Sol, Rest
        <5> QED BY <1>4, <3>1, SolutionsAgree
      <4> QED BY <4>1, <1>5, <2>2
    <3>4. G[s] = f[First(s)] + Sol(Rest(s))[Rest(s)]
      BY <2>2
    <3> QED BY <3>2, <3>3, <3>4
  <2> QED BY <2>1, <2>2
<1> DEFINE H == [s \in SUBSET m |-> IF s = {} THEN 0
                   ELSE LET x == CHOOSE y \in s : TRUE IN f[x] + G[s \ {x}]]
<1>7. ASSUME NEW s \in SUBSET m PROVE G[s] = H[s]
  <2>1. CASE s = {}
    BY <2>1
  <2>2. CASE s # {}
    <3>1. G[Rest(s)] = Sol(Rest(s))[Rest(s)]
      <4> HIDE DEF G, Sol, Rest
      <4> QED BY <1>5, <1>6, <2>2
    <3>2. G[s] = f[First(s)] + Sol(Rest(s))[Rest(s)]
      BY <2>2
    <3>3. H[s] = f[First(s)] + G[Rest(s)]
      <4> HIDE DEF G
      <4> QED BY <2>2
    <3> QED BY <3>1, <3>2, <3>3
  <2> QED BY <2>1, <2>2
<1>8. G = H
  <2>1. G = [s \in SUBSET m |-> G[s]] /\ H = [s \in SUBSET m |-> H[s]]
    OBVIOUS
  <2> HIDE DEF G, H
  <2> QED BY <1>7, <2>1, Zenon
<1>9. Solves(G, f, m)
  <2> HIDE DEF G
  <2> QED BY <1>8, Zenon DEF Solves
<1> QED
  <2> HIDE DEF G
  <2> QED BY <1>2, <1>9

-----------------------------------------------------------------------------
(* Facts about sums. *)

LEMMA SumBySolution ==
  ASSUME NEW f, NEW S, IsFiniteSet(S)
  PROVE  \E g : Solves(g, f, S) /\ SumFunctionOnSet(f, S) = g[S]
<1> DEFINE iter == CHOOSE g : Solves(g, f, S)
<1>1. SumFunctionOnSet(f, S) = iter[S]
  BY DEF SumFunctionOnSet, FoldFunctionOnSet, MapThenFoldSet, Solves
<1>2. Solves(iter, f, S)
  BY SolutionExists, Zenon
<1> QED BY <1>1, <1>2, Zenon

LEMMA SumEmpty ==
  ASSUME NEW f
  PROVE  SumFunctionOnSet(f, {}) = 0
<1>1. PICK g : Solves(g, f, {}) /\ SumFunctionOnSet(f, {}) = g[{}]
  BY SumBySolution, FS_EmptySet
<1> QED BY <1>1, SolutionAt

\* The element that the definition takes out first.
LEMMA SumFirst ==
  ASSUME NEW f, NEW S, IsFiniteSet(S), S # {}
  PROVE  \E x \in S : SumFunctionOnSet(f, S) = f[x] + SumFunctionOnSet(f, S \ {x})
<1> DEFINE x == CHOOSE y \in S : TRUE
           R == S \ {x}
<1>1. x \in S /\ IsFiniteSet(R) /\ S \cap R = R /\ S \in SUBSET S /\ R \in SUBSET R
  BY FS_Subset
<1> HIDE DEF x
<1>2. PICK g : Solves(g, f, S) /\ SumFunctionOnSet(f, S) = g[S]
  BY SumBySolution
<1>3. PICK h : Solves(h, f, R) /\ SumFunctionOnSet(f, R) = h[R]
  <2> HIDE DEF R
  <2> QED BY <1>1, SumBySolution
<1>4. g[S] = f[x] + g[R]
  <2>1. g[S] = IF S = {} THEN 0
               ELSE f[CHOOSE y \in S : TRUE] + g[S \ {CHOOSE y \in S : TRUE}]
    BY <1>1, <1>2, SolutionAt, ZenonT(60)
  <2> QED BY <2>1 DEF x
<1>5. g[R] = h[R]
  <2> HIDE DEF R
  <2>1. \A s \in SUBSET (S \cap R) : g[s] = h[s]
    BY <1>2, <1>3, SolutionsAgree
  <2> QED BY <1>1, <2>1
<1> QED BY <1>1, <1>2, <1>3, <1>4, <1>5

\* Each fact below is shown for a smallest set that does not have it.
LEMMA SumInt ==
  ASSUME NEW f, NEW S, IsFiniteSet(S), \A x \in S : f[x] \in Int
  PROVE  SumFunctionOnSet(f, S) \in Int
<1> DEFINE Bad == {s \in SUBSET S : SumFunctionOnSet(f, s) \notin Int}
<1>1. SUFFICES ASSUME Bad # {} PROVE FALSE
  OBVIOUS
<1>2. PICK m \in Bad : \A s \in SUBSET m : s # m => s \notin Bad
  <2> HIDE DEF Bad
  <2> SUFFICES Bad \in SUBSET SUBSET S
    BY <1>1, SmallestSet, Zenon
  <2> QED BY DEF Bad
<1>3. m # {}
  <2> SUFFICES ASSUME m = {} PROVE SumFunctionOnSet(f, m) = 0
    BY <1>2
  <2> QED BY SumEmpty, Zenon
<1>4. PICK x \in m : SumFunctionOnSet(f, m) = f[x] + SumFunctionOnSet(f, m \ {x})
  BY <1>2, <1>3, SumFirst, FS_Subset
<1>5. SumFunctionOnSet(f, m \ {x}) \in Int
  BY <1>2, <1>4
<1> QED BY <1>2, <1>4, <1>5

\* Any element may be taken out first.
LEMMA SumRemove ==
  ASSUME NEW f, NEW S, IsFiniteSet(S), \A x \in S : f[x] \in Int, NEW a \in S
  PROVE  SumFunctionOnSet(f, S) = f[a] + SumFunctionOnSet(f, S \ {a})
<1> DEFINE Sum(s) == SumFunctionOnSet(f, s)
           Bad == {s \in SUBSET S : \E x \in s : Sum(s) # f[x] + Sum(s \ {x})}
<1>1. SUFFICES ASSUME Bad # {} PROVE FALSE
  OBVIOUS
<1>2. PICK m \in Bad : \A s \in SUBSET m : s # m => s \notin Bad
  <2> HIDE DEF Bad
  <2> SUFFICES Bad \in SUBSET SUBSET S
    BY <1>1, SmallestSet, Zenon
  <2> QED BY DEF Bad
<1>3. \A s \in SUBSET S : IsFiniteSet(s) /\ Sum(s) \in Int
  BY FS_Subset, SumInt
<1>4. PICK x \in m : Sum(m) # f[x] + Sum(m \ {x})
  BY <1>2
<1>5. PICK c \in m : Sum(m) = f[c] + Sum(m \ {c})
  BY <1>2, <1>3, <1>4, SumFirst
<1>6. x # c
  BY <1>4, <1>5
<1> HIDE DEF Sum
<1>7. Sum(m \ {c}) = f[x] + Sum((m \ {c}) \ {x})
  BY <1>2, <1>6
<1>8. Sum(m \ {x}) = f[c] + Sum((m \ {x}) \ {c})
  BY <1>2, <1>6
<1>9. (m \ {c}) \ {x} = (m \ {x}) \ {c} /\ (m \ {c}) \ {x} \in SUBSET S
  BY <1>2
<1>10. f[x] \in Int /\ f[c] \in Int /\ Sum((m \ {c}) \ {x}) \in Int
  BY <1>2, <1>3, <1>9
<1>11. Sum(m) = f[c] + (f[x] + Sum((m \ {c}) \ {x}))
  BY <1>5, <1>7, Zenon
<1>12. Sum(m \ {x}) = f[c] + Sum((m \ {c}) \ {x})
  BY <1>8, <1>9, Zenon
<1> QED BY <1>4, <1>10, <1>11, <1>12

LEMMA SumAdd ==
  ASSUME NEW f, NEW S, IsFiniteSet(S), \A x \in S : f[x] \in Int, NEW a, a \notin S, f[a] \in Int
  PROVE  SumFunctionOnSet(f, S \cup {a}) = f[a] + SumFunctionOnSet(f, S)
<1>1. IsFiniteSet(S \cup {a}) /\ (S \cup {a}) \ {a} = S /\ \A x \in S \cup {a} : f[x] \in Int
  BY FS_AddElement
<1>2. SumFunctionOnSet(f, S \cup {a}) = f[a] + SumFunctionOnSet(f, (S \cup {a}) \ {a})
  BY <1>1, SumRemove
<1> QED BY <1>1, <1>2

\* A sum grows with its terms; where all terms are the same, so are the sums.
LEMMA SumMonotone ==
  ASSUME NEW f, NEW g, NEW S, IsFiniteSet(S),
         \A x \in S : f[x] \in Int /\ g[x] \in Int /\ f[x] <= g[x]
  PROVE  SumFunctionOnSet(f, S) <= SumFunctionOnSet(g, S)
<1> DEFINE Bad == {s \in SUBSET S : ~(SumFunctionOnSet(f, s) <= SumFunctionOnSet(g, s))}
<1>1. SUFFICES ASSUME Bad # {} PROVE FALSE
  OBVIOUS
<1>2. PICK m \in Bad : \A s \in SUBSET m : s # m => s \notin Bad
  <2> HIDE DEF Bad
  <2> SUFFICES Bad \in SUBSET SUBSET S
    BY <1>1, SmallestSet, Zenon
  <2> QED BY DEF Bad
<1>3. PICK x \in m : TRUE
  <2> SUFFICES ASSUME m = {} PROVE SumFunctionOnSet(f, m) = 0 /\ SumFunctionOnSet(g, m) = 0
    BY <1>2
  <2> QED BY SumEmpty, Zenon
<1>4. IsFiniteSet(m) /\ IsFiniteSet(m \ {x}) /\ \A y \in m : f[y] \in Int /\ g[y] \in Int
  BY <1>2, FS_Subset
<1>5. /\ SumFunctionOnSet(f, m) = f[x] + SumFunctionOnSet(f, m \ {x})
      /\ SumFunctionOnSet(g, m) = g[x] + SumFunctionOnSet(g, m \ {x})
      /\ SumFunctionOnSet(f, m \ {x}) \in Int /\ SumFunctionOnSet(g, m \ {x}) \in Int
  BY <1>4, SumRemove, SumInt
<1>6. SumFunctionOnSet(f, m \ {x}) <= SumFunctionOnSet(g, m \ {x})
  BY <1>2, <1>3
<1>7. f[x] \in Int /\ g[x] \in Int /\ f[x] <= g[x]
  BY <1>2, <1>3
<1> QED BY <1>2, <1>5, <1>6, <1>7

LEMMA SumSame ==
  ASSUME NEW f, NEW g, NEW S, IsFiniteSet(S), \A x \in S : f[x] \in Int /\ f[x] = g[x]
  PROVE  SumFunctionOnSet(f, S) = SumFunctionOnSet(g, S)
<1>1. \A x \in S : f[x] \in Int /\ g[x] \in Int /\ f[x] <= g[x] /\ g[x] <= f[x]
  OBVIOUS
<1>2. SumFunctionOnSet(f, S) \in Int /\ SumFunctionOnSet(g, S) \in Int
  BY <1>1, SumInt
<1>3. SumFunctionOnSet(f, S) <= SumFunctionOnSet(g, S)
  BY <1>1, SumMonotone
<1>4. SumFunctionOnSet(g, S) <= SumFunctionOnSet(f, S)
  BY <1>1, SumMonotone
<1> QED BY <1>2, <1>3, <1>4

LEMMA SumNat ==
  ASSUME NEW f, NEW S, IsFiniteSet(S), \A x \in S : f[x] \in Nat
  PROVE  SumFunctionOnSet(f, S) \in Nat
<1> DEFINE Bad == {s \in SUBSET S : SumFunctionOnSet(f, s) \notin Nat}
<1>1. SUFFICES ASSUME Bad # {} PROVE FALSE
  OBVIOUS
<1>2. PICK m \in Bad : \A s \in SUBSET m : s # m => s \notin Bad
  <2> HIDE DEF Bad
  <2> SUFFICES Bad \in SUBSET SUBSET S
    BY <1>1, SmallestSet, Zenon
  <2> QED BY DEF Bad
<1>3. m # {}
  <2> SUFFICES ASSUME m = {} PROVE SumFunctionOnSet(f, m) = 0
    BY <1>2
  <2> QED BY SumEmpty, Zenon
<1>4. PICK x \in m : SumFunctionOnSet(f, m) = f[x] + SumFunctionOnSet(f, m \ {x})
  BY <1>2, <1>3, SumFirst, FS_Subset
<1>5. SumFunctionOnSet(f, m \ {x}) \in Nat
  BY <1>2, <1>4
<1> QED BY <1>2, <1>4, <1>5

LEMMA SumOfZeros ==
  ASSUME NEW f, NEW S, IsFiniteSet(S), \A x \in S : f[x] = 0
  PROVE  SumFunctionOnSet(f, S) = 0
<1> DEFINE Bad == {s \in SUBSET S : SumFunctionOnSet(f, s) # 0}
<1>1. SUFFICES ASSUME Bad # {} PROVE FALSE
  OBVIOUS
<1>2. PICK m \in Bad : \A s \in SUBSET m : s # m => s \notin Bad
  <2> HIDE DEF Bad
  <2> SUFFICES Bad \in SUBSET SUBSET S
    BY <1>1, SmallestSet, Zenon
  <2> QED BY DEF Bad
<1>3. m # {}
  <2> SUFFICES ASSUME m = {} PROVE SumFunctionOnSet(f, m) = 0
    BY <1>2
  <2> QED BY SumEmpty, Zenon
<1>4. PICK x \in m : SumFunctionOnSet(f, m) = f[x] + SumFunctionOnSet(f, m \ {x})
  BY <1>2, <1>3, SumFirst, FS_Subset
<1>5. SumFunctionOnSet(f, m \ {x}) = 0
  BY <1>2, <1>4
<1> QED BY <1>2, <1>4, <1>5

\* Naturals add up to no less than each of them.
LEMMA SumAtLeastTerm ==
  ASSUME NEW f, NEW S, IsFiniteSet(S), \A x \in S : f[x] \in Nat, NEW a \in S
  PROVE  f[a] <= SumFunctionOnSet(f, S)
<1>1. SumFunctionOnSet(f, S) = f[a] + SumFunctionOnSet(f, S \ {a})
  BY SumRemove
<1>2. SumFunctionOnSet(f, S \ {a}) \in Nat
  BY SumNat, FS_Subset
<1> QED BY <1>1, <1>2

\* What a function takes a finite set to is finite.
LEMMA FiniteImage ==
  ASSUME NEW f, NEW S, IsFiniteSet(S)
  PROVE  IsFiniteSet({f[x] : x \in S})
<1> DEFINE T == {f[x] : x \in S}
           onto == [x \in S |-> f[x]]
<1>1. onto \in Surjection(S, T)
  BY DEF Surjection
<1> QED BY <1>1, FS_Surjection

-----------------------------------------------------------------------------
(* Sums over sets taken apart *)

\* Sums add up term by term.
LEMMA SumTogether ==
  ASSUME NEW f, NEW g, NEW h, NEW S, IsFiniteSet(S),
         \A x \in S : f[x] \in Int /\ g[x] \in Int /\ h[x] = f[x] + g[x]
  PROVE  SumFunctionOnSet(h, S) = SumFunctionOnSet(f, S) + SumFunctionOnSet(g, S)
<1> DEFINE Adds(s) == SumFunctionOnSet(h, s) = SumFunctionOnSet(f, s) + SumFunctionOnSet(g, s)
           Good == {s \in SUBSET S : Adds(s)}
<1>1. {} \in Good
  <2>1. /\ SumFunctionOnSet(h, {}) = 0 /\ SumFunctionOnSet(f, {}) = 0
        /\ SumFunctionOnSet(g, {}) = 0
    BY SumEmpty
  <2> QED BY <2>1
<1>2. ASSUME NEW T \in SUBSET S, NEW x \in T, T \ {x} \in Good PROVE T \in Good
  <2>1. IsFiniteSet(T) /\ IsFiniteSet(T \ {x})
    BY FS_Subset
  <2>2. /\ SumFunctionOnSet(f, T) = f[x] + SumFunctionOnSet(f, T \ {x})
        /\ SumFunctionOnSet(f, T \ {x}) \in Int
    BY <2>1, SumRemove, SumInt
  <2>3. /\ SumFunctionOnSet(g, T) = g[x] + SumFunctionOnSet(g, T \ {x})
        /\ SumFunctionOnSet(g, T \ {x}) \in Int
    BY <2>1, SumRemove, SumInt
  <2>4. SumFunctionOnSet(h, T) = h[x] + SumFunctionOnSet(h, T \ {x})
    <3>1. \A y \in T : h[y] \in Int
      OBVIOUS
    <3> QED BY <2>1, <3>1, SumRemove
  <2>5. Adds(T \ {x}) /\ f[x] \in Int /\ g[x] \in Int /\ h[x] = f[x] + g[x]
    BY <1>2
  <2> QED BY <2>2, <2>3, <2>4, <2>5
<1> HIDE DEF Good
<1>3. S \in Good
  BY <1>1, <1>2, SetByElements
<1> QED BY <1>3 DEF Good

\* A constant term adds up to as often that constant.
LEMMA SumConstant ==
  ASSUME NEW f, NEW S, IsFiniteSet(S), NEW c \in Int, \A x \in S : f[x] = c
  PROVE  SumFunctionOnSet(f, S) = c * Cardinality(S)
<1> DEFINE Good == {s \in SUBSET S : SumFunctionOnSet(f, s) = c * Cardinality(s)}
<1>1. {} \in Good
  <2>1. SumFunctionOnSet(f, {}) = 0 /\ Cardinality({}) = 0
    BY SumEmpty, FS_EmptySet
  <2> QED BY <2>1
<1>2. ASSUME NEW T \in SUBSET S, NEW x \in T, T \ {x} \in Good PROVE T \in Good
  <2> DEFINE R == T \ {x}
  <2>1. /\ IsFiniteSet(T) /\ IsFiniteSet(R) /\ Cardinality(R) \in Nat
        /\ Cardinality(T) = Cardinality(R) + 1
    <3>1. IsFiniteSet(T)
      BY FS_Subset
    <3>2. IsFiniteSet(R) /\ Cardinality(R) = Cardinality(T) - 1
      BY <3>1, FS_RemoveElement
    <3> QED BY <3>1, <3>2, FS_CardinalityType
  <2>2. SumFunctionOnSet(f, T) = c + SumFunctionOnSet(f, R)
    BY <2>1, SumRemove
  <2>3. SumFunctionOnSet(f, R) = c * Cardinality(R)
    BY <1>2
  <2> HIDE DEF R
  <2>4. c * (Cardinality(R) + 1) = c + c * Cardinality(R)
    BY <2>1
  <2> QED BY <2>1, <2>2, <2>3, <2>4
<1> HIDE DEF Good
<1>3. S \in Good
  BY <1>1, <1>2, SetByElements
<1> QED BY <1>3 DEF Good

\* Terms of at most c each add up to at most as often c.
LEMMA SumAtMost ==
  ASSUME NEW f, NEW S, IsFiniteSet(S), NEW c \in Int, \A x \in S : f[x] \in Int /\ f[x] <= c
  PROVE  SumFunctionOnSet(f, S) <= c * Cardinality(S)
<1> DEFINE g == [x \in S |-> c]
<1>1. SumFunctionOnSet(g, S) = c * Cardinality(S)
  BY SumConstant
<1>2. SumFunctionOnSet(f, S) <= SumFunctionOnSet(g, S)
  BY SumMonotone
<1> QED BY <1>1, <1>2

\* Terms of 0 can be left out.
LEMMA SumWithin ==
  ASSUME NEW f, NEW g, NEW T, IsFiniteSet(T), NEW S \in SUBSET T,
         \A x \in S : f[x] \in Int /\ g[x] = f[x], \A x \in T \ S : g[x] = 0
  PROVE  SumFunctionOnSet(g, T) = SumFunctionOnSet(f, S)
<1> DEFINE Good == {s \in SUBSET T : SumFunctionOnSet(g, s) = SumFunctionOnSet(f, s \cap S)}
<1>1. {} \in Good
  <2>1. SumFunctionOnSet(g, {}) = 0 /\ SumFunctionOnSet(f, {}) = 0 /\ {} \cap S = {}
    BY SumEmpty
  <2> QED BY <2>1
<1>2. ASSUME NEW U \in SUBSET T, NEW x \in U, U \ {x} \in Good PROVE U \in Good
  <2>1. IsFiniteSet(U) /\ \A y \in U : g[y] \in Int
    BY FS_Subset
  <2>2. SumFunctionOnSet(g, U) = g[x] + SumFunctionOnSet(g, U \ {x})
    BY <2>1, SumRemove
  <2>3. SumFunctionOnSet(g, U \ {x}) = SumFunctionOnSet(f, (U \ {x}) \cap S)
    BY <1>2
  <2>4. IsFiniteSet(U \cap S) /\ IsFiniteSet((U \ {x}) \cap S)
    BY FS_Subset
  <2>5. SumFunctionOnSet(f, (U \ {x}) \cap S) \in Int
    BY <2>4, SumInt
  <2>6. CASE x \in S
    <3>1. (U \cap S) \ {x} = (U \ {x}) \cap S /\ x \in U \cap S
      BY <2>6
    <3>2. SumFunctionOnSet(f, U \cap S) = f[x] + SumFunctionOnSet(f, (U \cap S) \ {x})
      BY <2>4, <2>6, SumRemove
    <3> QED BY <2>2, <2>3, <2>6, <3>1, <3>2
  <2>7. CASE x \notin S
    <3>1. (U \ {x}) \cap S = U \cap S /\ g[x] = 0
      BY <2>7
    <3>2. SumFunctionOnSet(f, U \cap S) = SumFunctionOnSet(f, (U \ {x}) \cap S)
      BY <3>1, Zenon
    <3>3. SumFunctionOnSet(g, U) = SumFunctionOnSet(f, U \cap S)
      BY <2>2, <2>3, <2>5, <3>1, <3>2
    <3> QED BY <3>3
  <2> QED BY <2>6, <2>7
<1> HIDE DEF Good
<1>3. T \in Good
  BY <1>1, <1>2, SetByElements
<1>4. T \cap S = S
  OBVIOUS
<1> QED BY <1>3, <1>4 DEF Good

\* A function with one more argument adds up to its value there more.
LEMMA SumFunctionAdd ==
  ASSUME NEW f, NEW g, NEW a, a \notin DOMAIN f, IsFiniteSet(DOMAIN f),
         DOMAIN g = DOMAIN f \cup {a}, g[a] \in Int,
         \A x \in DOMAIN f : f[x] \in Int /\ g[x] = f[x]
  PROVE  SumFunction(g) = SumFunction(f) + g[a]
<1>1. SumFunctionOnSet(g, DOMAIN f \cup {a}) = g[a] + SumFunctionOnSet(g, DOMAIN f)
  BY SumAdd
<1>2. SumFunctionOnSet(f, DOMAIN f) = SumFunctionOnSet(g, DOMAIN f)
  BY SumSame
<1>3. SumFunctionOnSet(f, DOMAIN f) \in Int
  BY SumInt
<1> QED BY <1>1, <1>2, <1>3 DEF SumFunction

\* Counted user by user or resource by resource, what is given away is the same: every
\* user w of W receives the share of each resource in uses[w].
LEMMA SumTwoWays ==
  ASSUME NEW W, IsFiniteSet(W), NEW R, IsFiniteSet(R), NEW share, \A r \in R : share[r] \in Int,
         NEW uses, \A w \in W : uses[w] \in SUBSET R,
         NEW total, \A w \in W : total[w] = SumFunctionOnSet(share, uses[w])
  PROVE  SumFunctionOnSet(total, W)
           = SumFunctionOnSet([r \in R |-> share[r] * Cardinality({w \in W : r \in uses[w]})], R)
<1> DEFINE Users(T, r) == {w \in T : r \in uses[w]}
           given(T) == [r \in R |-> share[r] * Cardinality(Users(T, r))]
           Good == {T \in SUBSET W : SumFunctionOnSet(total, T) = SumFunctionOnSet(given(T), R)}
<1>1. {} \in Good
  <2>1. SumFunctionOnSet(total, {}) = 0
    BY SumEmpty
  <2>2. \A r \in R : given({})[r] = 0
    <3>1. \A r \in R : Users({}, r) = {}
      OBVIOUS
    <3>2. Cardinality({}) = 0
      BY FS_EmptySet
    <3> QED BY <3>1, <3>2
  <2> DEFINE none == given({})
  <2>3. \A r \in R : none[r] = 0
    BY <2>2
  <2> HIDE DEF none
  <2>4. SumFunctionOnSet(none, R) = 0
    BY <2>3, SumOfZeros
  <2> QED BY <2>1, <2>4 DEF none
<1>2. ASSUME NEW T \in SUBSET W, NEW x \in T, T \ {x} \in Good PROVE T \in Good
  <2> DEFINE own == [r \in R |-> IF r \in uses[x] THEN share[r] ELSE 0]
             before == given(T \ {x})
             after == given(T)
  <2>1. IsFiniteSet(T) /\ IsFiniteSet(T \ {x}) /\ uses[x] \in SUBSET R /\ x \in W
    BY FS_Subset
  <2>2. total[x] = SumFunctionOnSet(own, R)
    <3>1. /\ \A r \in uses[x] : share[r] \in Int /\ own[r] = share[r]
          /\ \A r \in R \ uses[x] : own[r] = 0
      BY <2>1
    <3> HIDE DEF own
    <3> QED BY <2>1, <3>1, SumWithin
  <2>3. SumFunctionOnSet(total, T) = total[x] + SumFunctionOnSet(total, T \ {x})
    <3>1. \A w \in T : total[w] \in Int
      <4> SUFFICES ASSUME NEW w \in T PROVE total[w] \in Int
        OBVIOUS
      <4>1. IsFiniteSet(uses[w]) /\ \A r \in uses[w] : share[r] \in Int
        BY FS_Subset
      <4> QED BY <4>1, SumInt
    <3> QED BY <2>1, <3>1, SumRemove
  <2>4. SumFunctionOnSet(total, T \ {x}) = SumFunctionOnSet(before, R)
    BY <1>2
  <2>5. ASSUME NEW r \in R
        PROVE  own[r] \in Int /\ before[r] \in Int /\ after[r] = own[r] + before[r]
    <3>1. /\ IsFiniteSet(Users(T, r)) /\ IsFiniteSet(Users(T \ {x}, r))
          /\ Cardinality(Users(T \ {x}, r)) \in Nat
      BY <2>1, FS_Subset, FS_CardinalityType
    <3>2. CASE r \in uses[x]
      <4>1. Users(T \ {x}, r) = Users(T, r) \ {x} /\ x \in Users(T, r)
        BY <3>2
      <4> HIDE DEF Users
      <4>2. Cardinality(Users(T, r) \ {x}) = Cardinality(Users(T, r)) - 1
        BY <3>1, <4>1, FS_RemoveElement
      <4>3. Cardinality(Users(T, r)) = 1 + Cardinality(Users(T \ {x}, r))
        <5>1. Cardinality(Users(T \ {x}, r)) = Cardinality(Users(T, r) \ {x})
          BY <4>1, Zenon
        <5> QED BY <3>1, <4>2, <5>1, FS_CardinalityType
      <4>4. share[r] * Cardinality(Users(T, r))
              = share[r] + share[r] * Cardinality(Users(T \ {x}, r))
        BY <3>1, <4>3
      <4> QED BY <3>1, <3>2, <4>4
    <3>3. CASE r \notin uses[x]
      <4>1. Users(T \ {x}, r) = Users(T, r)
        BY <3>3
      <4> HIDE DEF Users
      <4> QED BY <3>1, <3>3, <4>1
    <3> QED BY <3>2, <3>3
  <2> HIDE DEF own, before, after
  <2>6. SumFunctionOnSet(after, R) = SumFunctionOnSet(own, R) + SumFunctionOnSet(before, R)
    BY <2>5, SumTogether
  <2>7. SumFunctionOnSet(total, T) = SumFunctionOnSet(after, R)
    BY <2>2, <2>3, <2>4, <2>6
  <2> QED BY <2>7 DEF after
<1> HIDE DEF Good
<1>3. W \in Good
  BY <1>1, <1>2, SetByElements
<1> QED BY <1>3 DEF Good

\* Changing one term changes the sum by as much.
LEMMA SumChange ==
  ASSUME NEW f, NEW g, NEW S, IsFiniteSet(S), NEW a \in S,
         \A x \in S : f[x] \in Int /\ g[x] \in Int /\ (x # a => g[x] = f[x])
  PROVE  SumFunctionOnSet(g, S) = SumFunctionOnSet(f, S) - f[a] + g[a]
<1> DEFINE R == S \ {a}
<1>1. IsFiniteSet(R) /\ \A x \in R : f[x] \in Int /\ f[x] = g[x]
  BY FS_Subset
<1> HIDE DEF R
<1>2. SumFunctionOnSet(g, R) = SumFunctionOnSet(f, R) /\ SumFunctionOnSet(f, R) \in Int
  BY <1>1, SumSame, SumInt
<1>3. SumFunctionOnSet(f, S) = f[a] + SumFunctionOnSet(f, R)
  BY SumRemove DEF R
<1>4. SumFunctionOnSet(g, S) = g[a] + SumFunctionOnSet(g, R)
  BY SumRemove DEF R
<1> QED BY <1>2, <1>3, <1>4

-----------------------------------------------------------------------------
(* Sequences *)

LEMMA SeqByIndex ==
  ASSUME NEW R, NEW n \in Nat, NEW f, DOMAIN f = 1..n, f = [i \in DOMAIN f |-> f[i]],
         \A i \in 1..n : f[i] \in R
  PROVE  f \in Seq(R) /\ Len(f) = n
<1>1. f \in [1..n -> R]
  BY Zenon
<1> QED BY <1>1

LEMMA ConcatSeq ==
  ASSUME NEW R, NEW a \in Seq(R), NEW b \in Seq(R)
  PROVE  /\ a \o b \in Seq(R) /\ Len(a \o b) = Len(a) + Len(b)
         /\ Len(a) \in Nat /\ Len(b) \in Nat
         /\ DOMAIN a = 1..Len(a) /\ DOMAIN (a \o b) = 1..(Len(a) + Len(b))
         /\ \A i \in 1..Len(a) : (a \o b)[i] = a[i]
         /\ \A i \in 1..Len(b) : (a \o b)[Len(a) + i] = b[i]
  OBVIOUS

\* The elements of a concatenation.
LEMMA InConcat ==
  ASSUME NEW R, NEW a \in Seq(R), NEW b \in Seq(R)
  PROVE  ToSet(a \o b) = ToSet(a) \cup ToSet(b)
<1>1. /\ Len(a) \in Nat /\ Len(b) \in Nat /\ DOMAIN (a \o b) = 1..(Len(a) + Len(b))
      /\ DOMAIN a = 1..Len(a) /\ DOMAIN b = 1..Len(b)
      /\ \A i \in 1..Len(a) : (a \o b)[i] = a[i]
      /\ \A i \in 1..Len(b) : (a \o b)[Len(a) + i] = b[i]
  OBVIOUS
<1>2. ASSUME NEW i \in DOMAIN (a \o b) PROVE (a \o b)[i] \in ToSet(a) \cup ToSet(b)
  <2>1. CASE i <= Len(a)
    <3>1. i \in DOMAIN a /\ (a \o b)[i] = a[i]
      BY <1>1, <2>1
    <3> QED BY <3>1 DEF ToSet
  <2>2. CASE ~(i <= Len(a))
    <3>1. i - Len(a) \in DOMAIN b /\ i = Len(a) + (i - Len(a))
      BY <1>1, <2>2
    <3>2. (a \o b)[i] = b[i - Len(a)]
      BY <1>1, <3>1
    <3> QED BY <3>1, <3>2 DEF ToSet
  <2> QED BY <2>1, <2>2
<1>3. \A i \in DOMAIN a : i \in DOMAIN (a \o b) /\ (a \o b)[i] = a[i]
  BY <1>1
<1>4. \A i \in DOMAIN b : Len(a) + i \in DOMAIN (a \o b) /\ (a \o b)[Len(a) + i] = b[i]
  BY <1>1
<1>5. ToSet(a \o b) \subseteq ToSet(a) \cup ToSet(b)
  BY <1>2 DEF ToSet
<1>6. ASSUME NEW i \in DOMAIN a PROVE a[i] \in ToSet(a \o b)
  BY <1>3 DEF ToSet
<1>7. ASSUME NEW i \in DOMAIN b PROVE b[i] \in ToSet(a \o b)
  BY <1>4 DEF ToSet
<1>8. ToSet(a) \subseteq ToSet(a \o b) /\ ToSet(b) \subseteq ToSet(a \o b)
  BY <1>6, <1>7 DEF ToSet
<1> QED BY <1>5, <1>8

\* The function FlattenSeq is defined by.
Flattens(f, seqs, n) ==
  f = [i \in 1..n |-> IF i = 1 THEN seqs[i] ELSE f[i - 1] \o seqs[i]]

LEMMA FlattenExists ==
  ASSUME NEW seqs, NEW n \in Nat
  PROVE  \E f : Flattens(f, seqs, n)
<1> DEFINE Good == {m \in Nat : \E f : Flattens(f, seqs, m)}
<1>1. 0 \in Good
  <2> DEFINE f == [i \in 1..0 |-> 0]
  <2>1. f = [i \in 1..0 |-> IF i = 1 THEN seqs[i] ELSE f[i - 1] \o seqs[i]]
    OBVIOUS
  <2>2. Flattens(f, seqs, 0)
    BY <2>1 DEF Flattens
  <2> QED BY <2>2
<1>2. ASSUME NEW m \in 0..(n - 1), m \in Good PROVE m + 1 \in Good
  <2>1. PICK f : Flattens(f, seqs, m)
    BY <1>2
  <2> DEFINE g == [i \in 1..(m + 1) |->
                     IF i <= m THEN f[i] ELSE IF i = 1 THEN seqs[i] ELSE f[i - 1] \o seqs[i]]
  <2>2. ASSUME NEW i \in 1..(m + 1) PROVE g[i] = IF i = 1 THEN seqs[i] ELSE g[i - 1] \o seqs[i]
    <3>1. m \in Nat /\ (i # 1 => i - 1 \in 1..m /\ i - 1 \in 1..(m + 1))
      OBVIOUS
    <3>2. i # 1 => g[i - 1] = f[i - 1]
      BY <3>1
    <3>3. CASE i <= m
      <4>1. i \in 1..m
        BY <3>1, <3>3
      <4>2. f[i] = IF i = 1 THEN seqs[i] ELSE f[i - 1] \o seqs[i]
        BY <2>1, <4>1, Zenon DEF Flattens
      <4> QED BY <3>2, <3>3, <4>2
    <3>4. CASE ~(i <= m)
      BY <3>2, <3>4
    <3> QED BY <3>3, <3>4
  <2>3. DOMAIN g = 1..(m + 1) /\ g = [i \in DOMAIN g |-> g[i]]
    OBVIOUS
  <2> HIDE DEF g
  <2>4. g = [i \in 1..(m + 1) |-> IF i = 1 THEN seqs[i] ELSE g[i - 1] \o seqs[i]]
    BY <2>2, <2>3
  <2>5. Flattens(g, seqs, m + 1)
    BY <2>4 DEF Flattens
  <2> QED BY <2>5
<1> HIDE DEF Good
<1>3. n \in Good
  BY <1>1, <1>2, CountUp
<1> QED BY <1>3 DEF Good

LEMMA Flattening ==
  ASSUME NEW seqs, Len(seqs) \in Nat, Len(seqs) # 0
  PROVE  \E f : Flattens(f, seqs, Len(seqs)) /\ FlattenSeq(seqs) = f[Len(seqs)]
<1> DEFINE f == CHOOSE f : f = [i \in 1..Len(seqs) |->
                                  IF i = 1 THEN seqs[i] ELSE f[i - 1] \o seqs[i]]
<1>1. FlattenSeq(seqs) = f[Len(seqs)]
  BY DEF FlattenSeq
<1>2. \E g : Flattens(g, seqs, Len(seqs))
  BY FlattenExists
<1>3. Flattens(f, seqs, Len(seqs))
  BY <1>2, Zenon DEF Flattens
<1> HIDE DEF f
<1> QED BY <1>1, <1>3

\* A flattened sequence has exactly the elements of its parts.
LEMMA InFlatten ==
  ASSUME NEW R, NEW seqs \in Seq(Seq(R))
  PROVE  /\ FlattenSeq(seqs) \in Seq(R)
         /\ ToSet(FlattenSeq(seqs)) = UNION {ToSet(seqs[k]) : k \in DOMAIN seqs}
<1> DEFINE n == Len(seqs)
<1>1. n \in Nat /\ DOMAIN seqs = 1..n /\ \A k \in 1..n : seqs[k] \in Seq(R)
  BY ElementOfSeq
<1>2. CASE n = 0
  <2>1. FlattenSeq(seqs) = <<>> /\ DOMAIN seqs = {}
    BY <1>1, <1>2, EmptySeq DEF FlattenSeq
  <2>2. ToSet(<<>>) = {}
    BY DEF ToSet
  <2> QED BY <2>1, <2>2
<1>3. CASE n # 0
  <2>1. PICK f : Flattens(f, seqs, n) /\ FlattenSeq(seqs) = f[n]
    BY <1>1, <1>3, Flattening
  <2> DEFINE Holds(m) == f[m] \in Seq(R) /\ ToSet(f[m]) = UNION {ToSet(seqs[k]) : k \in 1..m}
             Good == {m \in 0..n : m = 0 \/ Holds(m)}
  <2> HIDE DEF n
  <2>2. \A i \in 1..n : f[i] = IF i = 1 THEN seqs[i] ELSE f[i - 1] \o seqs[i]
    BY <2>1, Zenon DEF Flattens
  <2>3. ASSUME NEW m \in 0..(n - 1), m \in Good PROVE m + 1 \in Good
    <3>1. m \in Nat /\ m + 1 \in 1..n /\ seqs[m + 1] \in Seq(R)
      BY <1>1
    <3>2. 1..(m + 1) = (1..m) \cup {m + 1}
      BY <3>1
    <3>3. CASE m = 0
      <4>1. f[m + 1] = seqs[m + 1]
        BY <2>2, <3>1, <3>3
      <4>2. 1..(m + 1) = {m + 1}
        BY <3>3
      <4>3. Holds(m + 1)
        BY <3>1, <4>1, <4>2
      <4> QED BY <1>1, <3>1, <4>3
    <3>4. CASE m # 0
      <4>1. Holds(m)
        BY <2>3, <3>4
      <4>2. f[m + 1] = f[m] \o seqs[m + 1]
        <5>1. m + 1 # 1 /\ (m + 1) - 1 = m
          BY <3>1, <3>4
        <5>2. f[m + 1] = f[(m + 1) - 1] \o seqs[m + 1]
          BY <2>2, <3>1, <5>1, Zenon
        <5> QED BY <5>1, <5>2, Zenon
      <4>3. f[m + 1] \in Seq(R) /\ ToSet(f[m + 1]) = ToSet(f[m]) \cup ToSet(seqs[m + 1])
        <5>1. f[m] \o seqs[m + 1] \in Seq(R)
          BY <3>1, <4>1, ConcatSeq
        <5>2. ToSet(f[m] \o seqs[m + 1]) = ToSet(f[m]) \cup ToSet(seqs[m + 1])
          BY <3>1, <4>1, InConcat
        <5> QED BY <4>2, <5>1, <5>2, Zenon
      <4>4. UNION {ToSet(seqs[k]) : k \in 1..(m + 1)}
              = (UNION {ToSet(seqs[k]) : k \in 1..m}) \cup ToSet(seqs[m + 1])
        BY <3>2
      <4>5. Holds(m + 1)
        BY <4>1, <4>3, <4>4
      <4> QED BY <1>1, <3>1, <4>5
    <3> QED BY <3>3, <3>4
  <2>4. 0 \in Good
    BY <1>1
  <2> HIDE DEF Good
  <2>5. n \in Good
    BY <1>1, <2>3, <2>4, CountUp
  <2> QED BY <1>1, <1>3, <2>1, <2>5 DEF Good
<1> QED BY <1>2, <1>3

-----------------------------------------------------------------------------
(* Division *)

\* What \div and % compute for naturals.
LEMMA Division ==
  ASSUME NEW t \in Nat, NEW b \in Nat \ {0}
  PROVE  \E i, j \in Nat : j < b /\ t = i * b + j
<1> DEFINE Good == {m \in Nat : \E i, j \in Nat : j < b /\ m = i * b + j}
<1>1. 0 \in Good
  <2>1. 0 = 0 * b + 0
    OBVIOUS
  <2> QED BY <2>1
<1>2. ASSUME NEW m \in 0..(t - 1), m \in Good PROVE m + 1 \in Good
  <2>1. PICK i \in Nat, j \in Nat : j < b /\ m = i * b + j
    BY <1>2
  <2>2. CASE j + 1 < b
    <3>1. m + 1 = i * b + (j + 1)
      BY <2>1
    <3>2. j + 1 \in Nat /\ m + 1 \in Nat
      OBVIOUS
    <3> QED BY <2>2, <3>1, <3>2, Zenon
  <2>3. CASE j + 1 = b
    <3>1. m + 1 = (i + 1) * b + 0
      BY <2>1, <2>3
    <3>2. i + 1 \in Nat /\ m + 1 \in Nat /\ 0 \in Nat /\ 0 < b
      OBVIOUS
    <3> QED BY <3>1, <3>2, Zenon
  <2> QED BY <2>1, <2>2, <2>3
<1> HIDE DEF Good
<1>3. t \in Good
  BY <1>1, <1>2, CountUp
<1> QED BY <1>3 DEF Good

LEMMA Modulo ==
  ASSUME NEW t \in Nat, NEW n \in Nat \ {0}
  PROVE  t % n \in 0..(n - 1) /\ (t < n => t % n = t)
  OBVIOUS

LEMMA Quotient ==
  ASSUME NEW a \in Nat, NEW b \in Nat \ {0}
  PROVE  a \div b \in Nat /\ (a \div b) * b <= a /\ a < (a \div b) * b + b
  OBVIOUS

LEMMA TimesMonotone ==
  ASSUME NEW k \in Nat, NEW a \in Nat, NEW b \in Nat, a <= b
  PROVE  k * a <= k * b /\ k * a \in Nat /\ k * b \in Nat
<1>1. k * (b - a) \in Nat /\ k * a \in Nat /\ k * b \in Nat
  <2>1. b - a \in Nat
    OBVIOUS
  <2> QED BY <2>1
<1>2. k * (b - a) = k * b - k * a
  OBVIOUS
<1> QED BY <1>1, <1>2

\* A quotient is the greatest number that many times the divisor fits.
LEMMA TimesNat ==
  ASSUME NEW a \in Nat, NEW b \in Nat
  PROVE  a * b \in Nat
<1>1. b <= b
  OBVIOUS
<1> QED BY <1>1, TimesMonotone

\* A product of larger factors is larger.
LEMMA ProductMonotone ==
  ASSUME NEW a \in Nat, NEW b \in Nat, NEW x \in Nat, NEW y \in Nat, a <= x, b <= y
  PROVE  a * b <= x * y
<1>1. a * b <= a * y /\ a * b \in Nat /\ a * y \in Nat
  BY TimesMonotone
<1>2. y * a <= y * x /\ x * y \in Nat
  BY TimesMonotone, TimesNat
<1>3. y * a = a * y /\ y * x = x * y
  OBVIOUS
<1> QED BY <1>1, <1>2, <1>3

LEMMA QuotientGreatest ==
  ASSUME NEW a \in Nat, NEW b \in Nat \ {0}, NEW q \in Nat, q * b <= a
  PROVE  q <= a \div b
<1> DEFINE r == a \div b
<1>1. r \in Nat /\ a < r * b + b
  BY Quotient
<1> HIDE DEF r
<1>2. SUFFICES ASSUME r + 1 <= q PROVE FALSE
  BY <1>1 DEF r
<1>3. b * (r + 1) <= b * q
  BY <1>1, <1>2, TimesMonotone
<1>4. b * (r + 1) = r * b + b /\ b * q = q * b /\ r * b \in Nat /\ q * b \in Nat
  BY <1>1
<1> QED BY <1>1, <1>3, <1>4

\* Quotients are ordered as the fractions are.
LEMMA QuotientMonotone ==
  ASSUME NEW u \in Nat, NEW v \in Nat \ {0}, NEW x \in Nat, NEW y \in Nat \ {0}, u * y <= x * v
  PROVE  u \div v <= x \div y
<1> DEFINE q == u \div v
<1>1. q \in Nat /\ q * v <= u
  BY Quotient
<1> HIDE DEF q
<1>2. y * (q * v) <= y * u
  <2>1. q * v \in Nat
    BY <1>1
  <2> QED BY <1>1, <2>1, TimesMonotone
<1>3. v * (q * y) <= v * x
  <2>1. y * (q * v) = v * (q * y) /\ y * u = u * y /\ x * v = v * x
    BY <1>1
  <2>2. y * (q * v) \in Nat /\ y * u \in Nat /\ v * x \in Nat
    BY <1>1
  <2> QED BY <1>2, <2>1, <2>2
<1>4. q * y <= x
  <2> SUFFICES ASSUME x + 1 <= q * y PROVE FALSE
    BY <1>1
  <2>1. q * y \in Nat
    BY <1>1
  <2>2. v * (x + 1) <= v * (q * y)
    BY <2>1, TimesMonotone
  <2>3. v * (x + 1) = v * x + v /\ v * x \in Nat /\ v * (q * y) \in Nat
    BY <2>1
  <2> QED BY <1>3, <2>2, <2>3
<1> QED BY <1>1, <1>4, QuotientGreatest DEF q

LEMMA Remainder ==
  ASSUME NEW t \in Nat, NEW b \in Nat \ {0}, NEW i \in Nat, NEW j \in Nat, j < b, t = i * b + j
  PROVE  t % b = j /\ t \div b = i
  OBVIOUS

LEMMA NextRemainder ==
  ASSUME NEW s \in Nat, NEW n \in Nat \ {0}
  PROVE  (s + 1) % n = IF (s % n) + 1 = n THEN 0 ELSE (s % n) + 1
<1>1. PICK q \in Nat : \E r \in Nat : r < n /\ s = q * n + r
  BY Division
<1>2. PICK r \in Nat : r < n /\ s = q * n + r
  BY <1>1
<1>3. s % n = r
  BY <1>2, Remainder
<1>4. CASE r + 1 < n
  <2>1. s + 1 = q * n + (r + 1) /\ r + 1 \in Nat /\ s + 1 \in Nat
    BY <1>2
  <2>2. (s + 1) % n = r + 1
    BY <1>4, <2>1, Remainder
  <2> QED BY <1>3, <1>4, <2>2
<1>5. CASE r + 1 = n
  <2>1. \E i \in Nat : s + 1 = i * n + 0
    <3>1. s + 1 = (q + 1) * n + 0 /\ q + 1 \in Nat
      BY <1>2, <1>5
    <3> QED BY <3>1, Zenon
  <2>2. (s + 1) % n = 0
    <3>1. PICK i \in Nat : s + 1 = i * n + 0
      BY <2>1
    <3>2. s + 1 \in Nat /\ 0 \in Nat /\ 0 < n
      OBVIOUS
    <3> QED BY <3>1, <3>2, Remainder
  <2> QED BY <1>3, <1>5, <2>2
<1> QED BY <1>2, <1>4, <1>5

-----------------------------------------------------------------------------
(* Largest numbers *)

LEMMA LargestNumber ==
  ASSUME NEW S \in SUBSET Int, IsFiniteSet(S), S # {}
  PROVE  Max(S) \in S /\ \A x \in S : x <= Max(S)
<1> DEFINE Has(T) == T = {} \/ \E m \in T : \A x \in T : m >= x
           Good == {T \in SUBSET S : Has(T)}
<1>1. {} \in Good
  OBVIOUS
<1>2. ASSUME NEW T \in SUBSET S, NEW a \in T, T \ {a} \in Good PROVE T \in Good
  <2>1. CASE T \ {a} = {}
    <3>1. \A x \in T : a >= x
      BY <2>1
    <3> QED BY <3>1
  <2>2. CASE T \ {a} # {}
    <3>1. PICK m \in T \ {a} : \A x \in T \ {a} : m >= x
      BY <1>2, <2>2
    <3>2. CASE m >= a
      <4>1. \A x \in T : m >= x
        BY <3>1, <3>2
      <4> QED BY <4>1
    <3>3. CASE ~(m >= a)
      <4>1. \A x \in T : a >= x
        BY <3>1, <3>3
      <4> QED BY <4>1
    <3> QED BY <3>2, <3>3
  <2> QED BY <2>1, <2>2
<1>3. S \in Good
  <2> HIDE DEF Good
  <2> QED BY <1>1, <1>2, SetByElements
<1>4. \E m \in S : \A x \in S : m >= x
  BY <1>3
<1>5. Max(S) \in S /\ \A x \in S : Max(S) >= x
  BY <1>4 DEF Max
<1> QED BY <1>5

\* There are finitely many functions from one finite set into another.
LEMMA FiniteFunctions ==
  ASSUME NEW S, IsFiniteSet(S), NEW T, IsFiniteSet(T)
  PROVE  IsFiniteSet([S -> T])
<1> DEFINE Good == {R \in SUBSET S : IsFiniteSet([R -> T])}
<1>1. {} \in Good
  <2> DEFINE empty == [x \in {} |-> 0]
  <2>1. [{} -> T] \subseteq {empty}
    OBVIOUS
  <2>2. IsFiniteSet({empty})
    BY FS_Singleton
  <2> HIDE DEF empty
  <2>3. IsFiniteSet([{} -> T])
    BY <2>1, <2>2, FS_Subset
  <2> QED BY <2>3
<1>2. ASSUME NEW R \in SUBSET S, NEW a \in R, R \ {a} \in Good PROVE R \in Good
  <2> DEFINE pairs == [(R \ {a}) -> T] \X T
             join == [pr \in pairs |-> [x \in R |-> IF x = a THEN pr[2] ELSE pr[1][x]]]
             joined == {join[pr] : pr \in pairs}
  <2>1. IsFiniteSet(pairs)
    BY <1>2, FS_Product
  <2>2. IsFiniteSet(joined)
    <3> HIDE DEF pairs, join
    <3> QED BY <2>1, FiniteImage
  <2>3. ASSUME NEW f \in [R -> T] PROVE f \in joined
    <3> DEFINE g == [x \in R \ {a} |-> f[x]]
    <3>1. <<g, f[a]>> \in pairs
      OBVIOUS
    <3>2. join[<<g, f[a]>>] = [x \in R |-> IF x = a THEN f[a] ELSE g[x]]
      BY <3>1
    <3>3. [x \in R |-> IF x = a THEN f[a] ELSE g[x]] = f
      OBVIOUS
    <3>4. f = join[<<g, f[a]>>]
      BY <3>2, <3>3
    <3> HIDE DEF join, pairs, g
    <3> QED BY <3>1, <3>4
  <2>4. IsFiniteSet([R -> T])
    <3> HIDE DEF joined
    <3>1. [R -> T] \subseteq joined
      BY <2>3
    <3> QED BY <2>2, <3>1, FS_Subset
  <2> QED BY <2>4
<1>3. S \in Good
  <2> HIDE DEF Good
  <2> QED BY <1>1, <1>2, SetByElements
<1> QED BY <1>3

LEMMA LargerOfTwo ==
  ASSUME NEW a \in Int, NEW b \in Int
  PROVE  Max({a, b}) = IF a >= b THEN a ELSE b
<1>1. {a, b} \in SUBSET Int /\ IsFiniteSet({a, b}) /\ {a, b} # {}
  <2>1. IsFiniteSet({a}) /\ {a, b} = {a} \cup {b}
    BY FS_Singleton
  <2> QED BY <2>1, FS_AddElement
<1>2. Max({a, b}) \in {a, b} /\ \A x \in {a, b} : x <= Max({a, b})
  BY <1>1, LargestNumber
<1> QED BY <1>2

-----------------------------------------------------------------------------
(* Counting by kind, and along sequences *)

\* How many elements are of some kind is the sum over the kinds.
LEMMA CountBy ==
  ASSUME NEW S, IsFiniteSet(S), NEW T, IsFiniteSet(T), NEW f,
         NEW kind, \A t \in T : \A s : s \in kind[t] <=> s \in S /\ f[s] = t,
         NEW count, \A t \in T : count[t] = Cardinality(kind[t]),
         NEW U, \A s : s \in U <=> s \in S /\ f[s] \in T
  PROVE  SumFunctionOnSet(count, T) = Cardinality(U)
<1> DEFINE Of(R) == {s \in S : f[s] \in R}
           Good == {R \in SUBSET T : SumFunctionOnSet(count, R) = Cardinality(Of(R))}
<1>0. \A R : IsFiniteSet(Of(R)) /\ Cardinality(Of(R)) \in Nat
  BY FS_Subset, FS_CardinalityType
<1>1. {} \in Good
  <2>1. SumFunctionOnSet(count, {}) = 0 /\ Cardinality({}) = 0
    BY SumEmpty, FS_EmptySet
  <2>2. Of({}) = {}
    OBVIOUS
  <2> HIDE DEF Of
  <2> QED BY <2>1, <2>2
<1>2. ASSUME NEW R \in SUBSET T, NEW a \in R, R \ {a} \in Good PROVE R \in Good
  <2>1. count[a] = Cardinality(Of({a}))
    <3>1. kind[a] = Of({a})
      OBVIOUS
    <3> HIDE DEF Of
    <3> QED BY <3>1
  <2>2. Of(R) = Of({a}) \cup Of(R \ {a}) /\ Of({a}) \cap Of(R \ {a}) = {}
    OBVIOUS
  <2>3. \A x \in R : count[x] \in Int
    <3> TAKE x \in R
    <3>1. kind[x] \in SUBSET S /\ count[x] = Cardinality(kind[x])
      OBVIOUS
    <3>2. IsFiniteSet(kind[x])
      BY <3>1, FS_Subset
    <3> QED BY <3>1, <3>2, FS_CardinalityType
  <2>4. SumFunctionOnSet(count, R \ {a}) = Cardinality(Of(R \ {a}))
    BY <1>2
  <2>5. SumFunctionOnSet(count, R) = count[a] + SumFunctionOnSet(count, R \ {a})
    <3>1. IsFiniteSet(R)
      BY FS_Subset
    <3> QED BY <2>3, <3>1, SumRemove
  <2> HIDE DEF Of
  <2>6. Cardinality(Of(R)) = Cardinality(Of({a})) + Cardinality(Of(R \ {a}))
    <3>1. Cardinality(Of({a}) \cup Of(R \ {a}))
            = Cardinality(Of({a})) + Cardinality(Of(R \ {a})) - Cardinality(Of({a}) \cap Of(R \ {a}))
      BY <1>0, FS_Union
    <3>2. Cardinality(Of({a}) \cap Of(R \ {a})) = 0
      BY <2>2, FS_EmptySet
    <3>3. Cardinality(Of({a})) \in Nat /\ Cardinality(Of(R \ {a})) \in Nat
      BY <1>0
    <3>4. Cardinality(Of(R)) = Cardinality(Of({a}) \cup Of(R \ {a}))
      BY <2>2, Zenon
    <3> QED BY <3>1, <3>2, <3>3, <3>4
  <2> QED BY <2>1, <2>4, <2>5, <2>6
<1>3. T \in Good
  <2> HIDE DEF Good
  <2> QED BY <1>1, <1>2, SetByElements
<1>4. U = Of(T)
  OBVIOUS
<1> HIDE DEF Of
<1> QED BY <1>3, <1>4

\* Images under an injection are as many.
LEMMA SameNumber ==
  ASSUME NEW S, IsFiniteSet(S), NEW T, NEW f, \A x \in S : f[x] \in T,
         \A x, y \in S : f[x] = f[y] => x = y, \A t \in T : \E x \in S : f[x] = t
  PROVE  IsFiniteSet(T) /\ Cardinality(T) = Cardinality(S)
<1> DEFINE g == [x \in S |-> f[x]]
<1>1. g \in Injection(S, T) /\ g \in Surjection(S, T)
  BY DEF Injection, Surjection, IsInjective
<1>2. ExistsBijection(S, T)
  BY <1>1 DEF ExistsBijection, Bijection
<1> QED BY <1>2, FS_Bijection

\* The entries of a sequence up to w.
Upto(ns, w) == {i \in DOMAIN ns : ns[i] <= w}

LEMMA UptoFinite ==
  ASSUME NEW ns \in Seq(Int), NEW w
  PROVE  IsFiniteSet(Upto(ns, w)) /\ Cardinality(Upto(ns, w)) \in Nat
<1>1. IsFiniteSet(DOMAIN ns)
  <2>1. DOMAIN ns = 1..Len(ns) /\ Len(ns) \in Nat
    OBVIOUS
  <2> QED BY <2>1, FS_Interval
<1> QED BY <1>1, FS_Subset, FS_CardinalityType DEF Upto

LEMMA CountConcat ==
  ASSUME NEW a \in Seq(Int), NEW b \in Seq(Int), NEW w \in Int
  PROVE  Cardinality(Upto(a \o b, w)) = Cardinality(Upto(a, w)) + Cardinality(Upto(b, w))
<1> DEFINE n == Len(a)
           shift == [i \in DOMAIN b |-> n + i]
           later == {n + i : i \in Upto(b, w)}
<1>1. /\ n \in Nat /\ Len(b) \in Nat /\ DOMAIN a = 1..n /\ DOMAIN b = 1..Len(b)
      /\ DOMAIN (a \o b) = 1..(n + Len(b))
      /\ \A i \in 1..n : (a \o b)[i] = a[i]
      /\ \A i \in 1..Len(b) : (a \o b)[n + i] = b[i]
  BY ConcatSeq
<1> HIDE DEF n
<1>2. Upto(a \o b, w) = Upto(a, w) \cup later
  <2>1. ASSUME NEW i \in Upto(a \o b, w) PROVE i \in Upto(a, w) \cup later
    <3>1. i \in 1..(n + Len(b)) /\ (a \o b)[i] <= w
      BY <1>1 DEF Upto
    <3>2. CASE i <= n
      BY <1>1, <3>1, <3>2 DEF Upto
    <3>3. CASE ~(i <= n)
      <4>1. i - n \in 1..Len(b) /\ i = n + (i - n)
        BY <1>1, <3>1, <3>3
      <4>2. i - n \in Upto(b, w)
        BY <1>1, <3>1, <4>1 DEF Upto
      <4> QED BY <4>1, <4>2
    <3> QED BY <3>2, <3>3
  <2>2. ASSUME NEW i \in Upto(a, w) PROVE i \in Upto(a \o b, w)
    BY <1>1 DEF Upto
  <2>3. ASSUME NEW i \in Upto(b, w) PROVE n + i \in Upto(a \o b, w)
    BY <1>1 DEF Upto
  <2> QED BY <2>1, <2>2, <2>3
<1>3. Upto(a, w) \cap later = {}
  BY <1>1 DEF Upto
<1>4. IsFiniteSet(later) /\ Cardinality(later) = Cardinality(Upto(b, w))
  <2>0. IsFiniteSet(Upto(b, w))
    BY UptoFinite
  <2>1. /\ \A i \in Upto(b, w) : i \in DOMAIN b /\ shift[i] = n + i /\ i \in Nat
        /\ IsFiniteSet(Upto(b, w))
    BY <1>1, <2>0 DEF Upto
  <2> HIDE DEF shift
  <2>2. \A i, j \in Upto(b, w) : shift[i] = shift[j] => i = j
    BY <1>1, <2>1
  <2>3. /\ \A i \in Upto(b, w) : shift[i] \in later
        /\ \A t \in later : \E i \in Upto(b, w) : shift[i] = t
    BY <2>1
  <2> HIDE DEF later
  <2> QED BY <2>1, <2>2, <2>3, SameNumber
<1>5. IsFiniteSet(Upto(a, w)) /\ Cardinality(Upto(a, w)) \in Nat /\ Cardinality(Upto(b, w)) \in Nat
  BY UptoFinite
<1> HIDE DEF later
<1>6. Cardinality(Upto(a, w) \cup later)
        = Cardinality(Upto(a, w)) + Cardinality(later) - Cardinality(Upto(a, w) \cap later)
  BY <1>4, <1>5, FS_Union
<1>7. Cardinality(Upto(a, w) \cap later) = 0
  BY <1>3, FS_EmptySet
<1> QED BY <1>2, <1>4, <1>5, <1>6, <1>7

\* Flattening one more part appends it.
LEMMA FlattenAppend ==
  ASSUME NEW R, NEW seqs \in Seq(Seq(R)), NEW more \in Seq(Seq(R)), Len(more) = Len(seqs) + 1,
         \A i \in 1..Len(seqs) : more[i] = seqs[i]
  PROVE  FlattenSeq(more) = FlattenSeq(seqs) \o more[Len(more)]
<1> DEFINE n == Len(seqs)
<1>1. n \in Nat /\ Len(more) = n + 1 /\ more[n + 1] \in Seq(R)
  BY ElementOfSeq
<1>2. PICK g : Flattens(g, more, n + 1) /\ FlattenSeq(more) = g[n + 1]
  <2>1. Len(more) \in Nat /\ Len(more) # 0
    BY <1>1
  <2>2. \E g : Flattens(g, more, Len(more)) /\ FlattenSeq(more) = g[Len(more)]
    BY <2>1, Flattening
  <2> QED BY <1>1, <2>2
<1> HIDE DEF n
<1>3. \A i \in 1..(n + 1) : g[i] = IF i = 1 THEN more[i] ELSE g[i - 1] \o more[i]
  BY <1>2, Zenon DEF Flattens
<1>4. CASE n = 0
  <2>1. FlattenSeq(more) = more[1]
    <3>1. 1 \in 1..(n + 1) /\ n + 1 = 1
      BY <1>4
    <3> QED BY <1>2, <1>3, <3>1
  <2>2. FlattenSeq(seqs) = <<>>
    <3>1. seqs = <<>>
      BY <1>4, EmptySeq DEF n
    <3>2. FlattenSeq(seqs) = seqs
      BY <1>4 DEF FlattenSeq, n
    <3> QED BY <3>1, <3>2
  <2>3. <<>> \o more[1] = more[1]
    <3>1. more[1] \in Seq(R)
      BY <1>1, <1>4
    <3> QED BY <3>1
  <2> QED BY <1>1, <1>4, <2>1, <2>2, <2>3
<1>5. CASE n # 0
  <2>1. PICK f : Flattens(f, seqs, n) /\ FlattenSeq(seqs) = f[n]
    <3>1. \E f : Flattens(f, seqs, Len(seqs)) /\ FlattenSeq(seqs) = f[Len(seqs)]
      BY <1>1, <1>5, Flattening DEF n
    <3> QED BY <3>1 DEF n
  <2>2. \A i \in 1..n : f[i] = IF i = 1 THEN seqs[i] ELSE f[i - 1] \o seqs[i]
    BY <2>1, Zenon DEF Flattens
  <2> DEFINE Good == {m \in 0..n : m = 0 \/ f[m] = g[m]}
  <2>3. ASSUME NEW m \in 0..(n - 1), m \in Good PROVE m + 1 \in Good
    <3>1. m \in Nat /\ m + 1 \in 1..n /\ m + 1 \in 1..(n + 1) /\ (m + 1) - 1 = m
      BY <1>1
    <3>2. /\ f[m + 1] = IF m + 1 = 1 THEN seqs[m + 1] ELSE f[(m + 1) - 1] \o seqs[m + 1]
          /\ g[m + 1] = IF m + 1 = 1 THEN more[m + 1] ELSE g[(m + 1) - 1] \o more[m + 1]
          /\ more[m + 1] = seqs[m + 1]
      BY <1>3, <2>2, <3>1, Zenon DEF n
    <3>3. m = 0 => m + 1 = 1
      OBVIOUS
    <3>4. m # 0 => f[(m + 1) - 1] = g[(m + 1) - 1]
      BY <2>3, <3>1
    <3>5. f[m + 1] = g[m + 1]
      BY <3>2, <3>3, <3>4, Zenon
    <3> QED BY <1>1, <3>1, <3>5
  <2>4. 0 \in Good
    BY <1>1
  <2> HIDE DEF Good
  <2>5. n \in Good
    BY <1>1, <2>3, <2>4, CountUp
  <2>6. f[n] = g[n]
    BY <1>5, <2>5 DEF Good
  <2>7. g[n + 1] = g[n] \o more[n + 1]
    <3>1. n + 1 \in 1..(n + 1) /\ n + 1 # 1 /\ (n + 1) - 1 = n
      BY <1>1, <1>5
    <3>2. g[n + 1] = g[(n + 1) - 1] \o more[n + 1]
      BY <1>3, <3>1, Zenon
    <3> QED BY <3>1, <3>2, Zenon
  <2> QED BY <1>1, <1>2, <2>1, <2>6, <2>7
<1> QED BY <1>4, <1>5

\* The sequence of a finite set has each of its elements once.
LEMMA SetAsSeq ==
  ASSUME NEW S, IsFiniteSet(S)
  PROVE  LET q == SetToSeq(S)
         IN  /\ q \in [1..Cardinality(S) -> S] /\ Cardinality(S) \in Nat
             /\ \A i, j \in 1..Cardinality(S) : q[i] = q[j] => i = j
             /\ \A x \in S : \E i \in 1..Cardinality(S) : q[i] = x
<1> DEFINE n == Cardinality(S)
           q == SetToSeq(S)
<1>1. n \in Nat /\ ExistsBijection(1..n, S)
  BY FS_CardinalityType
<1>2. PICK b \in [1..n -> S] : IsInjective(b)
  BY <1>1 DEF ExistsBijection, Bijection, Injection
<1>3. q \in [1..n -> S] /\ IsInjective(q)
  BY <1>2 DEF SetToSeq
<1> HIDE DEF q
<1>4. q \in Injection(1..n, S)
  BY <1>3 DEF Injection
<1>5. q \in Surjection(1..n, S)
  <2>1. IsFiniteSet(1..n) /\ Cardinality(1..n) = n
    BY <1>1, FS_Interval
  <2> HIDE DEF n
  <2> QED BY <1>4, <2>1, FS_Injection DEF n
<1>6. \A i, j \in 1..n : q[i] = q[j] => i = j
  BY <1>3 DEF IsInjective
<1>7. \A x \in S : \E i \in 1..n : q[i] = x
  BY <1>5 DEF Surjection
<1> QED BY <1>1, <1>3, <1>6, <1>7 DEF q
=============================================================================
