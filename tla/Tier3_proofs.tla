---------------------------- MODULE Tier3_proofs ----------------------------
(***************************************************************************)
(* What the planners of Tier 3 promise for any configuration: the learned  *)
(* curve, for any number of buckets and any feedback, and the solver's     *)
(* plans, for any fleets, coverage, demand and weights of the objective.   *)
(***************************************************************************)
EXTENDS Tier3, DataLemmas

\* The largest elements and the sums of the instances are those of the lemmas.
LEMMA SameOperators ==
  /\ \A S : Adaptive!Max(S) = Max(S) /\ Solver!Max(S) = Max(S)
  /\ \A f : \A S : Solver!SumFunctionOnSet(f, S) = SumFunctionOnSet(f, S)
  /\ \A f : Solver!SumFunction(f) = SumFunctionOnSet(f, DOMAIN f)
  /\ \A S : Solver!IsFiniteSet(S) <=> IsFiniteSet(S)
  /\ \A f : Solver!Range(f) = Range(f)
<1>1. \A S : Adaptive!Max(S) = Max(S) /\ Solver!Max(S) = Max(S)
  BY Zenon DEF Max, Adaptive!Max, Solver!Max
<1>2. \A f : \A S : Solver!SumFunctionOnSet(f, S) = SumFunctionOnSet(f, S)
  BY Zenon DEF Solver!SumFunctionOnSet, Solver!FoldFunctionOnSet, Solver!MapThenFoldSet,
     SumFunctionOnSet, FoldFunctionOnSet, MapThenFoldSet
<1>3. \A f : Solver!SumFunction(f) = SumFunctionOnSet(f, DOMAIN f)
  BY <1>2, Zenon DEF Solver!SumFunction
<1>4. \A S : Solver!IsFiniteSet(S) <=> IsFiniteSet(S)
  BY Zenon DEF IsFiniteSet, Solver!IsFiniteSet
<1>5. \A f : Solver!Range(f) = Range(f)
  BY Zenon DEF Range, Solver!Range
<1> QED BY <1>1, <1>2, <1>3, <1>4, <1>5

-----------------------------------------------------------------------------
(* The learned curve *)

\* Every bucket admits with a probability, and a higher one with no less.
CurveInv ==
  /\ p \in [1..Buckets -> 0..One]
  /\ \A i, j \in 1..Buckets : i <= j => p[i] <= p[j]

LEMMA CurveConstants ==
  Buckets \in Nat \ {0} /\ One \in Nat \ {0} /\ FloorMin \in 0..One /\ Signals \subseteq Int
BY Tier3Assumption DEF Adaptive!CurveAssumption

LEMMA LearnStep ==
  ASSUME CurveInv, Adaptive!Learn
  PROVE  CurveInv'
<1>1. PICK s \in Signals, part \in Adaptive!Parts :
        p' = Adaptive!Monotone(Adaptive!Nudged(s, part))
  BY DEF Adaptive!Learn
<1> DEFINE raw == Adaptive!Nudged(s, part)
           upto(i) == {raw[j] : j \in 1..i}
<1>2. ASSUME NEW i \in 1..Buckets PROVE raw[i] \in 0..One
  <2>1. p[i] + Adaptive!Grade(i) * s + part[i] \in Int
    <3>1. Adaptive!Grade(i) \in Int /\ s \in Int /\ p[i] \in Int
      BY CurveConstants DEF Adaptive!Grade, CurveInv
    <3>2. part[i] \in 0..Adaptive!Grade(1)
      BY DEF Adaptive!Parts, Adaptive!Buckets1
    <3>3. part[i] \in Int
      BY <3>2
    <3> QED BY <3>1, <3>3
  <2>2. raw[i] = Adaptive!Clamp(p[i] + Adaptive!Grade(i) * s + part[i])
    BY DEF Adaptive!Nudged, Adaptive!Buckets1
  <2> HIDE DEF raw
  <2> QED BY <2>1, <2>2, CurveConstants DEF Adaptive!Clamp
<1>3. p' = [i \in 1..Buckets |-> Max(upto(i))]
  <2>1. p' = [i \in 1..Buckets |-> Adaptive!Max(upto(i))]
    BY <1>1 DEF Adaptive!Monotone, Adaptive!Buckets1
  <2> HIDE DEF upto
  <2> QED BY <2>1, SameOperators
<1> HIDE DEF raw
<1>4. ASSUME NEW i \in 1..Buckets
      PROVE  Max(upto(i)) \in upto(i) /\ \A x \in upto(i) : x <= Max(upto(i))
  <2>1. 1..i \subseteq 1..Buckets /\ 1 \in 1..i /\ i \in Nat
    BY CurveConstants
  <2>2. upto(i) \in SUBSET Int /\ upto(i) # {}
    BY <1>2, <2>1
  <2>3. IsFiniteSet(upto(i))
    <3>1. IsFiniteSet(1..i)
      BY <2>1, FS_Interval
    <3> QED BY <3>1, FiniteImage, Zenon
  <2> HIDE DEF upto
  <2> QED BY <2>2, <2>3, LargestNumber
<1>5. ASSUME NEW i \in 1..Buckets PROVE Max(upto(i)) \in 0..One
  <2>1. \A j \in 1..i : j \in 1..Buckets
    BY CurveConstants
  <2> QED BY <1>2, <1>4, <2>1
<1>6. ASSUME NEW i \in 1..Buckets, NEW j \in 1..Buckets, i <= j
      PROVE  Max(upto(i)) <= Max(upto(j))
  <2>1. upto(i) \subseteq upto(j)
    BY <1>6
  <2> HIDE DEF upto
  <2> QED BY <1>4, <2>1
<1> HIDE DEF upto
<1> QED BY <1>3, <1>5, <1>6 DEF CurveInv

LEMMA CurveInvariant == Spec => []CurveInv
<1>1. Init => CurveInv
  BY CurveConstants DEF Init, Adaptive!Init, Adaptive!Buckets1, CurveInv
<1>2. CurveInv /\ [Next]_vars => CurveInv'
  <2> SUFFICES ASSUME CurveInv, [Next]_vars PROVE CurveInv'
    OBVIOUS
  <2>1. CASE PlanByLearning
    BY <2>1, LearnStep DEF PlanByLearning
  <2>2. CASE UNCHANGED curveVars
    BY <2>2 DEF CurveInv, curveVars
  <2> QED BY <2>1, <2>2 DEF Next, PlanByFormula, PlanBySolver, vars
<1> QED BY <1>1, <1>2, PTL DEF Spec

\* The breakpoints of the curve, and what it admits between two of them.
X(k) == Adaptive!Curve[k].x
Y(k) == Adaptive!Curve[k].y

LEMMA Breakpoints ==
  ASSUME CurveInv, NEW k \in 0..(Buckets + 1)
  PROVE  /\ X(k) = IF k = 0 THEN 0 ELSE IF k = Buckets + 1 THEN 4 * Buckets ELSE 4 * k - 2
         /\ Y(k) = IF k = 0 THEN p[1] ELSE IF k = Buckets + 1 THEN One ELSE p[k]
         /\ Y(k) \in 0..One
         /\ \A l \in 0..(Buckets + 1) : k <= l => Y(k) <= Y(l)
<1>1. \A i \in 0..(Buckets + 1) :
        /\ X(i) = IF i = 0 THEN 0 ELSE IF i = Buckets + 1 THEN 4 * Buckets ELSE 4 * i - 2
        /\ Y(i) = IF i = 0 THEN p[1] ELSE IF i = Buckets + 1 THEN One ELSE p[i]
  BY DEF X, Y, Adaptive!Curve, Adaptive!ScoreTop
<1>2. \A i \in 1..Buckets : p[i] \in 0..One
  BY DEF CurveInv
<1>3. \A i \in 0..(Buckets + 1) : i # 0 /\ i # Buckets + 1 => i \in 1..Buckets
  BY CurveConstants
<1>4. 1 \in 1..Buckets
  BY CurveConstants
<1>5. \A i \in 0..(Buckets + 1) : Y(i) \in 0..One
  BY <1>1, <1>2, <1>3, <1>4, CurveConstants
<1>6. ASSUME NEW l \in 0..(Buckets + 1), k <= l PROVE Y(k) <= Y(l)
  <2>1. CASE l = Buckets + 1
    BY <1>1, <1>5, <2>1, CurveConstants
  <2>2. CASE l # Buckets + 1
    <3>1. k # Buckets + 1 /\ (l = 0 => k = 0)
      BY <1>6, <2>2, CurveConstants
    <3> DEFINE a == IF k = 0 THEN 1 ELSE k
               b == IF l = 0 THEN 1 ELSE l
    <3>2. a \in 1..Buckets /\ b \in 1..Buckets /\ a <= b
      BY <1>3, <1>4, <1>6, <2>2, <3>1, CurveConstants
    <3>3. Y(k) = p[a] /\ Y(l) = p[b]
      BY <1>1, <2>2, <3>1
    <3> HIDE DEF a, b
    <3> QED BY <3>2, <3>3 DEF CurveInv
  <2> QED BY <2>1, <2>2
<1> QED BY <1>1, <1>5, <1>6

LEMMA SegmentOfScore ==
  ASSUME CurveInv, NEW score \in 0..(4 * Buckets)
  PROVE  /\ Adaptive!Segment(score) \in 0..Buckets
         /\ X(Adaptive!Segment(score)) <= score /\ score <= X(Adaptive!Segment(score) + 1)
<1>1. \E k \in 0..Buckets : X(k) <= score /\ score <= X(k + 1)
  <2>1. score \in Nat /\ Buckets \in Nat \ {0} /\ score <= 4 * Buckets
    BY CurveConstants
  <2>2. PICK k \in Nat : 4 * k <= score + 2 /\ score + 2 < 4 * k + 4
    <3>1. (score + 2) \div 4 \in Nat /\ 4 * ((score + 2) \div 4) <= score + 2
          /\ score + 2 < 4 * ((score + 2) \div 4) + 4
      BY <2>1
    <3> QED BY <3>1
  <2>3. k \in 0..Buckets /\ k \in 0..(Buckets + 1) /\ k + 1 \in 0..(Buckets + 1)
    BY <2>1, <2>2
  <2>4. /\ X(k) = IF k = 0 THEN 0 ELSE 4 * k - 2
        /\ X(k + 1) = IF k = Buckets THEN 4 * Buckets ELSE 4 * (k + 1) - 2
    BY <2>1, <2>3, Breakpoints
  <2> QED BY <2>1, <2>2, <2>3, <2>4
<1>2. Adaptive!Segment(score) = CHOOSE k \in 0..Buckets : X(k) <= score /\ score <= X(k + 1)
  BY DEF Adaptive!Segment, X
<1> QED BY <1>1, <1>2

\* In units of a quarter of a segment, how far the score is from its lower end.
Along(score, k) == (score - X(k)) * (4 \div (X(k + 1) - X(k)))

LEMMA Interpolated ==
  ASSUME CurveInv, NEW score \in 0..(4 * Buckets), NEW k \in 0..Buckets,
         X(k) <= score, score <= X(k + 1)
  PROVE  /\ Along(score, k) \in 0..4
         /\ score = X(k) => Along(score, k) = 0
         /\ score = X(k + 1) => Along(score, k) = 4
         /\ \A t \in 0..(4 * Buckets) : score <= t /\ t <= X(k + 1) => Along(score, k) <= Along(t, k)
         /\ X(k) \in Int /\ X(k + 1) \in Int
<1>1. k \in 0..(Buckets + 1) /\ k + 1 \in 0..(Buckets + 1) /\ Buckets \in Nat \ {0}
  BY CurveConstants
<1>2. /\ X(k) = IF k = 0 THEN 0 ELSE 4 * k - 2
      /\ X(k + 1) = IF k = Buckets THEN 4 * Buckets ELSE 4 * (k + 1) - 2
  BY <1>1, Breakpoints
<1>3. X(k) \in Int /\ X(k + 1) \in Int /\ X(k + 1) - X(k) \in {2, 4}
  BY <1>1, <1>2
<1> DEFINE w == X(k + 1) - X(k)
<1>4. 4 \div w \in {1, 2} /\ w * (4 \div w) = 4 /\ w \in {2, 4}
  BY <1>3
<1>5. \A t \in 0..(4 * Buckets) : Along(t, k) = (t - X(k)) * (4 \div w)
  BY DEF Along
<1>6. \A t \in 0..(4 * Buckets) : t \in Int
  OBVIOUS
<1> DEFINE m == 4 \div w
<1>7. (w = 2 /\ m = 2) \/ (w = 4 /\ m = 1)
  BY <1>4
<1>8. \A t \in 0..(4 * Buckets) : Along(t, k) = (t - X(k)) * m
  BY <1>5
<1>9. X(k + 1) = X(k) + w
  BY <1>3
<1> HIDE DEF m, w
<1> QED BY <1>3, <1>6, <1>7, <1>8, <1>9

LEMMA AdmitBySegment ==
  ASSUME CurveInv, NEW score \in 0..(4 * Buckets)
  PROVE  \E k \in 0..Buckets :
           /\ X(k) <= score /\ score <= X(k + 1) /\ Along(score, k) \in 0..4
           /\ Y(k) \in 0..One /\ Y(k + 1) \in 0..One /\ Y(k) <= Y(k + 1)
           /\ Adaptive!AdmitProbability(score) = 4 * Y(k) + Along(score, k) * (Y(k + 1) - Y(k))
<1> DEFINE k == Adaptive!Segment(score)
<1>1. k \in 0..Buckets /\ X(k) <= score /\ score <= X(k + 1)
  BY SegmentOfScore
<1>2. Adaptive!AdmitProbability(score) = 4 * Y(k) + Along(score, k) * (Y(k + 1) - Y(k))
  BY Zenon DEF Adaptive!AdmitProbability, X, Y, Along
<1> HIDE DEF k
<1>3. k \in 0..(Buckets + 1) /\ k + 1 \in 0..(Buckets + 1) /\ k <= k + 1
  BY <1>1, CurveConstants
<1>4. Y(k) \in 0..One /\ Y(k + 1) \in 0..One /\ Y(k) <= Y(k + 1)
  BY <1>3, Breakpoints
<1>5. Along(score, k) \in 0..4
  BY <1>1, Interpolated
<1> QED BY <1>1, <1>2, <1>4, <1>5

\* A number that is `along' quarters of the way from a to b.
LEMMA Between ==
  ASSUME NEW a \in Nat, NEW b \in Nat, a <= b, NEW i \in 0..4
  PROVE  /\ 4 * a + i * (b - a) \in Nat
         /\ 4 * a <= 4 * a + i * (b - a) /\ 4 * a + i * (b - a) <= 4 * b
         /\ i = 4 => 4 * a + i * (b - a) = 4 * b
         /\ i = 0 => 4 * a + i * (b - a) = 4 * a
         /\ \A j \in 0..4 : i <= j => 4 * a + i * (b - a) <= 4 * a + j * (b - a)
<1> DEFINE d == b - a
<1>1. d \in Nat /\ b = a + d
  OBVIOUS
<1> HIDE DEF d
<1>2. i * d \in Nat /\ i * d <= 4 * d /\ (i = 0 => i * d = 0)
  BY <1>1
<1>3. \A j \in 0..4 : i <= j => i * d <= j * d /\ j * d \in Nat
  BY <1>1
<1>4. b - a = d
  BY DEF d
<1> QED BY <1>1, <1>2, <1>3, <1>4

LEMMA AdmitMonotone ==
  ASSUME CurveInv, NEW s1 \in 0..(4 * Buckets), NEW s2 \in 0..(4 * Buckets), s1 <= s2
  PROVE  /\ Adaptive!AdmitProbability(s1) \in Nat
         /\ Adaptive!AdmitProbability(s1) <= Adaptive!AdmitProbability(s2)
<1> DEFINE A(s) == Adaptive!AdmitProbability(s)
           On(s, k) == /\ X(k) <= s /\ s <= X(k + 1) /\ Along(s, k) \in 0..4
                       /\ Y(k) \in 0..One /\ Y(k + 1) \in 0..One /\ Y(k) <= Y(k + 1)
                       /\ A(s) = 4 * Y(k) + Along(s, k) * (Y(k + 1) - Y(k))
<1>1. PICK k \in 0..Buckets : On(s1, k)
  BY AdmitBySegment
<1>2. PICK l \in 0..Buckets : On(s2, l)
  BY AdmitBySegment
<1> HIDE DEF A
<1>3. /\ A(s1) \in Nat /\ A(s2) \in Nat
      /\ A(s1) <= 4 * Y(k + 1) /\ 4 * Y(l) <= A(s2)
      /\ Along(s1, k) = 0 => A(s1) = 4 * Y(k)
      /\ Along(s2, l) = 4 => A(s2) = 4 * Y(l + 1)
  <2>1. /\ Y(k) \in Nat /\ Y(k + 1) \in Nat /\ Y(k) <= Y(k + 1) /\ Along(s1, k) \in 0..4
        /\ Y(l) \in Nat /\ Y(l + 1) \in Nat /\ Y(l) <= Y(l + 1) /\ Along(s2, l) \in 0..4
    BY <1>1, <1>2
  <2>2. A(s1) \in Nat /\ A(s1) <= 4 * Y(k + 1) /\ (Along(s1, k) = 0 => A(s1) = 4 * Y(k))
    BY <1>1, <2>1, Between
  <2>3. A(s2) \in Nat /\ 4 * Y(l) <= A(s2) /\ (Along(s2, l) = 4 => A(s2) = 4 * Y(l + 1))
    BY <1>2, <2>1, Between
  <2> QED BY <2>2, <2>3
<1>4. CASE k = l
  <2>1. Along(s1, k) <= Along(s2, k)
    BY <1>1, <1>2, <1>4, Interpolated
  <2>2. Y(k) \in Nat /\ Y(k + 1) \in Nat /\ Y(k) <= Y(k + 1) /\ Along(s1, k) \in 0..4 /\ Along(s2, k) \in 0..4
    BY <1>1, <1>2, <1>4
  <2>3. 4 * Y(k) + Along(s1, k) * (Y(k + 1) - Y(k)) <= 4 * Y(k) + Along(s2, k) * (Y(k + 1) - Y(k))
    BY <2>1, <2>2, Between
  <2> QED BY <1>1, <1>2, <1>3, <1>4, <2>3 DEF A
<1>5. CASE k < l
  <2>1. Y(k + 1) <= Y(l)
    <3>1. k + 1 \in 0..(Buckets + 1) /\ l \in 0..(Buckets + 1) /\ k + 1 <= l
      BY <1>5, CurveConstants
    <3> QED BY <3>1, Breakpoints
  <2> QED BY <1>1, <1>2, <1>3, <2>1, CurveConstants DEF A
<1>6. CASE l < k
  <2>1. X(l + 1) <= X(k) /\ X(k) \in Int /\ X(l + 1) \in Int
    <3>1. l + 1 \in 0..(Buckets + 1) /\ k \in 0..(Buckets + 1) /\ l + 1 <= k /\ k <= Buckets
      BY <1>6, CurveConstants
    <3>2. X(l + 1) = 4 * (l + 1) - 2 /\ X(k) = 4 * k - 2
      BY <3>1, Breakpoints, CurveConstants
    <3> QED BY <3>1, <3>2
  <2>2. s1 = X(k) /\ s2 = X(l + 1)
    BY <1>1, <1>2, <2>1, CurveConstants
  <2>3. Along(s1, k) = 0 /\ Along(s2, l) = 4
    BY <1>1, <1>2, <2>2, Interpolated
  <2>4. s1 = s2
    BY <1>1, <1>2, <2>1
  <2> QED BY <1>3, <2>4 DEF A
<1> QED BY <1>1, <1>2, <1>3, <1>4, <1>5, <1>6 DEF A

\* Whatever was learned and however congested a step is, a request with a higher score
\* is never less likely to be admitted than one with a lower score.
THEOREM AdmissionMonotone == Spec => []HigherScoreNoLessLikely
<1>1. ASSUME CurveInv PROVE HigherScoreNoLessLikely
  <2> SUFFICES ASSUME NEW overage \in 0..100, NEW s1 \in 0..(4 * Buckets),
                      NEW s2 \in 0..(4 * Buckets), s1 <= s2
               PROVE  Adaptive!Admits(s1, overage) <= Adaptive!Admits(s2, overage)
    BY DEF HigherScoreNoLessLikely, Adaptive!HigherScoreNoLessLikely, Adaptive!ScoreTop
  <2> DEFINE D(s) == 100 * (4 * Buckets) - overage * (4 * Buckets - s)
             A(s) == Adaptive!AdmitProbability(s)
  <2>1. D(s1) \in Nat /\ D(s2) \in Nat /\ D(s1) <= D(s2)
    <3> DEFINE d == 4 * Buckets - s1
               e == 4 * Buckets - s2
               top == 4 * Buckets
    <3>1. d \in Nat /\ e \in Nat /\ e <= d /\ d <= top /\ top \in Nat /\ overage \in Nat
          /\ overage <= 100 /\ 100 \in Nat
      BY CurveConstants
    <3>2. D(s1) = 100 * top - overage * d /\ D(s2) = 100 * top - overage * e
      OBVIOUS
    <3> HIDE DEF d, e, top, D
    <3>3. overage * e <= overage * d /\ overage * e \in Nat /\ overage * d \in Nat
      BY <3>1, TimesMonotone
    <3>4. d * overage <= d * 100 /\ d * overage = overage * d
      BY <3>1, TimesMonotone
    <3> QED BY <3>1, <3>2, <3>3, <3>4
  <2>2. A(s1) \in Nat /\ A(s2) \in Nat /\ A(s1) <= A(s2)
    BY <1>1, AdmitMonotone, CurveConstants
  <2>3. Adaptive!Admits(s1, overage) = A(s1) * D(s1) /\ Adaptive!Admits(s2, overage) = A(s2) * D(s2)
    BY DEF Adaptive!Admits, Adaptive!DampByScore, Adaptive!ScoreTop
  <2> HIDE DEF A, D
  <2> QED BY <2>1, <2>2, <2>3, ProductMonotone
<1> QED BY <1>1, CurveInvariant, PTL

-----------------------------------------------------------------------------
(* The solver: what windows, shares, worths and splits are *)

LEMMA SolverConstants ==
  /\ IsFiniteSet(Regions) /\ IsFiniteSet(Classes) /\ IsFiniteSet(Fleets) /\ Fleets \subseteq Nat
  /\ Priority \in [Classes -> 0..6]
  /\ ServedWeight \in Nat /\ BonusWeight \in Nat /\ AssignWeight \in Nat
  /\ SwitchWeight \in Nat /\ CongestionWeight \in Nat
  /\ FairMin \in Nat /\ FairMax \in Nat
  /\ Capacity \in [Regions -> [Fleets -> Nat]] /\ Soft \in 1..100
  /\ \A r \in Regions, f \in Fleets : (Soft * Capacity[r][f]) % 100 = 0
  /\ Licences \subseteq [Regions -> SUBSET Fleets]
  /\ Demands \subseteq [Regions -> [Classes -> Nat]] /\ Servings \subseteq [Classes -> Nat]
BY Tier3Assumption, SameOperators DEF Solver!SolverAssumption

IsWindow(w) ==
  /\ DOMAIN w.cover \subseteq Regions /\ \A r \in DOMAIN w.cover : w.cover[r] \subseteq Fleets
  /\ w.demand \in Demands /\ w.got \in Servings

LEMMA WindowsAreWindows ==
  ASSUME licence \in Licences, NEW w \in Solver!Windows
  PROVE  IsWindow(w)
<1>1. /\ w.cover \in {Solver!CoverOf(up) : up \in SUBSET Fleets}
      /\ w.demand \in Demands /\ w.got \in Servings
  BY DEF Solver!Windows
<1>2. PICK up \in SUBSET Fleets : w.cover = Solver!CoverOf(up)
  BY <1>1
<1>3. w.cover = [r \in {s \in Regions : licence[s] \cap up # {}} |-> licence[r] \cap up]
  BY <1>2 DEF Solver!CoverOf
<1> QED BY <1>1, <1>3 DEF IsWindow

LEMMA DemandOfWindow ==
  ASSUME NEW w, IsWindow(w)
  PROVE  /\ \A r \in Regions, c \in Classes : w.demand[r][c] \in Nat
         /\ \A r \in Regions : w.demand[r] \in [Classes -> Nat]
         /\ w.got \in [Classes -> Nat]
         /\ IsFiniteSet(Solver!Covered(w)) /\ Solver!Covered(w) \subseteq Regions
         /\ IsFiniteSet(Solver!SeenFleets(w)) /\ Solver!SeenFleets(w) \subseteq Fleets
<1>1. w.demand \in [Regions -> [Classes -> Nat]] /\ w.got \in [Classes -> Nat]
  BY SolverConstants DEF IsWindow
<1>2. Solver!Covered(w) \subseteq Regions /\ Solver!SeenFleets(w) \subseteq Fleets
  BY DEF IsWindow, Solver!Covered, Solver!SeenFleets
<1>3. IsFiniteSet(Solver!Covered(w)) /\ IsFiniteSet(Solver!SeenFleets(w))
  BY <1>2, FS_Subset, SolverConstants
<1> QED BY <1>1, <1>2, <1>3

LEMMA SumsAreNat ==
  ASSUME NEW f, NEW S, IsFiniteSet(S), DOMAIN f = S, \A x \in S : f[x] \in Nat
  PROVE  Solver!SumFunction(f) \in Nat
<1>1. Solver!SumFunction(f) = SumFunctionOnSet(f, S)
  BY SameOperators
<1> QED BY <1>1, SumNat

LEMMA ShareIsNat ==
  ASSUME NEW part \in Nat, NEW whole \in Nat
  PROVE  /\ Solver!Share(part, whole) \in Nat
         /\ part <= whole => Solver!Share(part, whole) <= 100
         /\ part = whole /\ whole # 0 => Solver!Share(part, whole) = 100
<1>1. CASE whole = 0
  BY <1>1 DEF Solver!Share
<1>2. CASE whole # 0
  <2> DEFINE q == (100 * part) \div whole
  <2>1. q \in Nat /\ q * whole <= 100 * part /\ 100 * part < q * whole + whole
    BY <1>2, Quotient
  <2>2. Solver!Share(part, whole) = q
    BY <1>2 DEF Solver!Share
  <2>3. part = whole => q = 100
    BY <1>2, Remainder
  <2> HIDE DEF q
  <2>4. ASSUME part <= whole PROVE q <= 100
    <3> SUFFICES ASSUME 101 <= q PROVE FALSE
      BY <2>1
    <3>1. whole * 101 <= whole * q
      BY <2>1, TimesMonotone
    <3>2. whole * q = q * whole /\ q * whole \in Nat
      BY <2>1, TimesNat
    <3> QED BY <1>2, <2>1, <2>4, <3>1, <3>2
  <2> QED BY <2>1, <2>2, <2>3, <2>4
<1> QED BY <1>1, <1>2

LEMMA AskedIsNat ==
  ASSUME NEW w, IsWindow(w)
  PROVE  /\ \A c \in Classes : /\ Solver!Asked(w, c) \in Nat
                               /\ \A r \in Regions : w.demand[r][c] <= Solver!Asked(w, c)
         /\ Solver!AskedTotal(w) \in Nat /\ Solver!SumFunction(w.got) \in Nat
         /\ \A r \in Regions : Solver!RegionDemand(w, r) \in Nat
<1>1. ASSUME NEW c \in Classes
      PROVE  /\ Solver!Asked(w, c) \in Nat
             /\ \A r \in Regions : w.demand[r][c] <= Solver!Asked(w, c)
  <2> DEFINE f == [r \in Regions |-> w.demand[r][c]]
  <2>1. DOMAIN f = Regions /\ \A r \in Regions : f[r] \in Nat /\ f[r] = w.demand[r][c]
    BY DemandOfWindow
  <2>2. Solver!Asked(w, c) = Solver!SumFunction(f)
    BY DEF Solver!Asked
  <2> HIDE DEF f
  <2>3. Solver!SumFunction(f) = SumFunctionOnSet(f, Regions)
    BY <2>1, SameOperators
  <2>4. Solver!SumFunction(f) \in Nat
    BY <2>1, SumsAreNat, SolverConstants
  <2>5. \A r \in Regions : f[r] <= SumFunctionOnSet(f, Regions)
    BY <2>1, SumAtLeastTerm, SolverConstants
  <2> QED BY <2>1, <2>2, <2>3, <2>4, <2>5
<1>2. Solver!AskedTotal(w) \in Nat
  <2> DEFINE f == [c \in Classes |-> Solver!Asked(w, c)]
  <2>1. DOMAIN f = Classes /\ \A c \in Classes : f[c] \in Nat
    BY <1>1
  <2>2. Solver!AskedTotal(w) = Solver!SumFunction(f)
    BY DEF Solver!AskedTotal
  <2> HIDE DEF f
  <2> QED BY <2>1, <2>2, SumsAreNat, SolverConstants
<1>3. Solver!SumFunction(w.got) \in Nat
  <2>1. DOMAIN w.got = Classes /\ \A c \in Classes : w.got[c] \in Nat
    BY DemandOfWindow
  <2> QED BY <2>1, SumsAreNat, SolverConstants
<1>4. ASSUME NEW r \in Regions PROVE Solver!RegionDemand(w, r) \in Nat
  <2>1. DOMAIN w.demand[r] = Classes /\ \A c \in Classes : w.demand[r][c] \in Nat
    BY DemandOfWindow
  <2>2. Solver!SumFunction(w.demand[r]) \in Nat
    BY <2>1, SumsAreNat, SolverConstants
  <2> QED BY <2>2 DEF Solver!RegionDemand
<1> QED BY <1>1, <1>2, <1>3, <1>4

LEMMA ValueOfClass ==
  ASSUME NEW w, IsWindow(w), NEW c \in Classes
  PROVE  Solver!Bonus(w, c) \in Nat /\ Solver!Value(w, c) \in Nat
<1> DEFINE lag == Solver!Share(Solver!Asked(w, c), Solver!AskedTotal(w))
                    - Solver!Share(w.got[c], Solver!SumFunction(w.got))
<1>1. lag \in Int
  <2>1. w.got[c] \in Nat
    BY DemandOfWindow
  <2>2. Solver!Asked(w, c) \in Nat /\ Solver!AskedTotal(w) \in Nat /\ Solver!SumFunction(w.got) \in Nat
    BY AskedIsNat
  <2>3. /\ Solver!Share(Solver!Asked(w, c), Solver!AskedTotal(w)) \in Nat
        /\ Solver!Share(w.got[c], Solver!SumFunction(w.got)) \in Nat
    BY <2>1, <2>2, ShareIsNat
  <2> QED BY <2>3
<1>2. Solver!Bonus(w, c) = Max({0, lag})
  BY SameOperators DEF Solver!Bonus
<1> HIDE DEF lag
<1>3. Solver!Bonus(w, c) \in Nat
  BY <1>1, <1>2, LargerOfTwo
<1>4. BonusWeight * Solver!Bonus(w, c) \in Nat
  BY <1>3, TimesNat, SolverConstants
<1>5. (100 * ServedWeight * Priority[c]) \div 6 \in Nat
  <2>1. 100 * ServedWeight \in Nat /\ Priority[c] \in Nat
    BY SolverConstants
  <2>2. 100 * ServedWeight * Priority[c] \in Nat
    BY <2>1, TimesNat
  <2> QED BY <2>2, Quotient
<1> QED BY <1>3, <1>4, <1>5 DEF Solver!Value, Solver!MaxPriority

\* What a class of higher priority is worth, if serving is worth anything.
LEMMA ValueByPriority ==
  ASSUME NEW w, IsWindow(w), ServedWeight > 0, NEW c \in Classes, Priority[c] > 0
  PROVE  /\ Solver!Value(w, c) > 0
         /\ \A d \in Classes :
              Priority[d] < Priority[c] /\ Solver!Bonus(w, d) <= Solver!Bonus(w, c)
                => Solver!Value(w, d) < Solver!Value(w, c)
<1> DEFINE part(x) == (100 * ServedWeight * Priority[x]) \div 6
           bonus(x) == BonusWeight * Solver!Bonus(w, x)
<1>1. ASSUME NEW x \in Classes
      PROVE  /\ Solver!Value(w, x) = part(x) + bonus(x) /\ part(x) \in Nat /\ bonus(x) \in Nat
             /\ Priority[x] \in 0..6
             /\ 6 * part(x) <= 100 * ServedWeight * Priority[x]
             /\ 100 * ServedWeight * Priority[x] < 6 * part(x) + 6
             /\ 100 * ServedWeight * Priority[x] \in Nat
  <2>1. Solver!Value(w, x) = part(x) + bonus(x)
    BY DEF Solver!Value, Solver!MaxPriority
  <2>2. Priority[x] \in 0..6 /\ 100 * ServedWeight \in Nat
    BY SolverConstants
  <2>3. 100 * ServedWeight * Priority[x] \in Nat
    BY <2>2, TimesNat
  <2>4. /\ part(x) \in Nat /\ part(x) * 6 <= 100 * ServedWeight * Priority[x]
        /\ 100 * ServedWeight * Priority[x] < part(x) * 6 + 6
    BY <2>3, Quotient
  <2>5. bonus(x) \in Nat
    BY ValueOfClass, TimesNat, SolverConstants
  <2> HIDE DEF part, bonus
  <2> QED BY <2>1, <2>2, <2>3, <2>4, <2>5
<1>2. ASSUME NEW a \in 0..6, NEW b \in 0..6, a < b
      PROVE  100 * ServedWeight * a + 100 <= 100 * ServedWeight * b
  <2>1. ServedWeight \in Nat \ {0}
    BY SolverConstants
  <2>2. PICK e \in Nat : b = a + 1 + e
    <3>1. b - a - 1 \in Nat /\ b = a + 1 + (b - a - 1)
      BY <1>2
    <3> QED BY <3>1
  <2>3. 100 * ServedWeight * b = 100 * ServedWeight * a + 100 * ServedWeight + 100 * ServedWeight * e
    BY <2>1, <2>2
  <2>4. 100 * ServedWeight * e \in Nat /\ 100 * ServedWeight * a \in Nat
    BY <2>1, <2>2, TimesNat
  <2> QED BY <2>1, <2>3, <2>4
<1>3. Solver!Value(w, c) > 0
  <2>1. 100 * ServedWeight * 0 + 100 <= 100 * ServedWeight * Priority[c]
    BY <1>1, <1>2
  <2>2. 100 * ServedWeight * 0 = 0
    BY SolverConstants
  <2> HIDE DEF part, bonus
  <2> QED BY <1>1, <2>1, <2>2
<1>4. ASSUME NEW d \in Classes, Priority[d] < Priority[c], Solver!Bonus(w, d) <= Solver!Bonus(w, c)
      PROVE  Solver!Value(w, d) < Solver!Value(w, c)
  <2>1. 100 * ServedWeight * Priority[d] + 100 <= 100 * ServedWeight * Priority[c]
    BY <1>1, <1>2, <1>4
  <2>2. bonus(d) <= bonus(c)
    BY <1>4, ValueOfClass, TimesMonotone, SolverConstants
  <2> HIDE DEF part, bonus
  <2> QED BY <1>1, <2>1, <2>2
<1> QED BY <1>3, <1>4

-----------------------------------------------------------------------------
(* The solver: how much a split is worth *)

Sum(f) == Solver!SumFunction(f)

\* Airtime above the soft threshold, in percent of a unit.
Over(r, f, y) == Solver!Max({0, 100 * Sum(y) - Soft * Capacity[r][f]})
Served(w, y) == Sum([c \in Classes |-> Solver!Value(w, c) * y[c]])
Worths(w, r, f, y) == Served(w, y) - CongestionWeight * Over(r, f, y)

LEMMA SplitsAreSplits ==
  ASSUME NEW w, IsWindow(w), NEW r \in Regions, NEW f \in Fleets, NEW y
  PROVE  y \in Solver!Splits(w, r, f)
           <=> /\ y \in [Classes -> Nat] /\ Sum(y) <= Capacity[r][f]
               /\ \A c \in Classes : y[c] <= w.demand[r][c] /\ y[c] <= Capacity[r][f]
<1>1. y \in Solver!Splits(w, r, f)
        <=> /\ y \in [Classes -> 0..Capacity[r][f]]
            /\ Sum(y) <= Capacity[r][f] /\ \A c \in Classes : y[c] <= w.demand[r][c]
  BY DEF Solver!Splits, Solver!Assigned, Sum
<1>2. Capacity[r][f] \in Nat
  BY SolverConstants
<1>3. y \in [Classes -> 0..Capacity[r][f]]
        <=> y \in [Classes -> Nat] /\ \A c \in Classes : y[c] <= Capacity[r][f]
  BY <1>2
<1> QED BY <1>1, <1>3

LEMMA WorthOfSplit ==
  ASSUME NEW w, IsWindow(w), NEW r \in Regions, NEW f \in Fleets
  PROVE  /\ DOMAIN Solver!SplitWorths(w, r, f) = Solver!Splits(w, r, f)
         /\ \A y \in Solver!Splits(w, r, f) :
              /\ Solver!SplitWorths(w, r, f)[y] = Worths(w, r, f, y)
              /\ Sum(y) \in Nat /\ Over(r, f, y) \in Nat /\ Worths(w, r, f, y) \in Int
              /\ Over(r, f, y) = IF 100 * Sum(y) <= Soft * Capacity[r][f] THEN 0
                                 ELSE 100 * Sum(y) - Soft * Capacity[r][f]
<1> DEFINE values == [c \in Classes |-> Solver!Value(w, c)]
<1>1. ASSUME NEW y PROVE Sum([c \in Classes |-> values[c] * y[c]]) = Served(w, y)
  <2>1. [c \in Classes |-> values[c] * y[c]] = [c \in Classes |-> Solver!Value(w, c) * y[c]]
    OBVIOUS
  <2> QED BY <2>1 DEF Served
<1>2. Solver!SplitWorths(w, r, f)
        = [y \in Solver!Splits(w, r, f) |->
             Sum([c \in Classes |-> values[c] * y[c]]) - CongestionWeight * Over(r, f, y)]
  BY Zenon DEF Solver!SplitWorths, Sum, Over
<1> HIDE DEF values
<1>3. ASSUME NEW y \in Solver!Splits(w, r, f)
      PROVE  /\ Solver!SplitWorths(w, r, f)[y] = Worths(w, r, f, y)
             /\ Sum(y) \in Nat /\ Over(r, f, y) \in Nat /\ Worths(w, r, f, y) \in Int
             /\ Over(r, f, y) = IF 100 * Sum(y) <= Soft * Capacity[r][f] THEN 0
                                ELSE 100 * Sum(y) - Soft * Capacity[r][f]
  <2>1. y \in [Classes -> Nat]
    BY SplitsAreSplits
  <2>2. Solver!SplitWorths(w, r, f)[y] = Worths(w, r, f, y)
    <3>1. Solver!SplitWorths(w, r, f)[y]
            = Sum([c \in Classes |-> values[c] * y[c]]) - CongestionWeight * Over(r, f, y)
      BY <1>2
    <3> QED BY <1>1, <3>1 DEF Worths
  <2>3. Sum(y) \in Nat
    <3>1. DOMAIN y = Classes /\ \A c \in Classes : y[c] \in Nat
      BY <2>1
    <3> QED BY <3>1, SumsAreNat, SolverConstants DEF Sum
  <2>4. Soft * Capacity[r][f] \in Nat
    <3>1. Soft \in Nat /\ Capacity[r][f] \in Nat
      BY SolverConstants
    <3> QED BY <3>1, TimesNat
  <2>5. /\ Over(r, f, y) \in Nat
        /\ Over(r, f, y) = IF 100 * Sum(y) <= Soft * Capacity[r][f] THEN 0
                           ELSE 100 * Sum(y) - Soft * Capacity[r][f]
    <3> DEFINE above == 100 * Sum(y) - Soft * Capacity[r][f]
    <3>1. above \in Int /\ 0 \in Int
      BY <2>3, <2>4
    <3>2. Over(r, f, y) = Max({0, above})
      BY SameOperators DEF Over
    <3>3. Max({0, above}) = IF 0 >= above THEN 0 ELSE above
      <4> HIDE DEF above
      <4> QED BY <3>1, LargerOfTwo
    <3> QED BY <2>3, <2>4, <3>2, <3>3
  <2>6. Worths(w, r, f, y) \in Int
    <3> DEFINE v == [c \in Classes |-> Solver!Value(w, c) * y[c]]
    <3>1. DOMAIN v = Classes /\ \A c \in Classes : v[c] \in Nat
      BY <2>1, ValueOfClass, TimesNat
    <3>2. Served(w, y) = Solver!SumFunction(v)
      BY DEF Served, Sum
    <3> HIDE DEF v
    <3>3. Served(w, y) \in Nat
      BY <3>1, <3>2, SumsAreNat, SolverConstants
    <3>4. CongestionWeight * Over(r, f, y) \in Nat
      BY <2>5, TimesNat, SolverConstants
    <3> QED BY <3>3, <3>4 DEF Worths
  <2> QED BY <2>2, <2>3, <2>5, <2>6
<1>4. DOMAIN Solver!SplitWorths(w, r, f) = Solver!Splits(w, r, f)
  BY <1>2
<1> QED BY <1>3, <1>4

\* There is a best split, and it is worth an integer.
LEMMA BestSplit ==
  ASSUME NEW w, IsWindow(w), NEW r \in Regions, NEW f \in Fleets
  PROVE  /\ Solver!Max(Solver!Range(Solver!SplitWorths(w, r, f))) \in Int
         /\ \A y \in Solver!BestSplits(w, r, f) :
              /\ y \in Solver!Splits(w, r, f)
              /\ \A z \in Solver!Splits(w, r, f) : Worths(w, r, f, z) <= Worths(w, r, f, y)
<1> DEFINE splits == Solver!Splits(w, r, f)
           worth == Solver!SplitWorths(w, r, f)
           worths == {worth[y] : y \in splits}
<1>1. DOMAIN worth = splits /\ \A y \in splits : worth[y] = Worths(w, r, f, y) /\ worth[y] \in Int
  BY WorthOfSplit
<1>2. Solver!Range(worth) = worths
  BY <1>1, SameOperators DEF Range
<1>3. IsFiniteSet(splits)
  <2>1. splits \subseteq [Classes -> 0..Capacity[r][f]]
    BY DEF Solver!Splits, Solver!Assigned
  <2>2. IsFiniteSet(0..Capacity[r][f])
    BY FS_Interval, SolverConstants
  <2>3. IsFiniteSet([Classes -> 0..Capacity[r][f]])
    BY <2>2, FiniteFunctions, SolverConstants
  <2> QED BY <2>1, <2>3, FS_Subset
<1>4. splits # {}
  <2> DEFINE none == [c \in Classes |-> 0]
  <2>1. none \in [Classes -> Nat] /\ DOMAIN none = Classes /\ \A c \in Classes : none[c] = 0
    OBVIOUS
  <2> HIDE DEF none
  <2>2. Sum(none) = SumFunctionOnSet(none, Classes)
    BY <2>1, SameOperators DEF Sum
  <2>3. Sum(none) = 0
    BY <2>1, <2>2, SumOfZeros, SolverConstants
  <2>4. Capacity[r][f] \in Nat /\ \A c \in Classes : w.demand[r][c] \in Nat
    BY SolverConstants, DemandOfWindow
  <2>5. none \in splits
    BY <2>1, <2>3, <2>4, SplitsAreSplits
  <2> QED BY <2>5
<1>5. Solver!BestSplits(w, r, f) = {y \in DOMAIN worth : worth[y] = Max(worths)}
  <2>1. Solver!BestSplits(w, r, f) = {y \in DOMAIN worth : worth[y] = Solver!Max(Solver!Range(worth))}
    BY Zenon DEF Solver!BestSplits
  <2>2. Solver!Max(Solver!Range(worth)) = Max(worths)
    BY <1>2, SameOperators
  <2> QED BY <2>1, <2>2
<1>6. Solver!Max(Solver!Range(worth)) = Max(worths)
  BY <1>2, SameOperators
<1> HIDE DEF worth, splits
<1>7. Max(worths) \in worths /\ \A x \in worths : x <= Max(worths)
  <2>1. worths \in SUBSET Int /\ worths # {}
    BY <1>1, <1>4
  <2>2. IsFiniteSet(worths)
    BY <1>3, FiniteImage
  <2> HIDE DEF worths
  <2> QED BY <2>1, <2>2, LargestNumber
<1>8. ASSUME NEW y \in Solver!BestSplits(w, r, f), NEW z \in splits
      PROVE  Worths(w, r, f, z) <= Worths(w, r, f, y)
  <2>1. y \in splits /\ worth[y] = Max(worths)
    BY <1>1, <1>5
  <2>2. worth[z] <= Max(worths)
    BY <1>7
  <2> QED BY <1>1, <2>1, <2>2
<1>9. Max(worths) \in Int
  BY <1>1, <1>7
<1>10. \A y \in Solver!BestSplits(w, r, f) : y \in splits
  BY <1>1, <1>5
<1> QED BY <1>6, <1>8, <1>9, <1>10 DEF worth, splits

-----------------------------------------------------------------------------
(* The solver: its plans *)

Solved == by \in {"optimal", "feasible"}

\* A plan of the solver is a solution of the program of its window; and where the
\* solver got to the end, every split is a best one.
PlanInv ==
  /\ licence \in Licences
  /\ Solved =>
       /\ IsWindow(window) /\ hints \in Solver!Assignments(window)
       /\ DOMAIN budgets = Solver!Asking(window)
       /\ \A r \in DOMAIN budgets : budgets[r] \in Solver!Splits(window, r, hints[r])
       /\ weights = Solver!WeightsOf(window, budgets)
  /\ by = "optimal" =>
       \A r \in DOMAIN budgets : budgets[r] \in Solver!BestSplits(window, r, hints[r])

\* What an assignment of the program may be, and what asks for airtime.
LEMMA AssignmentFacts ==
  ASSUME NEW w, IsWindow(w), NEW x \in Solver!Assignments(w)
  PROVE  /\ DOMAIN x = Solver!Covered(w) /\ x \in [Solver!Covered(w) -> Solver!SeenFleets(w)]
         /\ \A r \in Solver!Covered(w) : r \in Regions /\ x[r] \in w.cover[r] /\ x[r] \in Fleets
         /\ Solver!Asking(w) \subseteq Solver!Covered(w) /\ Solver!Asking(w) \subseteq Regions
<1>1. x \in [Solver!Covered(w) -> Solver!SeenFleets(w)] /\ \A r \in Solver!Covered(w) : x[r] \in w.cover[r]
  BY DEF Solver!Assignments
<1>2. Solver!Covered(w) \subseteq Regions /\ Solver!SeenFleets(w) \subseteq Fleets
  BY DemandOfWindow
<1> QED BY <1>1, <1>2 DEF Solver!Asking

LEMMA ReadOutStep ==
  ASSUME NEW w, IsWindow(w), licence \in Licences, NEW x \in Solver!Assignments(w), NEW splits,
         NEW who \in {"optimal", "feasible"}, Solver!ReadOut(w, x, splits, who),
         DOMAIN splits = Solver!Asking(w),
         \A r \in Solver!Asking(w) :
           splits[r] \subseteq IF who = "optimal" THEN Solver!BestSplits(w, r, x[r])
                               ELSE Solver!Splits(w, r, x[r])
  PROVE  PlanInv'
<1>1. PICK bs \in [Solver!Asking(w) -> UNION Solver!Range(splits)] :
        /\ \A r \in Solver!Asking(w) : bs[r] \in splits[r]
        /\ Solver!Answer(w, x, bs, Solver!WeightsOf(w, bs), who)
  BY DEF Solver!ReadOut
<1>2. /\ window' = w /\ by' = who /\ hints' = x /\ budgets' = bs
      /\ weights' = Solver!WeightsOf(w, bs) /\ licence' = licence
  BY <1>1 DEF Solver!Answer
<1>3. ASSUME NEW r \in Solver!Asking(w)
      PROVE  /\ bs[r] \in Solver!Splits(w, r, x[r])
             /\ who = "optimal" => bs[r] \in Solver!BestSplits(w, r, x[r])
  <2>1. CASE who = "optimal"
    <3>1. r \in Regions /\ x[r] \in Fleets
      BY AssignmentFacts
    <3>2. bs[r] \in Solver!BestSplits(w, r, x[r])
      BY <1>1, <2>1
    <3> QED BY <3>1, <3>2, BestSplit
  <2>2. CASE who # "optimal"
    BY <1>1, <2>2
  <2> QED BY <2>1, <2>2
<1>4. DOMAIN bs = Solver!Asking(w)
  OBVIOUS
<1>5. Solver!Assignments(window)' = Solver!Assignments(w) /\ Solver!Asking(window)' = Solver!Asking(w)
      /\ Solver!WeightsOf(window, budgets)' = Solver!WeightsOf(w, bs)
  BY <1>2 DEF Solver!Assignments, Solver!Asking, Solver!WeightsOf, Solver!Covered, Solver!SeenFleets,
     Solver!Balanced, Solver!MaxPerFleet, Solver!EvenShare, Solver!RegionDemand, Solver!Given,
     Solver!Asked
<1>6. ASSUME NEW r \in Solver!Asking(w)
      PROVE  /\ Solver!Splits(window, r, hints[r])' = Solver!Splits(w, r, x[r])
             /\ Solver!BestSplits(window, r, hints[r])' = Solver!BestSplits(w, r, x[r])
  BY <1>2
<1> QED BY <1>2, <1>3, <1>4, <1>5, <1>6 DEF PlanInv, Solved, IsWindow

LEMMA BestAssignment ==
  ASSUME NEW w, IsWindow(w), NEW x \in Solver!Optimal(w)
  PROVE  x \in Solver!Assignments(w)
BY DEF Solver!Optimal

LEMMA SolverStep ==
  ASSUME licence \in Licences, Solver!Next
  PROVE  PlanInv'
<1>1. PICK w \in Solver!Windows :
        Solver!SolveToOptimality(w) \/ Solver!StopAtTimeLimit(w) \/ Solver!FallBack(w)
  BY DEF Solver!Next
<1>2. IsWindow(w)
  BY WindowsAreWindows
<1>3. CASE Solver!SolveToOptimality(w)
  <2>1. PICK x \in Solver!Optimal(w) :
          Solver!ReadOut(w, x, [r \in Solver!Asking(w) |-> Solver!BestSplits(w, r, x[r])], "optimal")
    BY <1>3 DEF Solver!SolveToOptimality
  <2> DEFINE splits == [r \in Solver!Asking(w) |-> Solver!BestSplits(w, r, x[r])]
  <2>2. x \in Solver!Assignments(w)
    BY <1>2, BestAssignment
  <2>3. /\ DOMAIN splits = Solver!Asking(w)
        /\ \A r \in Solver!Asking(w) : splits[r] \subseteq Solver!BestSplits(w, r, x[r])
    OBVIOUS
  <2>4. Solver!ReadOut(w, x, splits, "optimal")
    BY <2>1
  <2> HIDE DEF splits
  <2> QED BY <1>2, <2>2, <2>3, <2>4, ReadOutStep
<1>4. CASE Solver!StopAtTimeLimit(w)
  <2>1. PICK x \in Solver!Assignments(w) :
          Solver!ReadOut(w, x, [r \in Solver!Asking(w) |-> Solver!Splits(w, r, x[r])], "feasible")
    BY <1>4 DEF Solver!StopAtTimeLimit
  <2> DEFINE splits == [r \in Solver!Asking(w) |-> Solver!Splits(w, r, x[r])]
  <2>2. /\ DOMAIN splits = Solver!Asking(w)
        /\ \A r \in Solver!Asking(w) : splits[r] \subseteq Solver!Splits(w, r, x[r])
    OBVIOUS
  <2>3. Solver!ReadOut(w, x, splits, "feasible")
    BY <2>1
  <2> HIDE DEF splits
  <2> QED BY <1>2, <2>2, <2>3, ReadOutStep
<1>5. CASE Solver!FallBack(w)
  <2>1. by' = "heuristic" /\ licence' = licence
    BY <1>5 DEF Solver!FallBack, Solver!Answer
  <2> QED BY <2>1 DEF PlanInv, Solved
<1> QED BY <1>1, <1>3, <1>4, <1>5

LEMMA PlanInvariant == Spec => []PlanInv
<1>1. Init => PlanInv
  BY DEF Init, Solver!Init, PlanInv, Solved
<1>2. PlanInv /\ [Next]_vars => PlanInv'
  <2> SUFFICES ASSUME PlanInv, [Next]_vars PROVE PlanInv'
    OBVIOUS
  <2>1. CASE PlanByFormula
    <3>1. PICK w \in Solver!Windows : Solver!FallBack(w)
      BY <2>1 DEF PlanByFormula
    <3>2. by' = "heuristic" /\ licence' = licence
      BY <3>1 DEF Solver!FallBack, Solver!Answer
    <3> QED BY <3>2 DEF PlanInv, Solved
  <2>2. CASE PlanBySolver
    <3>1. licence \in Licences
      BY DEF PlanInv
    <3> QED BY <2>2, <3>1, SolverStep DEF PlanBySolver
  <2>3. CASE UNCHANGED planVars
    <3>1. UNCHANGED <<licence, window, by, hints, budgets, weights>>
      BY <2>3 DEF planVars
    <3> QED BY <3>1 DEF PlanInv, Solved
  <2> QED BY <2>1, <2>2, <2>3 DEF Next, PlanByLearning, vars
<1> QED BY <1>1, <1>2, PTL DEF Spec

LEMMA GivenIsNat ==
  ASSUME PlanInv, Solved, NEW c \in Classes
  PROVE  Solver!Given(budgets, c) \in Nat
<1> DEFINE f == [r \in DOMAIN budgets |-> budgets[r][c]]
<1>1. IsWindow(window) /\ hints \in Solver!Assignments(window) /\ DOMAIN budgets = Solver!Asking(window)
      /\ \A r \in DOMAIN budgets : budgets[r] \in Solver!Splits(window, r, hints[r])
  BY DEF PlanInv
<1>2. IsFiniteSet(DOMAIN budgets)
  <2>1. IsFiniteSet(Solver!Covered(window)) /\ Solver!Asking(window) \subseteq Solver!Covered(window)
    BY <1>1, DemandOfWindow DEF Solver!Asking
  <2> QED BY <1>1, <2>1, FS_Subset
<1>3. ASSUME NEW r \in DOMAIN budgets PROVE f[r] \in Nat
  <2>1. r \in Regions /\ hints[r] \in Fleets
    BY <1>1, AssignmentFacts
  <2>2. budgets[r] \in [Classes -> Nat]
    BY <1>1, <2>1, SplitsAreSplits
  <2> QED BY <2>2
<1>4. Solver!Given(budgets, c) = Solver!SumFunction(f) /\ DOMAIN f = DOMAIN budgets
  BY DEF Solver!Given
<1> HIDE DEF f
<1> QED BY <1>2, <1>3, <1>4, SumsAreNat

\* A solution, optimal or not, can be carried out: what the classes of a region get is
\* airtime of the one fleet hinted there; and the scorer favours what it leaves short.
THEOREM PlansCoherent == Spec => []PlanCoherent
<1>1. ASSUME PlanInv PROVE PlanCoherent
  <2> SUFFICES
        ASSUME Solved
        PROVE  /\ \A r \in DOMAIN budgets :
                    Solver!SumFunction(budgets[r]) <= Capacity[r][hints[r]]
               /\ \A c, d \in DOMAIN weights :
                    Solver!Given(budgets, c) = Solver!Asked(window, c)
                      /\ Solver!Given(budgets, d) < Solver!Asked(window, d)
                      => weights[c] <= weights[d]
    BY DEF PlanCoherent, Solver!PlanCoherent, Solved
  <2>1. /\ IsWindow(window) /\ hints \in Solver!Assignments(window)
        /\ DOMAIN budgets = Solver!Asking(window)
        /\ \A r \in DOMAIN budgets : budgets[r] \in Solver!Splits(window, r, hints[r])
        /\ weights = Solver!WeightsOf(window, budgets)
    BY <1>1 DEF PlanInv
  <2>2. ASSUME NEW r \in DOMAIN budgets
        PROVE  Solver!SumFunction(budgets[r]) <= Capacity[r][hints[r]]
    <3>1. r \in Regions /\ hints[r] \in Fleets
      BY <2>1, AssignmentFacts
    <3> QED BY <2>1, <3>1, SplitsAreSplits DEF Sum
  <2>3. ASSUME NEW c \in DOMAIN weights
        PROVE  /\ c \in Classes
               /\ Solver!Asked(window, c) \in Nat \ {0} /\ Solver!Given(budgets, c) \in Nat
               /\ weights[c] = Solver!Max({FairMin,
                    FairMax - Solver!Share(Solver!Given(budgets, c), Solver!Asked(window, c)) \div 2})
    <3>1. c \in Classes /\ \E r \in Solver!Covered(window) : window.demand[r][c] > 0
      BY <2>1 DEF Solver!WeightsOf
    <3>2. Solver!Asked(window, c) \in Nat \ {0}
      <4>1. PICK r \in Regions : window.demand[r][c] > 0
        BY <2>1, <3>1, DemandOfWindow
      <4>2. window.demand[r][c] \in Nat
        BY <2>1, <3>1, DemandOfWindow
      <4> QED BY <2>1, <3>1, <4>1, <4>2, AskedIsNat
    <3>3. Solver!Given(budgets, c) \in Nat
      BY <1>1, <3>1, GivenIsNat
    <3> QED BY <2>1, <3>1, <3>2, <3>3 DEF Solver!WeightsOf
  <2>4. ASSUME NEW c \in DOMAIN weights, NEW d \in DOMAIN weights,
               Solver!Given(budgets, c) = Solver!Asked(window, c),
               Solver!Given(budgets, d) < Solver!Asked(window, d)
        PROVE  weights[c] <= weights[d]
    <3> DEFINE s == Solver!Share(Solver!Given(budgets, c), Solver!Asked(window, c))
               t == Solver!Share(Solver!Given(budgets, d), Solver!Asked(window, d))
    <3>0. /\ Solver!Asked(window, c) \in Nat \ {0} /\ Solver!Asked(window, d) \in Nat \ {0}
          /\ Solver!Given(budgets, d) \in Nat
      BY <2>3, Zenon
    <3>1. s = 100
      BY <2>4, <3>0, ShareIsNat
    <3>2. t \in Nat /\ t <= 100
      <4>1. /\ Solver!Given(budgets, d) \in Nat /\ Solver!Asked(window, d) \in Nat
            /\ Solver!Given(budgets, d) <= Solver!Asked(window, d)
        BY <2>4, <3>0
      <4> QED BY <4>1, ShareIsNat
    <3>3. /\ weights[c] = Max({FairMin, FairMax - s \div 2})
          /\ weights[d] = Max({FairMin, FairMax - t \div 2})
      BY <2>3, SameOperators
    <3> HIDE DEF s, t
    <3>4. s \div 2 = 50 /\ t \div 2 \in Nat /\ t \div 2 <= 50
      BY <3>1, <3>2
    <3>5. FairMin \in Int /\ FairMax - s \div 2 \in Int /\ FairMax - t \div 2 \in Int
          /\ FairMax - s \div 2 <= FairMax - t \div 2
      BY <3>4, SolverConstants
    <3>6. /\ weights[c] = IF FairMin >= FairMax - s \div 2 THEN FairMin ELSE FairMax - s \div 2
          /\ weights[d] = IF FairMin >= FairMax - t \div 2 THEN FairMin ELSE FairMax - t \div 2
      BY <3>3, <3>5, LargerOfTwo
    <3> QED BY <3>5, <3>6
  <2> QED BY <2>2, <2>4
<1> QED BY <1>1, PlanInvariant, PTL

\* One more unit for class c.
LEMMA OneMore ==
  ASSUME NEW w, IsWindow(w), NEW y, NEW z, y \in [Classes -> Nat], z \in [Classes -> Nat],
         NEW c \in Classes, z[c] = y[c] + 1, \A x \in Classes : x # c => z[x] = y[x]
  PROVE  /\ Sum(z) = Sum(y) + 1 /\ Sum(y) \in Nat
         /\ Served(w, z) = Served(w, y) + Solver!Value(w, c) /\ Served(w, y) \in Nat
<1>1. /\ \A x \in Classes : y[x] \in Int /\ z[x] \in Int /\ (x # c => z[x] = y[x])
      /\ z[c] = y[c] + 1 /\ DOMAIN y = Classes /\ DOMAIN z = Classes
      /\ \A x \in Classes : y[x] \in Nat
  OBVIOUS
<1>2. Sum(y) = SumFunctionOnSet(y, Classes) /\ Sum(z) = SumFunctionOnSet(z, Classes)
  BY <1>1, SameOperators DEF Sum
<1>3. Sum(y) \in Nat
  BY <1>1, <1>2, SumNat, SolverConstants
<1>4. Sum(z) = Sum(y) + 1
  <2>1. SumFunctionOnSet(z, Classes) = SumFunctionOnSet(y, Classes) - y[c] + z[c]
    BY <1>1, SumChange, SolverConstants
  <2> QED BY <1>1, <1>2, <1>3, <2>1
<1> DEFINE f == [x \in Classes |-> Solver!Value(w, x) * y[x]]
           g == [x \in Classes |-> Solver!Value(w, x) * z[x]]
<1>5. /\ Served(w, y) = Solver!SumFunction(f) /\ Served(w, z) = Solver!SumFunction(g)
      /\ DOMAIN f = Classes /\ DOMAIN g = Classes
      /\ \A x \in Classes : f[x] = Solver!Value(w, x) * y[x] /\ g[x] = Solver!Value(w, x) * z[x]
  BY DEF Served, Sum
<1> HIDE DEF f, g
<1>6. \A x \in Classes : f[x] \in Nat /\ g[x] \in Nat /\ (x # c => g[x] = f[x])
  <2> TAKE x \in Classes
  <2>1. Solver!Value(w, x) \in Nat /\ y[x] \in Nat /\ z[x] \in Nat
    BY ValueOfClass
  <2> QED BY <1>1, <1>5, <2>1, TimesNat
<1>7. g[c] = f[c] + Solver!Value(w, c)
  <2>1. Solver!Value(w, c) \in Nat /\ y[c] \in Nat
    BY ValueOfClass
  <2> QED BY <1>1, <1>5, <2>1
<1>8. SumFunctionOnSet(g, Classes) = SumFunctionOnSet(f, Classes) - f[c] + g[c]
  <2>1. \A x \in Classes : f[x] \in Int /\ g[x] \in Int /\ (x # c => g[x] = f[x])
    BY <1>6
  <2> QED BY <2>1, SumChange, SolverConstants
<1>9. Served(w, y) = SumFunctionOnSet(f, Classes) /\ Served(w, z) = SumFunctionOnSet(g, Classes)
  BY <1>5, SameOperators
<1>10. Served(w, y) \in Nat
  BY <1>6, <1>9, SumNat, SolverConstants
<1>11. Served(w, z) = Served(w, y) + Solver!Value(w, c)
  <2>1. f[c] \in Nat /\ Solver!Value(w, c) \in Nat
    BY <1>6, ValueOfClass
  <2> QED BY <1>7, <1>8, <1>9, <1>10, <2>1
<1> QED BY <1>3, <1>4, <1>10, <1>11

\* If serving is rewarded at all, an optimal plan leaves no airtime idle that a class of
\* positive priority lacks, and gives a lower priority precedence only for fairness.
THEOREM NothingWasted ==
  ASSUME ServedWeight > 0
  PROVE  Spec => []BudgetsWellSpent
<1>1. ASSUME PlanInv PROVE BudgetsWellSpent
  <2> SUFFICES
        ASSUME by = "optimal", NEW r \in DOMAIN budgets, NEW c \in Classes,
               budgets[r][c] < window.demand[r][c], Priority[c] > 0
        PROVE  /\ 100 * Solver!SumFunction(budgets[r]) >= Soft * Capacity[r][hints[r]]
               /\ \A d \in Classes :
                    Priority[d] < Priority[c] /\ budgets[r][d] > 0
                      => Solver!Bonus(window, d) > Solver!Bonus(window, c)
    BY DEF BudgetsWellSpent, Solver!BudgetsWellSpent
  <2> DEFINE f == hints[r]
             y == budgets[r]
             room == Capacity[r][f]
  <2>1. /\ IsWindow(window) /\ hints \in Solver!Assignments(window)
        /\ DOMAIN budgets = Solver!Asking(window)
        /\ y \in Solver!BestSplits(window, r, f)
    BY <1>1 DEF PlanInv, Solved
  <2>2. r \in Regions /\ f \in Fleets
    BY <2>1, AssignmentFacts
  <2> HIDE DEF f, y, room
  <2>3. /\ y \in Solver!Splits(window, r, f)
        /\ \A z \in Solver!Splits(window, r, f) : Worths(window, r, f, z) <= Worths(window, r, f, y)
    BY <2>1, <2>2, BestSplit
  <2>4. /\ y \in [Classes -> Nat] /\ Sum(y) <= room
        /\ \A x \in Classes : y[x] <= window.demand[r][x] /\ y[x] <= room
    BY <2>1, <2>2, <2>3, SplitsAreSplits DEF room
  <2>5. /\ Sum(y) \in Nat /\ Worths(window, r, f, y) \in Int
        /\ Worths(window, r, f, y) = Served(window, y) - CongestionWeight * Over(r, f, y)
        /\ Over(r, f, y) \in Nat
        /\ Over(r, f, y) = IF 100 * Sum(y) <= Soft * room THEN 0 ELSE 100 * Sum(y) - Soft * room
    BY <2>1, <2>2, <2>3, WorthOfSplit DEF Worths, room
  <2>6. /\ room \in Nat /\ Soft \in 1..100 /\ (Soft * room) % 100 = 0
        /\ y[c] < window.demand[r][c] /\ window.demand[r][c] \in Nat
        /\ Solver!Value(window, c) \in Nat /\ Solver!Value(window, c) > 0
    <3>1. y[c] < window.demand[r][c]
      BY DEF y
    <3> QED BY <1>1, <2>1, <2>2, <3>1, SolverConstants, DemandOfWindow, ValueOfClass, ValueByPriority DEF room
  <2>7. PICK q \in Nat : Soft * room = 100 * q /\ q <= room
    <3>1. Soft * room \in Nat
      BY <2>6, TimesNat
    <3>2. Soft * room = 100 * ((Soft * room) \div 100) /\ (Soft * room) \div 100 \in Nat
      BY <2>6, <3>1
    <3>3. room * Soft <= room * 100 /\ room * Soft = Soft * room
      <4>1. Soft \in Nat /\ 100 \in Nat /\ Soft <= 100
        BY <2>6
      <4>2. room * Soft = Soft * room
        BY <2>6
      <4> QED BY <2>6, <4>1, <4>2, TimesMonotone
    <3>4. (Soft * room) \div 100 <= room
      BY <2>6, <3>2, <3>3
    <3> QED BY <3>2, <3>4
  <2>8. 100 * Sum(y) >= Soft * room
    <3> SUFFICES ASSUME Sum(y) < q PROVE FALSE
      BY <2>5, <2>7
    <3> DEFINE z == [y EXCEPT ![c] = y[c] + 1]
    <3>1. z \in [Classes -> Nat] /\ z[c] = y[c] + 1 /\ \A x \in Classes : x # c => z[x] = y[x]
      BY <2>4
    <3> HIDE DEF z
    <3>3. /\ Sum(z) = Sum(y) + 1
          /\ Served(window, z) = Served(window, y) + Solver!Value(window, c)
          /\ Served(window, y) \in Nat
      <4>1. IsWindow(window) /\ y \in [Classes -> Nat]
        BY <2>1, <2>4
      <4> QED BY <3>1, <4>1, OneMore, ZenonT(60)
    <3>4. z \in Solver!Splits(window, r, f)
      <4>1. Sum(z) <= room
        BY <2>5, <2>6, <2>7, <3>3
      <4>2. z[c] <= window.demand[r][c]
        BY <2>4, <2>6, <3>1
      <4>3. z[c] <= room
        <5>1. y[c] <= Sum(y)
          <6>1. DOMAIN y = Classes /\ \A x \in Classes : y[x] \in Nat
            BY <2>4
          <6>2. Sum(y) = SumFunctionOnSet(y, Classes)
            BY <6>1, SameOperators DEF Sum
          <6> QED BY <6>1, <6>2, SumAtLeastTerm, SolverConstants
        <5> QED BY <2>4, <2>5, <2>6, <3>1, <3>3, <4>1, <5>1
      <4>4. \A x \in Classes : z[x] <= window.demand[r][x] /\ z[x] <= Capacity[r][f]
        BY <2>4, <3>1, <4>2, <4>3 DEF room
      <4> QED BY <2>1, <2>2, <3>1, <4>1, <4>4, SplitsAreSplits DEF room
    <3>5. Over(r, f, y) = 0 /\ Over(r, f, z) = 0
      <4>1. Over(r, f, z) = IF 100 * Sum(z) <= Soft * room THEN 0 ELSE 100 * Sum(z) - Soft * room
        BY <2>1, <2>2, <3>4, WorthOfSplit DEF room
      <4> QED BY <2>5, <2>7, <3>3, <4>1
    <3>6. Worths(window, r, f, z) <= Worths(window, r, f, y)
      BY <2>3, <3>4
    <3>7. Worths(window, r, f, z) = Served(window, z) - CongestionWeight * 0
          /\ Worths(window, r, f, y) = Served(window, y) - CongestionWeight * 0
      BY <3>5 DEF Worths
    <3> QED BY <2>6, <3>3, <3>6, <3>7, SolverConstants
  <2>9. ASSUME NEW d \in Classes, Priority[d] < Priority[c], y[d] > 0
        PROVE  Solver!Bonus(window, d) > Solver!Bonus(window, c)
    <3> SUFFICES ASSUME Solver!Bonus(window, d) <= Solver!Bonus(window, c) PROVE FALSE
      BY <2>1, ValueOfClass
    <3>0. Solver!Value(window, d) \in Nat /\ Solver!Value(window, d) < Solver!Value(window, c) /\ d # c
      BY <1>1, <2>1, <2>9, ValueOfClass, ValueByPriority, SolverConstants
    <3> DEFINE v == [y EXCEPT ![d] = y[d] - 1]
               z == [v EXCEPT ![c] = v[c] + 1]
    <3>1. /\ v \in [Classes -> Nat] /\ z \in [Classes -> Nat] /\ v[c] = y[c]
          /\ z[c] = y[c] + 1 /\ z[d] = y[d] - 1 /\ v[d] = y[d] - 1 /\ z[c] = v[c] + 1
          /\ (\A x \in Classes : x # d => v[x] = y[x]) /\ (\A x \in Classes : x # c => z[x] = v[x])
          /\ \A x \in Classes : x # c /\ x # d => z[x] = y[x]
      <4>1. v \in [Classes -> Nat] /\ v[d] = y[d] - 1 /\ \A x \in Classes : x # d => v[x] = y[x]
        BY <2>4, <2>9
      <4> HIDE DEF v
      <4> QED BY <3>0, <4>1
    <3> HIDE DEF v, z
    <3>3. /\ Sum(y) = Sum(v) + 1 /\ Sum(v) \in Nat
          /\ Served(window, y) = Served(window, v) + Solver!Value(window, d)
      <4>1. IsWindow(window) /\ y \in [Classes -> Nat]
        BY <2>1, <2>4
      <4>2. v \in [Classes -> Nat] /\ y[d] = v[d] + 1 /\ \A x \in Classes : x # d => y[x] = v[x]
        BY <2>4, <3>1
      <4> QED BY <4>1, <4>2, OneMore, Zenon
    <3>4. /\ Sum(z) = Sum(v) + 1
          /\ Served(window, z) = Served(window, v) + Solver!Value(window, c)
          /\ Served(window, v) \in Nat
      <4>1. IsWindow(window) /\ v \in [Classes -> Nat] /\ z \in [Classes -> Nat]
        BY <2>1, <3>1
      <4>2. z[c] = v[c] + 1 /\ \A x \in Classes : x # c => z[x] = v[x]
        BY <3>1
      <4> QED BY <4>1, <4>2, OneMore, ZenonT(60)
    <3>5. Sum(z) = Sum(y)
      BY <2>5, <3>3, <3>4
    <3>6. z \in Solver!Splits(window, r, f)
      <4>1. y[d] \in Nat /\ y[c] \in Nat /\ y[d] <= Sum(y) - y[c]
        <5>1. DOMAIN y = Classes /\ \A x \in Classes : y[x] \in Nat
          BY <2>4
        <5>2. Sum(y) = SumFunctionOnSet(y, Classes)
          BY <5>1, SameOperators DEF Sum
        <5>3. Sum(y) = y[c] + SumFunctionOnSet(y, Classes \ {c})
          BY <5>1, <5>2, SumRemove, SolverConstants
        <5>4. d \in Classes \ {c} /\ IsFiniteSet(Classes \ {c})
          BY <3>0, FS_Subset, SolverConstants
        <5>5. y[d] <= SumFunctionOnSet(y, Classes \ {c})
          BY <5>1, <5>4, SumAtLeastTerm
        <5>6. SumFunctionOnSet(y, Classes \ {c}) \in Nat
          BY <5>1, <5>4, SumNat
        <5> QED BY <2>5, <5>1, <5>3, <5>5, <5>6
      <4>2. z[c] <= window.demand[r][c] /\ z[c] <= room
        BY <2>4, <2>5, <2>6, <2>9, <3>1, <4>1
      <4>3. z[d] <= window.demand[r][d] /\ z[d] <= room
        <5>1. window.demand[r][d] \in Nat
          BY <2>1, <2>2, DemandOfWindow
        <5> QED BY <2>4, <2>6, <3>1, <4>1, <5>1
      <4>4. \A x \in Classes : z[x] <= window.demand[r][x] /\ z[x] <= Capacity[r][f]
        BY <2>4, <3>1, <4>2, <4>3 DEF room
      <4>5. Sum(z) <= Capacity[r][f]
        BY <2>4, <3>5 DEF room
      <4> QED BY <2>1, <2>2, <3>1, <4>4, <4>5, SplitsAreSplits
    <3>7. Over(r, f, z) = Over(r, f, y)
      BY <3>5 DEF Over
    <3>8. Worths(window, r, f, z) <= Worths(window, r, f, y)
      BY <2>3, <3>6
    <3>9. CongestionWeight * Over(r, f, y) \in Nat
      BY <2>5, TimesNat, SolverConstants
    <3>10. Worths(window, r, f, z) = Served(window, z) - CongestionWeight * Over(r, f, y)
      BY <3>7 DEF Worths
    <3> QED BY <2>5, <2>6, <3>0, <3>3, <3>4, <3>8, <3>9, <3>10
  <2> QED BY <2>8, <2>9 DEF Sum, room, y, f
<1> QED BY <1>1, PlanInvariant, PTL

-----------------------------------------------------------------------------
(* The solver: its moves *)

LEMMA WorthIsInt ==
  ASSUME NEW w, IsWindow(w), NEW r \in Solver!Covered(w), NEW f \in w.cover[r]
  PROVE  Solver!Worth(w, r, f) \in Int /\ Solver!SwitchCost(r, f) \in Nat
<1>1. r \in Regions /\ f \in Fleets
  BY DEF IsWindow, Solver!Covered
<1>2. Solver!Pressure(w, r) \in Nat
  <2> DEFINE d == [s \in Solver!Covered(w) |-> Solver!RegionDemand(w, s)]
  <2>1. DOMAIN d = Solver!Covered(w) /\ \A s \in Solver!Covered(w) : d[s] \in Nat
    BY AskedIsNat, DemandOfWindow
  <2>2. Solver!Pressure(w, r) = Solver!Share(Solver!RegionDemand(w, r), Solver!SumFunction(d))
    BY DEF Solver!Pressure
  <2> HIDE DEF d
  <2>3. Solver!SumFunction(d) \in Nat
    BY <2>1, SumsAreNat, DemandOfWindow
  <2>4. Solver!RegionDemand(w, r) \in Nat
    BY <1>1, AskedIsNat
  <2> QED BY <2>2, <2>3, <2>4, ShareIsNat
<1>3. (AssignWeight * Capacity[r][f]) * Solver!Pressure(w, r) \in Nat
  <2>1. AssignWeight \in Nat /\ Capacity[r][f] \in Nat
    BY <1>1, SolverConstants
  <2>2. AssignWeight * Capacity[r][f] \in Nat
    BY <2>1, TimesNat
  <2> QED BY <1>2, <2>2, TimesNat
<1>4. Solver!Max(Solver!Range(Solver!SplitWorths(w, r, f))) \in Int
  BY <1>1, BestSplit
<1>5. Solver!SwitchCost(r, f) \in Nat
  BY SolverConstants DEF Solver!SwitchCost
<1> QED BY <1>3, <1>4, <1>5 DEF Solver!Worth

\* What assignment x is worth, region by region, switching costs taken off.
Net(w, x) == [q \in Solver!Covered(w) |-> Solver!Worth(w, q, x[q]) - Solver!SwitchCost(q, x[q])]

LEMMA OptimalIsBest ==
  ASSUME NEW w, IsWindow(w), NEW x \in Solver!Optimal(w), NEW z \in Solver!Assignments(w)
  PROVE  /\ SumFunctionOnSet(Net(w, z), Solver!Covered(w))
              <= SumFunctionOnSet(Net(w, x), Solver!Covered(w))
         /\ \A a \in Solver!Assignments(w) : \A q \in Solver!Covered(w) : Net(w, a)[q] \in Int
<1> DEFINE worth == [q \in Solver!Covered(w) |->
                       [f \in w.cover[q] |-> Solver!Worth(w, q, f) - Solver!SwitchCost(q, f)]]
           total == [a \in Solver!Assignments(w) |->
                       Solver!SumFunction([q \in Solver!Covered(w) |-> worth[q][a[q]]])]
           totals == {total[a] : a \in Solver!Assignments(w)}
<1>1. Solver!Optimal(w) = {a \in DOMAIN total : total[a] = Solver!Max(Solver!Range(total))}
  BY Zenon DEF Solver!Optimal
<1>2. ASSUME NEW a \in Solver!Assignments(w)
      PROVE  /\ \A q \in Solver!Covered(w) : Net(w, a)[q] \in Int
             /\ total[a] = SumFunctionOnSet(Net(w, a), Solver!Covered(w))
             /\ total[a] \in Int
  <2>1. \A q \in Solver!Covered(w) : a[q] \in w.cover[q]
    BY AssignmentFacts
  <2>2. [q \in Solver!Covered(w) |-> worth[q][a[q]]] = Net(w, a)
    BY <2>1 DEF Net
  <2>3. total[a] = Solver!SumFunction(Net(w, a))
    BY <2>2
  <2>4. DOMAIN Net(w, a) = Solver!Covered(w)
    BY DEF Net
  <2>5. total[a] = SumFunctionOnSet(Net(w, a), Solver!Covered(w))
    <3> HIDE DEF total
    <3> QED BY <2>3, <2>4, SameOperators
  <2>6. \A q \in Solver!Covered(w) : Net(w, a)[q] \in Int
    <3> TAKE q \in Solver!Covered(w)
    <3>1. a[q] \in w.cover[q]
      BY <2>1
    <3>2. Solver!Worth(w, q, a[q]) \in Int /\ Solver!SwitchCost(q, a[q]) \in Nat
      BY <3>1, WorthIsInt
    <3>3. Net(w, a)[q] = Solver!Worth(w, q, a[q]) - Solver!SwitchCost(q, a[q])
      BY DEF Net
    <3> QED BY <3>2, <3>3
  <2> HIDE DEF total
  <2> QED BY <2>5, <2>6, SumInt, DemandOfWindow
<1>3. DOMAIN total = Solver!Assignments(w)
  OBVIOUS
<1> HIDE DEF worth, total
<1>4. Solver!Max(Solver!Range(total)) = Max(totals)
  <2>1. Solver!Range(total) = totals
    BY <1>3, SameOperators DEF Range
  <2> QED BY <2>1, SameOperators
<1>5. IsFiniteSet(Solver!Assignments(w))
  <2>1. Solver!Assignments(w) \subseteq [Solver!Covered(w) -> Solver!SeenFleets(w)]
    BY DEF Solver!Assignments
  <2>2. IsFiniteSet([Solver!Covered(w) -> Solver!SeenFleets(w)])
    BY DemandOfWindow, FiniteFunctions
  <2> QED BY <2>1, <2>2, FS_Subset
<1>6. \A n \in totals : n <= Max(totals)
  <2>1. totals \in SUBSET Int /\ totals # {}
    BY <1>2
  <2>2. IsFiniteSet(totals)
    BY <1>5, FiniteImage
  <2> HIDE DEF totals
  <2> QED BY <2>1, <2>2, LargestNumber
<1>7. total[x] = Max(totals) /\ x \in Solver!Assignments(w)
  BY <1>1, <1>3, <1>4
<1>8. total[z] <= total[x]
  BY <1>6, <1>7
<1> QED BY <1>2, <1>7, <1>8

\* Staying with the remembered fleet was one of the solver's alternatives.
LEMMA MovePays ==
  ASSUME NEW w, IsWindow(w), NEW x \in Solver!Optimal(w), NEW r \in DOMAIN x \cap DOMAIN prevHints,
         NEW stay, stay = prevHints[r], stay # x[r], stay \in w.cover[r],
         Solver!Balanced(w, [x EXCEPT ![r] = stay])
  PROVE  Solver!Worth(w, r, x[r]) >= Solver!Worth(w, r, stay) + 100 * SwitchWeight
<1> DEFINE z == [x EXCEPT ![r] = stay]
           here == Solver!Covered(w)
<1>1. /\ x \in Solver!Assignments(w) /\ DOMAIN x = here /\ r \in here
      /\ x \in [here -> Solver!SeenFleets(w)] /\ \A q \in here : x[q] \in w.cover[q]
  <2>1. x \in Solver!Assignments(w)
    BY BestAssignment
  <2> QED BY <2>1, AssignmentFacts
<1>2. z[r] = stay /\ (\A q \in here : q # r => z[q] = x[q]) /\ \A q \in here : z[q] \in w.cover[q]
  BY <1>1
<1>3. stay \in Solver!SeenFleets(w)
  BY <1>1 DEF Solver!SeenFleets
<1>4. z \in Solver!Assignments(w)
  <2>1. z \in [here -> Solver!SeenFleets(w)]
    BY <1>1, <1>3
  <2> HIDE DEF z
  <2> QED BY <1>2, <2>1 DEF Solver!Assignments, z
<1> HIDE DEF z
<1> DEFINE f == Net(w, x)
           g == Net(w, z)
<1>5. /\ \A q \in here : f[q] \in Int /\ g[q] \in Int
      /\ SumFunctionOnSet(g, here) <= SumFunctionOnSet(f, here)
  BY <1>1, <1>4, OptimalIsBest
<1>6. \A q \in here : q # r => g[q] = f[q]
  BY <1>2 DEF Net
<1>7. /\ f[r] = Solver!Worth(w, r, x[r]) - 100 * SwitchWeight
      /\ g[r] = Solver!Worth(w, r, stay) - 0
  <2>1. Solver!SwitchCost(r, x[r]) = 100 * SwitchWeight /\ Solver!SwitchCost(r, stay) = 0
    BY DEF Solver!SwitchCost
  <2>2. /\ f[r] = Solver!Worth(w, r, x[r]) - Solver!SwitchCost(r, x[r])
        /\ g[r] = Solver!Worth(w, r, z[r]) - Solver!SwitchCost(r, z[r])
    BY <1>1 DEF Net
  <2> QED BY <1>2, <2>1, <2>2
<1> HIDE DEF f, g
<1>8. SumFunctionOnSet(g, here) = SumFunctionOnSet(f, here) - f[r] + g[r]
  <2>1. IsFiniteSet(here)
    BY DemandOfWindow
  <2> HIDE DEF here
  <2> QED BY <1>1, <1>5, <1>6, <2>1, SumChange
<1>9. SumFunctionOnSet(f, here) \in Int /\ f[r] \in Int /\ g[r] \in Int
  BY <1>1, <1>5, SumInt, DemandOfWindow
<1>10. Solver!Worth(w, r, x[r]) \in Int /\ Solver!Worth(w, r, stay) \in Int
  BY <1>1, WorthIsInt
<1> QED BY <1>5, <1>7, <1>8, <1>9, <1>10, SolverConstants

\* A region is taken from a fleet that could have kept it only for a gain of at least
\* the switching penalty, whatever happened since the solver last answered.
THEOREM MovesJustified == Spec => MovesPayOff
<1> DEFINE Paid ==
      by' = "optimal" =>
        \A r \in DOMAIN hints' \cap DOMAIN prevHints :
          LET stay == prevHints[r]
          IN  /\ stay # hints'[r] /\ stay \in window'.cover[r]
              /\ Solver!Balanced(window', [hints' EXCEPT ![r] = stay])
              => Solver!Worth(window', r, hints'[r])
                   >= Solver!Worth(window', r, stay) + 100 * SwitchWeight
<1>1. PlanInv /\ [Next]_vars => [Paid]_(Solver!vars)
  <2> SUFFICES ASSUME PlanInv, [Next]_vars, Solver!vars' # Solver!vars, by' = "optimal" PROVE Paid
    BY Zenon
  <2>1. PICK w \in Solver!Windows : Solver!SolveToOptimality(w)
    <3>1. CASE PlanByFormula
      BY <3>1 DEF PlanByFormula, Solver!FallBack, Solver!Answer
    <3>2. CASE PlanBySolver
      <4>1. PICK w \in Solver!Windows :
              Solver!SolveToOptimality(w) \/ Solver!StopAtTimeLimit(w) \/ Solver!FallBack(w)
        BY <3>2 DEF PlanBySolver, Solver!Next
      <4>2. ~ Solver!FallBack(w)
        BY DEF Solver!FallBack, Solver!Answer
      <4>3. ~ Solver!StopAtTimeLimit(w)
        BY DEF Solver!StopAtTimeLimit, Solver!ReadOut, Solver!Answer
      <4> QED BY <4>1, <4>2, <4>3
    <3>3. CASE UNCHANGED planVars
      BY <3>3 DEF planVars, Solver!vars
    <3> QED BY <3>1, <3>2, <3>3 DEF Next, PlanByLearning, vars
  <2>2. IsWindow(w)
    BY WindowsAreWindows DEF PlanInv
  <2>3. PICK x \in Solver!Optimal(w) :
          Solver!ReadOut(w, x, [r \in Solver!Asking(w) |-> Solver!BestSplits(w, r, x[r])], "optimal")
    BY <2>1 DEF Solver!SolveToOptimality
  <2>4. window' = w /\ hints' = x
    BY <2>3 DEF Solver!ReadOut, Solver!Answer
  <2>5. ASSUME NEW r \in DOMAIN hints' \cap DOMAIN prevHints, prevHints[r] # hints'[r],
               prevHints[r] \in window'.cover[r],
               Solver!Balanced(window', [hints' EXCEPT ![r] = prevHints[r]])
        PROVE  Solver!Worth(window', r, hints'[r])
                 >= Solver!Worth(window', r, prevHints[r]) + 100 * SwitchWeight
    BY <2>2, <2>4, <2>5, MovePays
  <2> QED BY <2>5
<1>2. MovesPayOff <=> [][Paid]_(Solver!vars)
  BY DEF MovesPayOff, Solver!MovesPayOff
<1> HIDE DEF Paid
<1> QED BY <1>1, <1>2, PlanInvariant, PTL DEF Spec

-----------------------------------------------------------------------------
(* The solver: there is an assignment *)

LEMMA SameCardinality == \A S : Solver!Cardinality(S) = Cardinality(S)
BY Zenon DEF Cardinality, Solver!Cardinality

\* Some of the regions are at most as many, and fewer if one is left out.
LEMMA SomeRegions ==
  ASSUME NEW C, IsFiniteSet(C), NEW own \in SUBSET C
  PROVE  /\ Cardinality(own) \in Nat /\ Cardinality(own) <= Cardinality(C)
         /\ own # C => Cardinality(own) <= Cardinality(C) - 1
<1>1. IsFiniteSet(own) /\ Cardinality(own) <= Cardinality(C)
      /\ (own # C => Cardinality(own) # Cardinality(C))
  BY FS_Subset
<1>2. Cardinality(own) \in Nat /\ Cardinality(C) \in Nat
  BY <1>1, FS_CardinalityType
<1> QED BY <1>1, <1>2

\* With at most two fleets and five regions some assignment keeps the balance cap,
\* however few regions a fleet may serve.
LEMMA SomeAssignment ==
  ASSUME Cardinality(Regions) <= 5, Cardinality(Fleets) <= 2,
         NEW w, IsWindow(w), \A r \in Solver!Covered(w) : w.cover[r] # {}
  PROVE  Solver!Assignments(w) # {}
<1> DEFINE C == Solver!Covered(w)
           S == Solver!SeenFleets(w)
           n == Cardinality(C)
           s == Cardinality(S)
           cap == (n + s - 1) \div s + 1
           Choice(x) == x \in [C -> S] /\ \A r \in C : x[r] \in w.cover[r]
           Own(x, f) == Cardinality({r \in C : x[r] = f})
<1>1. /\ IsFiniteSet(C) /\ IsFiniteSet(S) /\ C \in SUBSET Regions /\ S \in SUBSET Fleets
      /\ n \in Nat /\ s \in Nat
  BY DemandOfWindow, FS_CardinalityType
<1>2. n <= 5 /\ s <= 2
  <2>1. n <= Cardinality(Regions) /\ Cardinality(Regions) \in Nat
    BY <1>1, SolverConstants, FS_Subset, FS_CardinalityType
  <2>2. s <= Cardinality(Fleets) /\ Cardinality(Fleets) \in Nat
    BY <1>1, SolverConstants, FS_Subset, FS_CardinalityType
  <2> QED BY <1>1, <2>1, <2>2
<1>3. \A r \in C : w.cover[r] \subseteq S /\ w.cover[r] # {}
  BY DEF Solver!SeenFleets, Solver!Covered
<1>4. ASSUME NEW x, Choice(x), \A f \in S : Own(x, f) <= cap PROVE x \in Solver!Assignments(w)
  <2>1. Solver!MaxPerFleet(w) = cap
    BY SameCardinality DEF Solver!MaxPerFleet, Solver!EvenShare
  <2>2. \A f : Solver!Cardinality({r \in Solver!Covered(w) : x[r] = f}) = Own(x, f)
    BY SameCardinality
  <2>3. Solver!Balanced(w, x)
    BY <1>4, <2>1, <2>2 DEF Solver!Balanced
  <2> QED BY <1>4, <2>3 DEF Solver!Assignments
<1>5. ASSUME NEW x, NEW f
      PROVE  /\ Own(x, f) \in Nat /\ Own(x, f) <= n
             /\ (\E r \in C : x[r] # f) => Own(x, f) <= n - 1
  <2> DEFINE own == {r \in C : x[r] = f}
  <2>1. own \in SUBSET C /\ ((\E r \in C : x[r] # f) => own # C)
    OBVIOUS
  <2>2. Own(x, f) = Cardinality(own) /\ IsFiniteSet(C)
    BY <1>1
  <2> HIDE DEF C, own, Own
  <2> QED BY <2>1, <2>2, SomeRegions
<1> HIDE DEF Own, n
<1>6. S = {} \/ s \in {1, 2}
  BY <1>1, <1>2, FS_EmptySet
<1>7. \E x : Choice(x)
  <2> DEFINE x == [r \in C |-> CHOOSE f \in w.cover[r] : TRUE]
  <2>1. Choice(x)
    BY <1>3
  <2> QED BY <2>1
<1>8. CASE S = {}
  BY <1>4, <1>7, <1>8
<1>9. CASE s = 1 \/ (s = 2 /\ n <= 3)
  <2>1. cap >= n
    <3>1. CASE s = 1
      BY <1>1, <3>1
    <3>2. CASE s = 2 /\ n \in 0..3
      BY <3>2
    <3> QED BY <1>1, <1>9, <3>1, <3>2
  <2>2. PICK x : Choice(x)
    BY <1>7
  <2>3. \A f \in S : Own(x, f) <= cap
    <3>1. cap \in Int
      BY <1>1, <1>9
    <3> HIDE DEF cap
    <3> QED BY <1>1, <1>5, <2>1, <3>1
  <2> HIDE DEF Choice
  <2> QED BY <1>4, <2>2, <2>3
<1>10. CASE s = 2 /\ n \in {4, 5}
  <2>1. cap >= n - 1 /\ cap \in Int
    BY <1>10
  <2>2. PICK f \in S, g \in S : f # g /\ S = {f, g}
    <3>1. \E f, g \in S : f # g
      <4> SUFFICES ASSUME \A f, g \in S : f = g PROVE FALSE
        OBVIOUS
      <4>1. PICK f \in S : TRUE
        BY <1>10, FS_EmptySet
      <4>2. S = {f}
        BY <4>1
      <4>3. Cardinality({f}) = 1
        BY FS_Singleton
      <4> QED BY <1>10, <4>2, <4>3
    <3>2. PICK f \in S, g \in S : f # g
      BY <3>1
    <3>3. Cardinality({f, g}) = 2 /\ {f, g} \in SUBSET S
      <4>1. Cardinality({f}) = 1 /\ IsFiniteSet({f}) /\ g \notin {f}
        BY <3>2, FS_Singleton
      <4>2. Cardinality({f} \cup {g}) = 2
        BY <4>1, FS_AddElement
      <4>3. {f} \cup {g} = {f, g}
        OBVIOUS
      <4> QED BY <4>2, <4>3
    <3>4. {f, g} = S
      BY <1>1, <1>10, <3>3, FS_Subset
    <3> QED BY <3>2, <3>4
  <2>3. \E m, k \in C : m # k /\ f \in w.cover[m] /\ g \in w.cover[k]
    <3>1. PICK m \in C : f \in w.cover[m]
      BY DEF Solver!SeenFleets
    <3>2. PICK k \in C : g \in w.cover[k]
      BY DEF Solver!SeenFleets
    <3>3. CASE m # k
      BY <3>1, <3>2, <3>3
    <3>4. CASE m = k
      <4>1. PICK r \in C : r # m
        <5> SUFFICES ASSUME \A r \in C : r = m PROVE FALSE
          OBVIOUS
        <5>1. C = {m}
          BY <3>1
        <5>2. n = 1
          BY <5>1, FS_Singleton DEF n
        <5> QED BY <1>10, <5>2
      <4>2. f \in w.cover[r] \/ g \in w.cover[r]
        BY <1>3, <2>2
      <4> QED BY <3>1, <3>2, <3>4, <4>1, <4>2
    <3> QED BY <3>3, <3>4
  <2>4. PICK m \in C, k \in C : m # k /\ f \in w.cover[m] /\ g \in w.cover[k]
    BY <2>3
  <2>5. PICK y : Choice(y)
    BY <1>7
  <2> DEFINE x == [r \in C |-> IF r = m THEN f ELSE IF r = k THEN g ELSE y[r]]
  <2>6. Choice(x) /\ x[m] = f /\ x[k] = g
    BY <2>2, <2>4, <2>5
  <2> HIDE DEF x, cap, Choice
  <2>7. \A h \in S : Own(x, h) <= cap
    <3> TAKE h \in S
    <3>1. \E r \in C : x[r] # h
      BY <2>2, <2>6
    <3>2. Own(x, h) <= n - 1 /\ Own(x, h) \in Nat
      BY <1>5, <3>1
    <3> QED BY <1>1, <2>1, <3>2
  <2> QED BY <1>4, <2>6, <2>7
<1>11. n <= 3 \/ n \in {4, 5}
  BY <1>1, <1>2
<1> QED BY <1>6, <1>8, <1>9, <1>10, <1>11

\* For regions and fleets as many as the closed enumerations Region and FleetId have,
\* or fewer, the balance cap leaves an assignment whatever the licences and whichever
\* fleets are out: a working solver never falls back because of it.
THEOREM SolverAnswers ==
  ASSUME Cardinality(Regions) <= 5, Cardinality(Fleets) <= 2
  PROVE  Spec => []SolverCanAnswer
<1> DEFINE Seen == /\ licence \in Licences
                   /\ by # "nobody" => /\ IsWindow(window)
                                       /\ \A r \in Solver!Covered(window) : window.cover[r] # {}
<1>1. Init => Seen
  BY DEF Init, Solver!Init
<1>2. Seen /\ [Next]_vars => Seen'
  <2> SUFFICES ASSUME Seen, [Next]_vars PROVE Seen'
    OBVIOUS
  <2>1. ASSUME NEW w \in Solver!Windows
        PROVE  IsWindow(w) /\ \A r \in Solver!Covered(w) : w.cover[r] # {}
    <3>1. PICK up \in SUBSET Fleets : w.cover = Solver!CoverOf(up)
      BY DEF Solver!Windows
    <3>2. \A r \in Solver!Covered(w) : w.cover[r] # {}
      BY <3>1 DEF Solver!Covered, Solver!CoverOf
    <3> QED BY <3>2, WindowsAreWindows
  <2>2. CASE \E w \in Solver!Windows : window' = w /\ licence' = licence
    <3>1. PICK w \in Solver!Windows : window' = w /\ licence' = licence
      BY <2>2
    <3>2. IsWindow(w) /\ \A r \in Solver!Covered(w) : w.cover[r] # {}
      BY <2>1
    <3> QED BY <3>1, <3>2 DEF IsWindow, Solver!Covered
  <2>3. CASE UNCHANGED planVars
    <3>1. UNCHANGED <<licence, window, by>>
      BY <2>3 DEF planVars
    <3> QED BY <3>1 DEF IsWindow, Solver!Covered
  <2>4. \A w : Solver!SolveToOptimality(w) \/ Solver!StopAtTimeLimit(w) \/ Solver!FallBack(w)
                 => window' = w /\ licence' = licence
    BY DEF Solver!SolveToOptimality, Solver!StopAtTimeLimit, Solver!FallBack, Solver!ReadOut,
           Solver!Answer
  <2> QED BY <2>2, <2>3, <2>4 DEF Next, PlanByFormula, PlanBySolver, PlanByLearning, Solver!Next, vars
<1>3. Seen => SolverCanAnswer
  BY SomeAssignment DEF SolverCanAnswer, Solver!SolverCanAnswer
<1> HIDE DEF Seen
<1> QED BY <1>1, <1>2, <1>3, PTL DEF Spec
=============================================================================
