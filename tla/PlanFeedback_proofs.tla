------------------------ MODULE PlanFeedback_proofs ------------------------
(***************************************************************************)
(* What the feedback loop of Tier 3 promises for any cadence, any history  *)
(* capacity and any classes.  The invariant says what the histories are:   *)
(* the observations of the last steps, in order; that the plan in force    *)
(* was made at the last multiple of the cadence; and that each observation *)
(* of congestion or of drops has a step that was congested, or that        *)
(* dropped a request, behind it.                                           *)
(***************************************************************************)
EXTENDS PlanFeedback, DataLemmas

-----------------------------------------------------------------------------
(* Bounded histories *)

LEMMA LastElements ==
  ASSUME NEW R, NEW seq \in Seq(R), NEW n \in Nat \ {0}
  PROVE  /\ LastOf(seq, n) \in Seq(R) /\ Len(LastOf(seq, n)) = Smaller(Len(seq), n)
         /\ \A i \in DOMAIN LastOf(seq, n) :
              /\ Len(seq) - Len(LastOf(seq, n)) + i \in DOMAIN seq
              /\ LastOf(seq, n)[i] = seq[Len(seq) - Len(LastOf(seq, n)) + i]
<1> DEFINE l == Len(seq)
<1>1. l \in Nat /\ DOMAIN seq = 1..l
  BY LenProperties
<1>2. CASE l <= n
  <2>1. LastOf(seq, n) = seq
    BY <1>2 DEF LastOf
  <2>2. \A i \in DOMAIN seq : Len(seq) - Len(seq) + i = i
    BY <1>1
  <2> QED BY <1>2, <2>1, <2>2 DEF Smaller
<1>3. CASE ~(l <= n)
  <2>1. LastOf(seq, n) = SubSeq(seq, l - n + 1, l)
    BY <1>3 DEF LastOf
  <2>2. l - n + 1 \in 1..l
    BY <1>1, <1>3
  <2>3. /\ SubSeq(seq, l - n + 1, l) \in Seq(R) /\ Len(SubSeq(seq, l - n + 1, l)) = n
        /\ \A i \in 1..n : SubSeq(seq, l - n + 1, l)[i] = seq[(l - n + 1) + i - 1]
    BY <1>1, <2>2
  <2>4. DOMAIN LastOf(seq, n) = 1..n
    BY <2>1, <2>3, LenProperties
  <2>5. \A i \in 1..n : l - n + i \in 1..l /\ (l - n + 1) + i - 1 = l - n + i
    BY <1>1, <1>3
  <2> QED BY <1>1, <1>3, <2>1, <2>3, <2>4, <2>5 DEF Smaller
<1> QED BY <1>2, <1>3

\* A deque that remembers one element more.
LEMMA Remembered ==
  ASSUME NEW R, NEW seq \in Seq(R), NEW x \in R, capacity \in Nat \ {0}
  PROVE  /\ Remember(seq, x) \in Seq(R)
         /\ Len(Remember(seq, x)) = Smaller(Len(seq) + 1, capacity)
         /\ \A i \in DOMAIN Remember(seq, x) :
              Remember(seq, x)[i] =
                IF i = Len(Remember(seq, x)) THEN x
                ELSE seq[Len(seq) + 1 - Len(Remember(seq, x)) + i]
         /\ \A i \in DOMAIN Remember(seq, x) :
              i # Len(Remember(seq, x)) => Len(seq) + 1 - Len(Remember(seq, x)) + i \in DOMAIN seq
<1> DEFINE longer == Append(seq, x)
           l == Len(seq)
           kept == Remember(seq, x)
           m == Len(kept)
<1>1. l \in Nat /\ DOMAIN seq = 1..l
  BY LenProperties
<1>2. /\ longer \in Seq(R) /\ Len(longer) = l + 1 /\ DOMAIN longer = 1..(l + 1)
      /\ \A i \in 1..l : longer[i] = seq[i]
      /\ longer[l + 1] = x
  BY <1>1, AppendProperties
<1>3. kept = LastOf(longer, capacity)
  BY DEF Remember
<1> HIDE DEF longer, l, kept, m
<1>4. /\ kept \in Seq(R) /\ m = Smaller(l + 1, capacity)
      /\ \A i \in DOMAIN kept : l + 1 - m + i \in 1..(l + 1) /\ kept[i] = longer[l + 1 - m + i]
  <2> DEFINE last == LastOf(longer, capacity)
  <2>1. /\ last \in Seq(R) /\ Len(last) = Smaller(Len(longer), capacity)
        /\ \A i \in DOMAIN last : /\ Len(longer) - Len(last) + i \in DOMAIN longer
                                  /\ last[i] = longer[Len(longer) - Len(last) + i]
    BY <1>2, LastElements
  <2>2. kept = last
    BY <1>3
  <2> HIDE DEF last
  <2>3. kept \in Seq(R) /\ m = Smaller(l + 1, capacity)
    BY <1>2, <2>1, <2>2, Zenon DEF m
  <2>4. ASSUME NEW i \in DOMAIN kept
        PROVE  l + 1 - m + i \in 1..(l + 1) /\ kept[i] = longer[l + 1 - m + i]
    <3>1. Len(longer) - Len(last) + i = l + 1 - m + i
      <4>1. Len(longer) = l + 1 /\ Len(last) = m
        BY <1>2, <2>2, Zenon DEF m
      <4>2. m \in Nat /\ i \in Nat
        BY <2>3, LenProperties DEF m
      <4> QED BY <1>1, <4>1, <4>2
    <3>2. Len(longer) - Len(last) + i \in DOMAIN longer
      BY <2>1, <2>2, Zenon
    <3>3. last[i] = longer[Len(longer) - Len(last) + i]
      BY <2>1, <2>2, Zenon
    <3> QED BY <1>2, <2>2, <3>1, <3>2, <3>3, Zenon
  <2> QED BY <2>3, <2>4
<1>5. m \in Nat /\ DOMAIN kept = 1..m
  BY <1>4, LenProperties DEF m
<1>6. ASSUME NEW i \in DOMAIN kept
      PROVE  /\ i = m => kept[i] = x
             /\ i # m => kept[i] = seq[l + 1 - m + i] /\ l + 1 - m + i \in DOMAIN seq
  <2>1. i = m => l + 1 - m + i = l + 1
    BY <1>1, <1>5
  <2>2. i # m => l + 1 - m + i \in 1..l
    BY <1>1, <1>4, <1>5
  <2> QED BY <1>1, <1>2, <1>4, <2>1, <2>2
<1> QED BY <1>4, <1>6 DEF l, kept, m

\* Means of numbers up to c.
LEMMA MeanAtMost ==
  ASSUME NEW ns, NEW n \in Nat, DOMAIN ns = 1..n, Len(ns) = n, n = 0 <=> ns = <<>>,
         NEW c \in Nat, \A i \in 1..n : ns[i] \in Nat /\ ns[i] <= c
  PROVE  /\ Mean(ns) \in Nat /\ Mean(ns) <= c
         /\ c > 0 /\ Mean(ns) = c => n # 0 /\ \A i \in 1..n : ns[i] = c
<1> DEFINE sum == SumFunctionOnSet(ns, 1..n)
<1>1. IsFiniteSet(1..n) /\ Cardinality(1..n) = n
  BY FS_Interval
<1>2. sum \in Nat /\ sum <= c * n
  BY <1>1, SumNat, SumAtMost
<1>3. CASE n = 0
  BY <1>3 DEF Mean
<1>4. CASE n # 0
  <2>1. Mean(ns) = sum \div n
    BY <1>4 DEF Mean, SumFunction
  <2> DEFINE q == sum \div n
  <2>2. q \in Nat /\ q * n <= sum
    BY <1>2, <1>4, Quotient
  <2> HIDE DEF q, sum
  <2>3. q <= c
    <3> SUFFICES ASSUME c + 1 <= q PROVE FALSE
      BY <2>2
    <3>1. n * (c + 1) <= n * q
      BY <2>2, TimesMonotone
    <3>2. n * (c + 1) = c * n + n /\ n * q = q * n /\ c * n \in Nat /\ q * n \in Nat
      BY <2>2
    <3> QED BY <1>2, <1>4, <2>2, <3>1, <3>2
  <2>4. ASSUME c > 0, q = c, NEW j \in 1..n PROVE ns[j] = c
    <3>1. sum = ns[j] + SumFunctionOnSet(ns, (1..n) \ {j})
      BY <1>1, SumRemove DEF sum
    <3>2. IsFiniteSet((1..n) \ {j}) /\ Cardinality((1..n) \ {j}) = n - 1
      BY <1>1, FS_RemoveElement
    <3>3. SumFunctionOnSet(ns, (1..n) \ {j}) <= c * (n - 1)
      <4> DEFINE S == (1..n) \ {j}
      <4>1. IsFiniteSet(S) /\ Cardinality(S) = n - 1 /\ \A i \in S : ns[i] \in Int /\ ns[i] <= c
        BY <3>2
      <4> HIDE DEF S
      <4>2. SumFunctionOnSet(ns, S) <= c * Cardinality(S)
        <5>1. c \in Int
          OBVIOUS
        <5> QED BY <4>1, <5>1, SumAtMost, Zenon
      <4> QED BY <4>1, <4>2 DEF S
    <3>4. SumFunctionOnSet(ns, (1..n) \ {j}) \in Nat
      BY <3>2, SumNat
    <3>5. c * (n - 1) = c * n - c /\ c * n \in Nat /\ q * n = c * n
      BY <2>4
    <3> QED BY <1>2, <2>2, <2>4, <3>1, <3>3, <3>4, <3>5
  <2> QED BY <1>4, <2>1, <2>2, <2>3, <2>4 DEF q
<1> QED BY <1>3, <1>4

-----------------------------------------------------------------------------
(* What a step observes *)

Counts == [Classes -> Nat]
Busiest == 100 * SumFunction(Units)
Observations ==
  [at : Int, demand : Counts, util : (0..Busiest) \cup {Infinite}, drop : 0..100, served : Counts]
AllFates == [Classes -> InLane \cup BestEffortFates]

LEMMA LoadCounts ==
  ASSUME NEW fate \in AllFates
  PROVE  /\ Load(fate) \in Nat /\ SumFunction(Units) \in Nat
         /\ Load(fate) <= SumFunction(Units)
<1> DEFINE n == [c \in Classes |-> IF c \in BestEffort(fate) THEN Units[c] ELSE 0]
<1>1. IsFiniteSet(Classes) /\ DOMAIN Units = Classes
      /\ \A c \in Classes : Units[c] \in Nat /\ n[c] \in Nat /\ n[c] <= Units[c]
  BY PlannerAssumption, FeedbackAssumption
<1>2. Load(fate) = SumFunctionOnSet(n, Classes)
  BY DEF Load, SumFunction
<1>3. SumFunction(Units) = SumFunctionOnSet(Units, Classes)
  BY <1>1 DEF SumFunction
<1> HIDE DEF n
<1>4. SumFunctionOnSet(n, Classes) \in Nat /\ SumFunctionOnSet(Units, Classes) \in Nat
  BY <1>1, SumNat
<1>5. SumFunctionOnSet(n, Classes) <= SumFunctionOnSet(Units, Classes)
  BY <1>1, SumMonotone
<1> QED BY <1>2, <1>3, <1>4, <1>5

\* More than full: more load than room.  Infinitely full: load, and no room at all.
LEMMA OverSubscribed ==
  ASSUME NEW load \in Nat, NEW room \in Nat
  PROVE  /\ Utilization(load, room) \in (0..(100 * load)) \cup {Infinite}
         /\ Utilization(load, room) > 100 => load > room
         /\ Utilization(load, room) = Infinite => load > 0 /\ room = 0
<1>1. CASE load = 0
  BY <1>1 DEF Utilization, Infinite
<1>2. CASE load # 0 /\ room = 0
  BY <1>2 DEF Utilization, Infinite
<1>3. CASE load # 0 /\ room # 0
  <2> DEFINE q == (100 * load) \div room
  <2>1. q \in Nat /\ q * room <= 100 * load
    BY <1>3, Quotient
  <2>2. Utilization(load, room) = q
    BY <1>3 DEF Utilization
  <2> HIDE DEF q
  <2>3. ASSUME q > 100 PROVE load > room
    <3>1. room * 101 <= room * q
      BY <2>1, <2>3, TimesMonotone
    <3>2. room * q = q * room /\ q * room \in Nat
      BY <2>1
    <3> QED BY <1>3, <2>1, <3>1, <3>2
  <2>4. q <= 100 * load
    <3>1. q * 1 <= q * room
      <4>1. 1 \in Nat /\ 1 <= room
        BY <1>3
      <4> QED BY <2>1, <4>1, TimesMonotone
    <3>2. q * room \in Nat
      BY <2>1
    <3> QED BY <2>1, <3>1, <3>2
  <2> QED BY <2>1, <2>2, <2>3, <2>4 DEF Infinite
<1> QED BY <1>1, <1>2, <1>3

\* A drop rate that is not 0 comes from a drop.
LEMMA DropRateBounds ==
  ASSUME NEW fate \in AllFates
  PROVE  /\ DropRate(fate) \in 0..100
         /\ DropRate(fate) > 0 => Count(fate, Dropped) > 0
<1> DEFINE a == Count(fate, Dropped)
           b == Count(fate, Settled)
<1>1. /\ IsFiniteSet({c \in Classes : fate[c] \in Dropped})
      /\ IsFiniteSet({c \in Classes : fate[c] \in Settled})
  BY PlannerAssumption, FS_Subset
<1>2. {c \in Classes : fate[c] \in Dropped} \subseteq {c \in Classes : fate[c] \in Settled}
  BY DEF Dropped, Settled
<1>3. a \in Nat /\ b \in Nat /\ a <= b
  BY <1>1, <1>2, FS_CardinalityType, FS_Subset DEF Count
<1>4. DropRate(fate) = IF b = 0 THEN 0 ELSE (100 * a) \div b
  BY DEF DropRate
<1> HIDE DEF a, b
<1>5. CASE b = 0
  BY <1>4, <1>5
<1>6. CASE b # 0
  <2> DEFINE q == (100 * a) \div b
  <2>1. q \in Nat /\ q * b <= 100 * a
    BY <1>3, <1>6, Quotient
  <2> HIDE DEF q
  <2>2. q <= 100
    <3> SUFFICES ASSUME 101 <= q PROVE FALSE
      BY <2>1
    <3>1. b * 101 <= b * q
      BY <1>3, <2>1, TimesMonotone
    <3>2. b * q = q * b /\ q * b \in Nat
      BY <1>3, <2>1
    <3> QED BY <1>3, <1>6, <2>1, <3>1, <3>2
  <2>3. q > 0 => a > 0
    <3> SUFFICES ASSUME q >= 1, a = 0 PROVE FALSE
      BY <1>3, <2>1
    <3>1. b * 1 <= b * q
      BY <1>3, <2>1, TimesMonotone
    <3>2. b * q = q * b
      BY <1>3, <2>1
    <3> QED BY <1>3, <1>6, <2>1, <3>1, <3>2
  <2> QED BY <1>4, <1>6, <2>1, <2>2, <2>3 DEF a, q
<1> QED BY <1>5, <1>6

LEMMA WhatIsObserved ==
  ASSUME NEW fate \in AllFates, NEW room \in Nat, step \in Nat, lastDropRate \in 0..100
  PROVE  /\ Observation(fate, room) \in Observations
         /\ Observation(fate, room).at = step
         /\ Observation(fate, room).drop = lastDropRate
         /\ Observation(fate, room).util > 100 => Load(fate) > room
         /\ Observation(fate, room).util = Infinite => Load(fate) > 0 /\ room = 0
<1> DEFINE o == Observation(fate, room)
<1>1. Load(fate) \in Nat /\ SumFunction(Units) \in Nat /\ Load(fate) <= SumFunction(Units)
  BY LoadCounts
<1>2. /\ Utilization(Load(fate), room) \in (0..(100 * Load(fate))) \cup {Infinite}
      /\ Utilization(Load(fate), room) > 100 => Load(fate) > room
      /\ Utilization(Load(fate), room) = Infinite => Load(fate) > 0 /\ room = 0
  BY <1>1, OverSubscribed
<1>3. /\ o.at = step /\ o.drop = lastDropRate
      /\ o.util = Utilization(Load(fate), room)
  BY DEF Observation
<1>4. o.util \in (0..Busiest) \cup {Infinite}
  <2>1. 100 * Load(fate) <= Busiest
    BY <1>1 DEF Busiest
  <2> QED BY <1>1, <1>2, <1>3, <2>1 DEF Busiest
<1>5. o.demand \in Counts /\ o.served \in Counts
  BY FeedbackAssumption DEF Observation, Counts
<1>6. o = [at |-> o.at, demand |-> o.demand, util |-> o.util, drop |-> o.drop, served |-> o.served]
  BY DEF Observation
<1> HIDE DEF o
<1>7. o \in Observations
  BY <1>3, <1>4, <1>5, <1>6 DEF Observations
<1> QED BY <1>2, <1>3, <1>7 DEF o

-----------------------------------------------------------------------------
(* The invariant *)

Types ==
  /\ tuning \in Tunings /\ cadence \in Nat \ {0} /\ capacity \in Nat \ {0}
  /\ phase \in {"plan", "run", "done"}
  /\ step \in Nat /\ step <= DurationSteps /\ (phase # "done" => step < DurationSteps)
  /\ recent \in Seq(Observations) /\ lastDropRate \in 0..100
  /\ governedBy \in [Steps -> Int] /\ learned \in [Steps -> Nat]

\* The histories hold the last steps, in order.
LastSteps ==
  /\ Len(recent) = Smaller(step, capacity)
  /\ \A i \in DOMAIN recent : recent[i].at = step - Len(recent) + i - 1

\* The plan in force was made at the last multiple of the cadence.
FreshPlan ==
  /\ plan.at \in Nat \/ (plan.at = Never /\ step = 0 /\ phase = "plan")
  /\ plan.at <= step
  /\ phase = "plan" /\ plan.at # Never =>
       /\ plan.at < step /\ step - plan.at <= cadence
       /\ step % cadence = IF step - plan.at = cadence THEN 0 ELSE step - plan.at
  /\ phase = "run" => /\ step - plan.at < cadence
                      /\ step % cadence = step - plan.at
                      /\ plan.at = step => plan = PlanOf(tuning, recent, step)

\* The steps under the plan in force are not learned from yet, those before all were.
Judged ==
  /\ \A s \in Steps : plan.at <= s /\ s < step => governedBy[s] = plan.at
  /\ \A s \in Steps : s >= plan.at => learned[s] = 0
  /\ window \subseteq {s \in Steps : s < plan.at}
  /\ LearnedOnce

\* Whatever was observed happened: load above room in its step, or load without room; a
\* drop the step before.
Witnessed ==
  /\ \A i \in DOMAIN recent : /\ recent[i].util > 100 => recent[i].at \in over
                              /\ recent[i].util = Infinite =>
                                   recent[i].at \in over /\ recent[i].at \in starved
                              /\ recent[i].drop > 0 => recent[i].at - 1 \in lossy
  /\ lastDropRate > 0 => step - 1 \in lossy

FeedbackInv == Types /\ LastSteps /\ FreshPlan /\ Judged /\ Witnessed

\* The steps of the last n observations.
LEMMA LastStepsOf ==
  ASSUME Types, LastSteps, NEW n \in Nat \ {0}
  PROVE  StepsOf(LastOf(recent, n)) = (step - Smaller(Len(recent), n))..(step - 1)
<1> DEFINE last == LastOf(recent, n)
           l == Len(recent)
           m == Len(last)
<1>1. l \in Nat /\ DOMAIN recent = 1..l /\ recent \in Seq(Observations) /\ step \in Nat
  BY LenProperties DEF Types
<1>2. /\ last \in Seq(Observations) /\ m = Smaller(l, n)
      /\ \A i \in DOMAIN last : l - m + i \in DOMAIN recent /\ last[i] = recent[l - m + i]
  BY <1>1, LastElements
<1>3. m \in Nat /\ DOMAIN last = 1..m
  BY <1>2, LenProperties
<1> HIDE DEF last, m, l
<1>4. \A i \in DOMAIN recent : recent[i].at = step - l + i - 1
  BY DEF LastSteps, l
<1>5. \A i \in 1..m : last[i].at = step - m + i - 1
  <2> TAKE i \in 1..m
  <2>1. l - m + i \in DOMAIN recent /\ last[i] = recent[l - m + i]
    BY <1>2, <1>3
  <2>2. last[i].at = step - l + (l - m + i) - 1
    BY <1>4, <2>1
  <2> QED BY <1>1, <1>3, <2>2
<1>6. StepsOf(last) = {last[i].at : i \in 1..m}
  BY <1>3 DEF StepsOf
<1>7. \A s \in (step - m)..(step - 1) : s - step + m + 1 \in 1..m /\ step - m + (s - step + m + 1) - 1 = s
  BY <1>1, <1>3
<1>8. \A i \in 1..m : step - m + i - 1 \in (step - m)..(step - 1)
  BY <1>1, <1>3
<1>9. StepsOf(last) = (step - m)..(step - 1)
  <2>1. \A s \in (step - m)..(step - 1) : \E i \in 1..m : last[i].at = s
    BY <1>5, <1>7
  <2>2. \A i \in 1..m : last[i].at \in (step - m)..(step - 1)
    BY <1>5, <1>8
  <2> QED BY <1>6, <2>1, <2>2
<1> QED BY <1>2, <1>9 DEF last, l

LEMMA FeedbackInit == Init => FeedbackInv
<1> SUFFICES ASSUME Init PROVE FeedbackInv
  OBVIOUS
<1> USE FeedbackAssumption
<1>1. Types
  <2>1. recent \in Seq(Observations)
    BY EmptySeq DEF Init
  <2> QED BY <2>1 DEF Init, Types, Steps, Never
<1>2. recent = <<>> /\ step = 0 /\ plan.at = Never /\ phase = "plan" /\ lastDropRate = 0
      /\ window = {} /\ learned = [s \in Steps |-> 0] /\ capacity \in Nat
  BY DEF Init, Passthrough, Never
<1>3. LastSteps
  BY <1>2 DEF LastSteps, Smaller
<1>4. FreshPlan
  BY <1>2 DEF FreshPlan, Never
<1>5. Judged
  BY <1>2 DEF Judged, LearnedOnce, Steps, Never
<1>6. Witnessed
  BY <1>2 DEF Witnessed
<1> QED BY <1>1, <1>3, <1>4, <1>5, <1>6 DEF FeedbackInv

\* A plan is due exactly when the one in force is a cadence old.
LEMMA WhenDue ==
  ASSUME Types, FreshPlan, phase = "plan"
  PROVE  IF plan.at = Never THEN Due /\ step = 0 ELSE Due <=> step = plan.at + cadence
<1>1. step \in Nat /\ cadence \in Nat \ {0}
  BY DEF Types
<1>2. CASE plan.at = Never
  <2>1. step = 0
    BY <1>2 DEF FreshPlan, Never
  <2>2. 0 % cadence = 0
    BY <1>1, Modulo
  <2> QED BY <1>2, <2>1, <2>2 DEF Due
<1>3. CASE plan.at # Never
  <2>1. plan.at \in Nat /\ plan.at < step
        /\ step % cadence = IF step - plan.at = cadence THEN 0 ELSE step - plan.at
    BY <1>3 DEF FreshPlan
  <2> QED BY <1>1, <1>3, <2>1 DEF Due
<1> QED BY <1>2, <1>3

LEMMA ReplanStep ==
  ASSUME FeedbackInv, Replan
  PROVE  FeedbackInv'
<1>0. Types /\ LastSteps /\ FreshPlan /\ Judged /\ Witnessed
  BY DEF FeedbackInv
<1>1. /\ phase = "plan" /\ Due /\ phase' = "run" /\ plan' = PlanOf(tuning, recent, step)
      /\ window' = Feedback
      /\ learned' = [s \in Steps |-> learned[s] + IF s \in Feedback THEN 1 ELSE 0]
      /\ UNCHANGED <<tuning, cadence, capacity, step, recent, lastDropRate, governedBy, over,
                     starved, lossy>>
  BY DEF Replan, config
<1>2. plan'.at = step
  BY <1>1 DEF PlanOf
<1>3. /\ step \in Nat /\ cadence \in Nat \ {0} /\ capacity \in Nat \ {0} /\ step < DurationSteps
      /\ learned \in [Steps -> Nat] /\ governedBy \in [Steps -> Int]
      /\ Len(recent) = Smaller(step, capacity)
  BY <1>0, <1>1 DEF Types, LastSteps
<1>4. Steps = 0..(DurationSteps - 1) /\ DurationSteps \in Nat \ {0}
  BY FeedbackAssumption DEF Steps
<1> DEFINE back == Smaller(Smaller(step, capacity), cadence)
<1>5. back \in Nat /\ back <= step /\ back <= cadence
      /\ (capacity >= cadence /\ step >= cadence => back = cadence)
  BY <1>3 DEF Smaller
<1>6. Feedback = (step - back)..(step - 1)
  <2>1. StepsOf(LastOf(recent, cadence)) = (step - Smaller(Len(recent), cadence))..(step - 1)
    BY <1>0, <1>3, LastStepsOf
  <2>2. Smaller(Len(recent), cadence) = back
    BY <1>3
  <2> QED BY <2>1, <2>2 DEF Feedback
<1> HIDE DEF back
<1>7. plan.at \in Nat \cup {Never}
      /\ (plan.at = Never => step = 0 /\ back = 0)
      /\ (plan.at # Never => step = plan.at + cadence)
  <2>1. IF plan.at = Never THEN Due /\ step = 0 ELSE Due <=> step = plan.at + cadence
    BY <1>0, <1>1, WhenDue
  <2>2. plan.at \in Nat \cup {Never}
    BY <1>0 DEF FreshPlan
  <2> QED BY <1>1, <1>5, <2>1, <2>2
<1>8. \A s \in Feedback : s \in Steps /\ plan.at <= s /\ s < step
  <2> SUFFICES ASSUME NEW s \in Feedback PROVE s \in Steps /\ plan.at <= s /\ s < step
    OBVIOUS
  <2>1. s \in Int /\ step - back <= s /\ s <= step - 1
    BY <1>6
  <2>2. plan.at # Never
    BY <1>7, <2>1
  <2>3. plan.at \in Nat /\ step = plan.at + cadence
    BY <1>7, <2>2
  <2>4. 0 <= s /\ s <= DurationSteps - 1 /\ s < step
    BY <1>3, <1>4, <1>5, <2>1
  <2>5. plan.at <= s
    BY <1>3, <1>5, <2>1, <2>3
  <2> QED BY <1>4, <2>1, <2>4, <2>5
<1>9. Types'
  <2>1. learned' \in [Steps -> Nat]
    BY <1>1, <1>3
  <2> QED BY <1>0, <1>1, <2>1 DEF Types
<1>10. LastSteps' /\ Witnessed'
  BY <1>0, <1>1 DEF LastSteps, Witnessed
<1>11. FreshPlan'
  <2>1. step % cadence = 0
    BY <1>1 DEF Due
  <2> QED BY <1>1, <1>2, <1>3, <2>1 DEF FreshPlan, Never
<1>12. LearnedOnce'
  <2>1. ASSUME NEW s \in Feedback, NEW t \in Feedback PROVE governedBy[s] = governedBy[t]
    BY <1>0, <1>8 DEF Judged
  <2>2. ASSUME NEW s \in Steps PROVE learned'[s] <= 1
    <3>1. learned'[s] = learned[s] + IF s \in Feedback THEN 1 ELSE 0
      BY <1>1
    <3>2. learned[s] <= 1 /\ learned[s] \in Nat
      BY <1>0, <1>3 DEF Judged, LearnedOnce
    <3>3. s \in Feedback => learned[s] = 0
      BY <1>0, <1>7, <1>8, <1>4 DEF Judged, Never
    <3> QED BY <3>1, <3>2, <3>3
  <2>3. ASSUME NEW s \in Steps, capacity >= cadence, s < step PROVE learned'[s] = 1
    <3>1. learned'[s] = learned[s] + IF s \in Feedback THEN 1 ELSE 0
      BY <1>1
    <3>2. plan.at # Never /\ s \in Nat /\ step = plan.at + cadence /\ back = cadence
      BY <1>3, <1>4, <1>5, <1>7, <2>3, SMTT(30) DEF Never
    <3>3. CASE s < plan.at
      <4>1. learned[s] = 1
        BY <1>0, <2>3, <3>3 DEF Judged, LearnedOnce
      <4>2. s \notin Feedback
        BY <1>7, <1>8, <3>2, <3>3 DEF Never
      <4> QED BY <3>1, <4>1, <4>2
    <3>4. CASE s >= plan.at
      <4>1. learned[s] = 0
        BY <1>0, <3>4 DEF Judged
      <4>2. s \in Feedback
        BY <1>3, <1>6, <1>7, <2>3, <3>2, <3>4, SMTT(30) DEF Never
      <4> QED BY <3>1, <4>1, <4>2
    <3> QED BY <1>7, <3>2, <3>3, <3>4
  <2> QED BY <1>1, <1>2, <2>1, <2>2, <2>3 DEF LearnedOnce
<1>13. Judged'
  <2>1. Steps' = Steps
    BY DEF Steps
  <2>2. ASSUME NEW s \in Steps, s >= step PROVE learned'[s] = 0
    <3>1. learned'[s] = learned[s] + IF s \in Feedback THEN 1 ELSE 0
      BY <1>1
    <3>2. s \notin Feedback /\ s >= plan.at
      <4>1. s \in Nat /\ plan.at <= step /\ plan.at \in Int
        BY <1>0, <1>4, <1>7 DEF FreshPlan, Never
      <4> QED BY <1>3, <1>8, <2>2, <4>1
    <3> QED BY <1>0, <3>1, <3>2 DEF Judged
  <2>3. Feedback \subseteq {s \in Steps : s < step}
    BY <1>8
  <2>4. \A s \in Steps : ~(step <= s /\ s < step)
    BY <1>3, <1>4
  <2> QED BY <1>1, <1>2, <1>12, <2>1, <2>2, <2>3, <2>4 DEF Judged
<1> QED BY <1>9, <1>10, <1>11, <1>13 DEF FeedbackInv

LEMMA KeepPlanStep ==
  ASSUME FeedbackInv, KeepPlan
  PROVE  FeedbackInv'
<1>0. Types /\ LastSteps /\ FreshPlan /\ Judged /\ Witnessed
  BY DEF FeedbackInv
<1>1. /\ phase = "plan" /\ ~Due /\ phase' = "run"
      /\ UNCHANGED <<tuning, cadence, capacity, step, plan, recent, lastDropRate, governedBy,
                     learned, window, over, starved, lossy>>
  BY DEF KeepPlan, config, past
<1>2. Types' /\ LastSteps' /\ Witnessed'
  BY <1>0, <1>1 DEF Types, LastSteps, Witnessed
<1>3. Judged'
  BY <1>0, <1>1 DEF Judged, LearnedOnce
<1>4. FreshPlan'
  <2>1. plan.at # Never /\ step # plan.at + cadence
    BY <1>0, <1>1, WhenDue
  <2>2. /\ plan.at \in Nat /\ plan.at < step /\ step - plan.at <= cadence
        /\ step % cadence = IF step - plan.at = cadence THEN 0 ELSE step - plan.at
    BY <1>0, <1>1, <2>1 DEF FreshPlan
  <2>3. step \in Nat /\ cadence \in Nat
    BY <1>0 DEF Types
  <2>4. step - plan.at < cadence /\ step % cadence = step - plan.at /\ plan.at # step
    BY <2>1, <2>2, <2>3
  <2>5. plan' = plan /\ step' = step /\ cadence' = cadence /\ phase' = "run"
    BY <1>1
  <2>6. plan.at <= step
    BY <2>2, <2>3
  <2> QED BY <2>2, <2>4, <2>5, <2>6 DEF FreshPlan
<1> QED BY <1>2, <1>3, <1>4 DEF FeedbackInv

LEMMA RunStepStep ==
  ASSUME FeedbackInv, RunStep
  PROVE  FeedbackInv'
<1>0. Types /\ LastSteps /\ FreshPlan /\ Judged /\ Witnessed
  BY DEF FeedbackInv
<1>1. /\ phase = "run" /\ step' = step + 1
      /\ phase' = (IF step + 1 < DurationSteps THEN "plan" ELSE "done")
      /\ governedBy' = [governedBy EXCEPT ![step] = plan.at]
      /\ UNCHANGED <<tuning, cadence, capacity, plan, learned, window>>
  BY DEF RunStep, config
<1>2. PICK room \in Rooms, pressure \in Pressures :
        \E fate \in Fates(room, pressure) :
          /\ recent' = Remember(recent, Observation(fate, room))
          /\ lastDropRate' = DropRate(fate)
          /\ over' = Latest(over \cup {s \in {step} : Load(fate) > room})
          /\ starved' = Latest(starved \cup {s \in {step} : Load(fate) > 0 /\ room = 0})
          /\ lossy' = Latest(lossy \cup {s \in {step} : Count(fate, Dropped) > 0})
  BY DEF RunStep
<1>3. PICK fate \in Fates(room, pressure) :
          /\ recent' = Remember(recent, Observation(fate, room))
          /\ lastDropRate' = DropRate(fate)
          /\ over' = Latest(over \cup {s \in {step} : Load(fate) > room})
          /\ starved' = Latest(starved \cup {s \in {step} : Load(fate) > 0 /\ room = 0})
          /\ lossy' = Latest(lossy \cup {s \in {step} : Count(fate, Dropped) > 0})
  BY <1>2
<1>4. /\ step \in Nat /\ step < DurationSteps /\ capacity \in Nat \ {0} /\ cadence \in Nat \ {0}
      /\ recent \in Seq(Observations) /\ lastDropRate \in 0..100
      /\ governedBy \in [Steps -> Int] /\ learned \in [Steps -> Nat]
  BY <1>0, <1>1 DEF Types
<1>5. room \in Nat /\ fate \in AllFates /\ DurationSteps \in Nat \ {0}
  BY FeedbackAssumption DEF Fates, AllFates
<1> DEFINE o == Observation(fate, room)
           l == Len(recent)
           m == Len(recent')
<1>6. /\ o \in Observations /\ o.at = step /\ o.drop = lastDropRate
      /\ o.util > 100 => Load(fate) > room
      /\ o.util = Infinite => Load(fate) > 0 /\ room = 0
  BY <1>4, <1>5, WhatIsObserved
<1>7. DropRate(fate) \in 0..100 /\ (DropRate(fate) > 0 => Count(fate, Dropped) > 0)
  BY <1>5, DropRateBounds
<1>8. l \in Nat /\ DOMAIN recent = 1..l /\ l = Smaller(step, capacity)
  BY <1>0, <1>4, LenProperties DEF LastSteps
<1> HIDE DEF o, l, m
<1>9. /\ recent' \in Seq(Observations) /\ m = Smaller(l + 1, capacity)
      /\ \A i \in DOMAIN recent' :
           /\ recent'[i] = IF i = m THEN o ELSE recent[l + 1 - m + i]
           /\ i # m => l + 1 - m + i \in DOMAIN recent
  <2> DEFINE kept == Remember(recent, o)
  <2>1. /\ kept \in Seq(Observations) /\ Len(kept) = Smaller(Len(recent) + 1, capacity)
        /\ \A i \in DOMAIN kept :
             /\ kept[i] = IF i = Len(kept) THEN o ELSE recent[Len(recent) + 1 - Len(kept) + i]
             /\ i # Len(kept) => Len(recent) + 1 - Len(kept) + i \in DOMAIN recent
    BY <1>4, <1>6, Remembered
  <2>2. recent' = kept
    BY <1>3 DEF o
  <2> HIDE DEF kept
  <2> QED BY <2>1, <2>2, Zenon DEF l, m
<1>10. m \in Nat /\ DOMAIN recent' = 1..m
  BY <1>9, LenProperties DEF m
<1>11. m = Smaller(step + 1, capacity) /\ m <= capacity
  BY <1>4, <1>8, <1>9 DEF Smaller
<1>12. \A i \in DOMAIN recent : recent[i].at = step - l + i - 1
  BY <1>0 DEF LastSteps, l
<1>13. LastSteps'
  <2>1. ASSUME NEW i \in DOMAIN recent' PROVE recent'[i].at = step + 1 - m + i - 1
    <3>1. CASE i = m
      <4>1. recent'[i] = o
        BY <1>9, <3>1
      <4> QED BY <1>4, <1>6, <1>10, <3>1, <4>1
    <3>2. CASE i # m
      <4>1. recent'[i] = recent[l + 1 - m + i] /\ l + 1 - m + i \in DOMAIN recent
        BY <1>9, <3>2
      <4>2. recent'[i].at = step - l + (l + 1 - m + i) - 1
        BY <1>12, <4>1
      <4> QED BY <1>4, <1>8, <1>10, <4>2
    <3> QED BY <3>1, <3>2
  <2>2. capacity' = capacity /\ step' = step + 1
    BY <1>1
  <2>3. Len(recent)' = Smaller(step', capacity')
    BY <1>11, <2>2 DEF m
  <2>4. ASSUME NEW i \in DOMAIN recent' PROVE recent'[i].at = step' - Len(recent') + i - 1
    <3>1. recent'[i].at = step + 1 - m + i - 1
      BY <2>1
    <3>2. Len(recent') = m /\ i \in Nat /\ step' = step + 1
      BY <1>10, <2>2 DEF m
    <3> QED BY <1>4, <1>10, <3>1, <3>2
  <2> QED BY <2>3, <2>4 DEF LastSteps
<1>14. Types'
  <2>1. governedBy' \in [Steps -> Int]
    <3>1. plan.at \in Int
      BY <1>0 DEF FreshPlan, Never
    <3> QED BY <1>1, <1>4, <3>1
  <2>2. step' \in Nat /\ step' <= DurationSteps /\ (phase' # "done" => step' < DurationSteps)
        /\ phase' \in {"plan", "run", "done"}
    BY <1>1, <1>4, <1>5
  <2>3. Steps' = Steps
    BY DEF Steps
  <2>4. tuning' \in Tunings /\ cadence' \in Nat \ {0} /\ capacity' \in Nat \ {0}
    BY <1>0, <1>1 DEF Types
  <2>5. recent' \in Seq(Observations) /\ lastDropRate' \in 0..100 /\ learned' \in [Steps -> Nat]
    BY <1>1, <1>3, <1>4, <1>7, <1>9
  <2> QED BY <2>1, <2>2, <2>3, <2>4, <2>5, Zenon DEF Types
<1>15. FreshPlan'
  <2>1. /\ plan.at \in Nat /\ plan.at <= step /\ step - plan.at < cadence
        /\ step % cadence = step - plan.at
    BY <1>0, <1>1 DEF FreshPlan
  <2>2. step' % cadence = IF step' - plan.at = cadence THEN 0 ELSE step' - plan.at
    <3>1. (step + 1) % cadence = IF (step % cadence) + 1 = cadence THEN 0 ELSE (step % cadence) + 1
      BY <1>4, NextRemainder
    <3>2. (step % cadence) + 1 = (step + 1) - plan.at
      BY <1>4, <2>1
    <3>3. (step + 1) % cadence = IF (step + 1) - plan.at = cadence THEN 0 ELSE (step + 1) - plan.at
      BY <3>1, <3>2, Zenon
    <3> QED BY <1>1, <3>3, Zenon
  <2>3. plan.at < step' /\ step' - plan.at <= cadence /\ plan.at <= step'
    BY <1>1, <1>4, <2>1
  <2>4. phase' # "run" /\ plan' = plan /\ cadence' = cadence
    BY <1>1
  <2> QED BY <2>1, <2>2, <2>3, <2>4 DEF FreshPlan
<1>16. Judged'
  <2>1. plan.at \in Nat /\ plan.at <= step
    BY <1>0, <1>1 DEF FreshPlan
  <2>2. ASSUME NEW s \in Steps PROVE governedBy'[s] = IF s = step THEN plan.at ELSE governedBy[s]
    BY <1>1, <1>4
  <2>3. ASSUME NEW s \in Steps, plan.at <= s, s < step' PROVE governedBy'[s] = plan.at
    <3>1. s \in Nat /\ (s # step => s < step)
      BY <1>1, <1>4, <2>3 DEF Steps
    <3> QED BY <1>0, <2>2, <2>3, <3>1 DEF Judged
  <2>4. \A s \in window : s \in Steps /\ governedBy'[s] = governedBy[s]
    <3>1. \A s \in window : s \in Steps /\ s < plan.at
      BY <1>0 DEF Judged
    <3>2. \A s \in window : s # step
      BY <1>4, <2>1, <3>1
    <3> QED BY <2>2, <3>1, <3>2
  <2>5. Steps' = Steps
    BY DEF Steps
  <2>6. LearnedOnce'
    BY <1>0, <1>1, <2>4, <2>5 DEF Judged, LearnedOnce
  <2> QED BY <1>0, <1>1, <2>3, <2>5, <2>6 DEF Judged
<1>17. Witnessed'
  <2>1. \A s \in over : s >= step - capacity => s \in over'
    BY <1>3 DEF Latest
  <2>2. \A s \in lossy : s >= step - capacity => s \in lossy'
    BY <1>3 DEF Latest
  <2>3. /\ Load(fate) > room => step \in over'
        /\ Load(fate) > 0 /\ room = 0 => step \in starved' /\ step \in over'
    BY <1>3, <1>4 DEF Latest
  <2>4. \A s \in starved : s >= step - capacity => s \in starved'
    BY <1>3 DEF Latest
  <2>5. Count(fate, Dropped) > 0 => step \in lossy'
    BY <1>3, <1>4 DEF Latest
  <2>6. ASSUME NEW i \in DOMAIN recent'
        PROVE  /\ recent'[i].util > 100 => recent'[i].at \in over'
               /\ recent'[i].util = Infinite => recent'[i].at \in over' /\ recent'[i].at \in starved'
               /\ recent'[i].drop > 0 => recent'[i].at - 1 \in lossy'
    <3>1. CASE i = m
      <4>1. recent'[i] = o
        BY <1>9, <3>1
      <4>2. lastDropRate > 0 => step - 1 \in lossy'
        <5>1. step - 1 >= step - capacity
          BY <1>4
        <5> QED BY <1>0, <2>2, <5>1 DEF Witnessed
      <4> QED BY <1>6, <2>3, <4>1, <4>2
    <3>2. CASE i # m
      <4> DEFINE k == l + 1 - m + i
      <4>1. recent'[i] = recent[k] /\ k \in DOMAIN recent
        BY <1>9, <3>2
      <4>2. recent[k].at = step - l + k - 1
        BY <1>12, <4>1
      <4>3. recent[k].at >= step - capacity + 1 /\ recent[k].at \in Int
        <5>1. i \in 1..m /\ k = l + 1 - m + i
          BY <1>10
        <5> HIDE DEF k
        <5> QED BY <1>4, <1>8, <1>10, <1>11, <4>2, <5>1, SMTT(30)
      <4> HIDE DEF k
      <4>4. /\ recent[k].util > 100 => recent[k].at \in over
            /\ recent[k].util = Infinite => recent[k].at \in over /\ recent[k].at \in starved
            /\ recent[k].drop > 0 => recent[k].at - 1 \in lossy
        BY <1>0, <4>1 DEF Witnessed
      <4>5. recent[k].at >= step - capacity /\ recent[k].at - 1 >= step - capacity
        BY <1>4, <4>3
      <4> QED BY <2>1, <2>2, <2>4, <4>1, <4>4, <4>5
    <3> QED BY <3>1, <3>2
  <2>7. lastDropRate' > 0 => step' - 1 \in lossy'
    <3>1. step' - 1 = step
      BY <1>1, <1>4
    <3> QED BY <1>3, <1>7, <2>5, <3>1
  <2> QED BY <2>6, <2>7 DEF Witnessed
<1> QED BY <1>13, <1>14, <1>15, <1>16, <1>17 DEF FeedbackInv

LEMMA FeedbackInvariant == Spec => []FeedbackInv
<1>1. ASSUME FeedbackInv, [Next]_vars PROVE FeedbackInv'
  <2>1. CASE UNCHANGED vars
    <3>1. UNCHANGED <<tuning, cadence, capacity, phase, step, plan, recent, lastDropRate,
                      governedBy, learned, window, over, starved, lossy>>
      BY <2>1 DEF vars, config, past
    <3>2. Types' /\ LastSteps' /\ FreshPlan'
      BY <1>1, <3>1 DEF FeedbackInv, Types, LastSteps, FreshPlan
    <3>3. Judged' /\ Witnessed'
      BY <1>1, <3>1 DEF FeedbackInv, Judged, LearnedOnce, Witnessed
    <3> QED BY <3>2, <3>3 DEF FeedbackInv
  <2> QED BY <1>1, <2>1, ReplanStep, KeepPlanStep, RunStepStep DEF Next
<1> QED BY <1>1, FeedbackInit, PTL DEF Spec

-----------------------------------------------------------------------------
(* The properties *)

\* A curve is judged by what happened under it, never twice, and as long as the
\* histories hold a cadence, always.
THEOREM JudgedOnce == Spec => []LearnedOnce
<1>1. FeedbackInv => LearnedOnce
  BY DEF FeedbackInv, Judged
<1> QED BY <1>1, FeedbackInvariant, PTL

LEMMA FreshlyPlanned ==
  ASSUME FeedbackInv, phase = "run", plan.at = step
  PROVE  /\ plan = PlanOf(tuning, recent, step) /\ step \in Steps
         /\ recent \in Seq(Observations) /\ Len(recent) \in Nat /\ DOMAIN recent = 1..Len(recent)
         /\ DrawnFrom = {recent[i].at : i \in DOMAIN recent}
<1>1. Types /\ LastSteps /\ plan = PlanOf(tuning, recent, step)
  BY DEF FeedbackInv, FreshPlan
<1>2. /\ step \in Nat /\ step < DurationSteps /\ recent \in Seq(Observations)
      /\ capacity \in Nat \ {0} /\ DurationSteps \in Nat
  BY <1>1, FeedbackAssumption DEF Types
<1>3. Len(recent) \in Nat /\ DOMAIN recent = 1..Len(recent)
  BY <1>2, LenProperties
<1> DEFINE l == Len(recent)
<1>4. l = Smaller(step, capacity) /\ \A i \in 1..l : recent[i].at = step - l + i - 1
  BY <1>1, <1>3 DEF LastSteps
<1> HIDE DEF l
<1>5. l \in Nat /\ l <= step /\ l <= capacity /\ (l = step \/ l = capacity)
  BY <1>2, <1>4 DEF Smaller
<1>6. ASSUME NEW i \in 1..l PROVE recent[i].at \in DrawnFrom
  <2>1. recent[i].at = step - l + i - 1
    BY <1>4
  <2> QED BY <1>2, <1>5, <2>1 DEF DrawnFrom, Steps
<1>7. ASSUME NEW s \in DrawnFrom PROVE \E i \in 1..l : recent[i].at = s
  <2>1. s \in Nat /\ step - capacity <= s /\ s < step
    BY DEF DrawnFrom, Steps
  <2>2. s - step + l + 1 \in 1..l
    BY <1>2, <1>5, <2>1
  <2>3. recent[s - step + l + 1].at = step - l + (s - step + l + 1) - 1
    BY <1>4, <2>2
  <2>4. step - l + (s - step + l + 1) - 1 = s
    BY <1>2, <1>5, <2>1
  <2> QED BY <2>2, <2>3, <2>4
<1>8. DrawnFrom = {recent[i].at : i \in 1..l}
  BY <1>6, <1>7
<1> QED BY <1>1, <1>2, <1>3, <1>8 DEF Steps, l

\* What is averaged of a history.
Histories == Seq(Observations)

LEMMA MeanDropRateBounds ==
  ASSUME NEW history \in Histories
  PROVE  /\ MeanDropRate(history) \in 0..100
         /\ MeanDropRate(history) = 100 => \A i \in DOMAIN history : history[i].drop = 100
         /\ (\A i \in DOMAIN history : history[i].drop = 0) => MeanDropRate(history) = 0
<1> DEFINE n == Len(history)
           drops == [i \in DOMAIN history |-> history[i].drop]
<1>1. n \in Nat /\ DOMAIN history = 1..n
  BY LenProperties DEF Histories
<1>2. \A i \in 1..n : history[i].drop \in 0..100
  <2>1. \A i \in 1..n : history[i] \in Observations
    BY <1>1, ElementOfSeq DEF Histories
  <2> QED BY <2>1 DEF Observations
<1>3. /\ DOMAIN drops = 1..n
      /\ \A i \in 1..n : drops[i] = history[i].drop
  BY <1>1
<1>4. drops = [i \in DOMAIN drops |-> drops[i]]
  BY <1>3
<1>5. MeanDropRate(history) = Mean(drops)
  BY DEF MeanDropRate
<1> HIDE DEF n, drops
<1>6. ASSUME NEW i \in 1..n PROVE drops[i] \in Nat /\ drops[i] <= 100
  <2>1. drops[i] = history[i].drop /\ history[i].drop \in 0..100
    BY <1>2, <1>3, Zenon
  <2> QED BY <2>1
<1>7. Len(drops) = n /\ (n = 0 <=> drops = <<>>)
  <2>1. drops \in Seq(Nat) /\ Len(drops) = n
    BY <1>1, <1>3, <1>4, <1>6, SeqByIndex
  <2> QED BY <2>1, EmptySeq
<1>8. /\ Mean(drops) \in Nat /\ Mean(drops) <= 100
      /\ Mean(drops) = 100 => \A i \in 1..n : drops[i] = 100
  BY <1>1, <1>3, <1>6, <1>7, MeanAtMost
<1>9. ASSUME \A i \in 1..n : drops[i] = 0 PROVE Mean(drops) = 0
  <2>1. \A i \in 1..n : drops[i] \in Nat /\ drops[i] <= 0
    BY <1>9
  <2>2. Mean(drops) \in Nat /\ Mean(drops) <= 0
    <3>1. 0 \in Nat
      OBVIOUS
    <3> QED BY <1>1, <1>3, <1>7, <2>1, <3>1, MeanAtMost
  <2> QED BY <2>2
<1>10. Mean(drops) \in 0..100
  BY <1>8
<1>11. Mean(drops) = 100 => \A i \in DOMAIN history : history[i].drop = 100
  BY <1>1, <1>3, <1>8, Zenon
<1>12. (\A i \in DOMAIN history : history[i].drop = 0) => Mean(drops) = 0
  BY <1>1, <1>3, <1>9, Zenon
<1> QED BY <1>5, <1>10, <1>11, <1>12, Zenon

\* It is infinite only where nothing clamps a step without room.
LEMMA MeanUtilizationBounds ==
  ASSUME NEW history \in Histories, tuning \in Tunings
  PROVE  LET util == MeanUtilization(tuning.clamp, history)
         IN  /\ util = Infinite => /\ tuning.clamp = Infinite
                                   /\ \E i \in DOMAIN history : history[i].util = Infinite
             /\ util # Infinite => util \in Nat /\ util <= One
             /\ (\A i \in DOMAIN history : history[i].util \in 0..100) => util \in 0..100
<1> DEFINE n == Len(history)
           utils == [i \in DOMAIN history |-> Clamped(tuning.clamp, history[i].util)]
           util == MeanUtilization(tuning.clamp, history)
<1>1. n \in Nat /\ DOMAIN history = 1..n
  BY LenProperties DEF Histories
<1>2. \A i \in 1..n : history[i].util \in (0..Busiest) \cup {Infinite}
  <2>1. \A i \in 1..n : history[i] \in Observations
    BY <1>1, ElementOfSeq DEF Histories
  <2> QED BY <2>1 DEF Observations
<1>3. /\ DOMAIN utils = 1..n
      /\ \A i \in 1..n : utils[i] = Clamped(tuning.clamp, history[i].util)
  BY <1>1
<1>4. utils = [i \in DOMAIN utils |-> utils[i]]
  BY <1>3
<1>5. util = IF \E i \in 1..n : utils[i] = Infinite THEN Infinite ELSE Mean(utils)
  BY <1>1 DEF MeanUtilization
<1>6. /\ tuning.clamp \in Nat \cup {Infinite} /\ One \in Nat
      /\ tuning.clamp # Infinite => tuning.clamp <= One
      /\ Busiest \in Nat /\ Busiest <= One /\ 100 <= One
  <2>1. tuning.clamp \in Nat \cup {Infinite}
    BY FeedbackAssumption DEF TuningRecords
  <2>2. tuning.clamp # Infinite => tuning.clamp <= One
    <3> SUFFICES ASSUME tuning.clamp # Infinite PROVE tuning.clamp <= One
      OBVIOUS
    <3>1. tuning.clamp \in Nat /\ One >= 100 * tuning.clamp
      BY <2>1, FeedbackAssumption
    <3> QED BY <3>1, PlannerAssumption
  <2>3. Busiest \in Nat /\ Busiest <= One
    <3>1. SumFunction(Units) \in Nat
      <4>1. DOMAIN Units = Classes /\ \A c \in Classes : Units[c] \in Nat
        BY FeedbackAssumption
      <4> QED BY <4>1, SumNat, PlannerAssumption DEF SumFunction
    <3>2. One >= 10000 * SumFunction(Units)
      BY FeedbackAssumption
    <3> QED BY <3>1, <3>2, PlannerAssumption DEF Busiest
  <2> QED BY <2>1, <2>2, <2>3, PlannerAssumption
<1> HIDE DEF n, utils, util
<1>7. ASSUME NEW i \in 1..n
      PROVE  /\ utils[i] = Infinite => tuning.clamp = Infinite /\ history[i].util = Infinite
             /\ utils[i] # Infinite => utils[i] \in Nat /\ utils[i] <= One
             /\ history[i].util \in 0..100 => utils[i] \in 0..100
  <2> DEFINE u == history[i].util
  <2>1. utils[i] = Clamped(tuning.clamp, u) /\ u \in (0..Busiest) \cup {Infinite}
    BY <1>2, <1>3, Zenon
  <2> HIDE DEF u
  <2>2. CASE u = Infinite
    BY <1>6, <2>1, <2>2 DEF Clamped, u, Infinite
  <2>3. CASE u # Infinite
    <3>1. u \in Nat /\ u <= One
      BY <1>6, <2>1, <2>3
    <3>2. utils[i] = u \/ (tuning.clamp # Infinite /\ utils[i] = Smaller(tuning.clamp, u))
      BY <2>1, <2>3 DEF Clamped
    <3>3. utils[i] \in Nat /\ utils[i] <= u
      BY <1>6, <3>1, <3>2 DEF Smaller
    <3> QED BY <1>6, <3>1, <3>3 DEF Infinite, u
  <2> QED BY <2>2, <2>3
<1>8. ASSUME \A i \in 1..n : utils[i] # Infinite, NEW c \in Nat, \A i \in 1..n : utils[i] <= c
      PROVE  util \in Nat /\ util <= c
  <2>1. \A i \in 1..n : utils[i] \in Nat /\ utils[i] <= c
    BY <1>7, <1>8
  <2>2. Len(utils) = n /\ (n = 0 <=> utils = <<>>)
    <3>1. utils \in Seq(Nat) /\ Len(utils) = n
      BY <1>1, <1>3, <1>4, <2>1, SeqByIndex
    <3> QED BY <3>1, EmptySeq
  <2>3. Mean(utils) \in Nat /\ Mean(utils) <= c
    BY <1>1, <1>3, <2>1, <2>2, MeanAtMost
  <2> QED BY <1>5, <1>8, <2>3
<1>9. util = Infinite => tuning.clamp = Infinite /\ \E i \in DOMAIN history : history[i].util = Infinite
  <2> SUFFICES ASSUME util = Infinite, \A i \in 1..n : utils[i] # Infinite PROVE FALSE
    BY <1>1, <1>7
  <2>1. util \in Nat
    BY <1>6, <1>7, <1>8
  <2> QED BY <2>1 DEF Infinite
<1>10. util # Infinite => util \in Nat /\ util <= One
  BY <1>5, <1>6, <1>7, <1>8
<1>11. ASSUME \A i \in DOMAIN history : history[i].util \in 0..100 PROVE util \in 0..100
  <2>1. \A i \in 1..n : utils[i] \in 0..100
    BY <1>1, <1>7, <1>11
  <2>2. ASSUME NEW i \in 1..n PROVE utils[i] # Infinite /\ utils[i] <= 100
    <3>1. utils[i] \in 0..100
      BY <2>1
    <3> QED BY <3>1 DEF Infinite
  <2>3. 100 \in Nat
    OBVIOUS
  <2>4. util \in Nat /\ util <= 100
    BY <1>8, <2>2, <2>3
  <2> QED BY <2>4
<1> QED BY <1>9, <1>10, <1>11 DEF util

\* Only an infinite utilization, or nothing but drops, sheds all of the lowest scores.
LEMMA FloorBounds ==
  ASSUME NEW util \in Nat \cup {Infinite}, util # Infinite => util <= One, NEW drop \in 0..100
  PROVE  /\ util # Infinite /\ util <= 100 /\ drop = 0 => FloorOf(util, drop) = One
         /\ FloorOf(util, drop) = 0 => util = Infinite \/ drop = 100
<1>1. One \in Nat /\ One >= 10000
  BY PlannerAssumption
<1>2. ASSUME util # Infinite, util <= 100, drop = 0 PROVE FloorOf(util, drop) = One
  <2>1. FloorOf(util, drop) = (One * 100) \div 100
    BY <1>2 DEF FloorOf, Larger
  <2> QED BY <1>1, <2>1
<1>3. ASSUME util # Infinite, drop # 100 PROVE FloorOf(util, drop) # 0
  <2> DEFINE most == Larger(100, util)
  <2>1. most \in Nat \ {0} /\ most <= One
    BY <1>1, <1>3 DEF Larger
  <2>2. FloorOf(util, drop) = (One * (100 - drop)) \div most
    BY <1>3 DEF FloorOf
  <2> HIDE DEF most
  <2>3. One * 1 <= One * (100 - drop) /\ One * (100 - drop) \in Nat
    <3>1. 100 - drop \in Nat /\ 1 <= 100 - drop
      BY <1>3
    <3> QED BY <1>1, <3>1, TimesMonotone
  <2>4. 1 * most <= One * (100 - drop)
    BY <1>1, <2>1, <2>3
  <2>5. 1 <= (One * (100 - drop)) \div most
    BY <2>1, <2>3, <2>4, QuotientGreatest
  <2> QED BY <2>2, <2>5
<1> QED BY <1>2, <1>3

\* Admission control does not feed on what it turned away: a curve sheds only after a
\* step over-subscribed or a drop, and all of the lowest scores only after nothing but
\* drops, or, with an infinite utilization_clamp, after a step with load and no room.
THEOREM ShedForCause == Spec => []SheddingForCause
<1>1. ASSUME FeedbackInv PROVE SheddingForCause
  <2> SUFFICES ASSUME phase = "run", plan.at = step
               PROVE  /\ plan.floor < One => DrawnFrom \cap over # {} \/ SeenLossy # {}
                      /\ plan.floor = 0 =>
                           \/ SeenLossy = DrawnFrom
                           \/ tuning.clamp = Infinite /\ DrawnFrom \cap starved # {}
    BY DEF SheddingForCause
  <2> DEFINE util == MeanUtilization(tuning.clamp, recent)
             drop == MeanDropRate(recent)
  <2>1. /\ plan = PlanOf(tuning, recent, step) /\ recent \in Seq(Observations)
        /\ DrawnFrom = {recent[i].at : i \in DOMAIN recent}
    BY <1>1, FreshlyPlanned
  <2>2. \A i \in DOMAIN recent :
          /\ recent[i].at \in DrawnFrom
          /\ recent[i].util \in (0..Busiest) \cup {Infinite} /\ recent[i].drop \in 0..100
    <3>1. \A i \in DOMAIN recent : recent[i] \in Observations
      BY <2>1, LenProperties, ElementOfSeq
    <3> QED BY <2>1, <3>1 DEF Observations
  <2>3. /\ tuning \in Tunings
        /\ \A i \in DOMAIN recent : /\ recent[i].util > 100 => recent[i].at \in over
                                    /\ recent[i].util = Infinite =>
                                         recent[i].at \in over /\ recent[i].at \in starved
                                    /\ recent[i].drop > 0 => recent[i].at - 1 \in lossy
    BY <1>1 DEF FeedbackInv, Types, Witnessed
  <2>4. plan.floor = FloorOf(util, drop)
    BY <2>1 DEF PlanOf
  <2>5. /\ util = Infinite => /\ tuning.clamp = Infinite
                              /\ \E i \in DOMAIN recent : recent[i].util = Infinite
        /\ util # Infinite => util \in Nat /\ util <= One
        /\ (\A i \in DOMAIN recent : recent[i].util \in 0..100) => util \in 0..100
    BY <2>1, <2>3, MeanUtilizationBounds DEF Histories
  <2>6. /\ drop \in 0..100
        /\ drop = 100 => \A i \in DOMAIN recent : recent[i].drop = 100
        /\ (\A i \in DOMAIN recent : recent[i].drop = 0) => drop = 0
    BY <2>1, MeanDropRateBounds DEF Histories
  <2> HIDE DEF util, drop
  <2>7. /\ util # Infinite /\ util <= 100 /\ drop = 0 => plan.floor = One
        /\ plan.floor = 0 => util = Infinite \/ drop = 100
    BY <2>4, <2>5, <2>6, FloorBounds
  <2>8. ASSUME plan.floor < One PROVE DrawnFrom \cap over # {} \/ SeenLossy # {}
    <3>1. SUFFICES ASSUME \A i \in DOMAIN recent : recent[i].util \in 0..100 /\ recent[i].drop = 0
                   PROVE  FALSE
      <4>1. ASSUME NEW i \in DOMAIN recent, recent[i].util \notin 0..100
            PROVE  DrawnFrom \cap over # {}
        <5>1. recent[i].util > 100 \/ recent[i].util = Infinite
          BY <2>2, <4>1 DEF Busiest
        <5> QED BY <2>2, <2>3, <5>1
      <4>2. ASSUME NEW i \in DOMAIN recent, recent[i].drop # 0 PROVE SeenLossy # {}
        <5>1. recent[i].drop > 0
          BY <2>2, <4>2
        <5> QED BY <2>2, <2>3, <5>1 DEF SeenLossy
      <4> QED BY <4>1, <4>2
    <3>2. util \in 0..100 /\ drop = 0
      BY <2>5, <2>6, <3>1
    <3>3. plan.floor = One
      BY <2>7, <3>2 DEF Infinite
    <3> QED BY <2>8, <3>3, PlannerAssumption
  <2>9. ASSUME drop = 100 PROVE SeenLossy = DrawnFrom
    <3>1. \A i \in DOMAIN recent : recent[i].drop > 0
      BY <2>6, <2>9
    <3>2. \A s \in DrawnFrom : s - 1 \in lossy
      BY <2>1, <2>3, <3>1
    <3> QED BY <3>2 DEF SeenLossy
  <2>10. ASSUME util = Infinite PROVE tuning.clamp = Infinite /\ DrawnFrom \cap starved # {}
    BY <2>2, <2>3, <2>5, <2>10
  <2> QED BY <2>7, <2>8, <2>9, <2>10
<1> QED BY <1>1, FeedbackInvariant, PTL

-----------------------------------------------------------------------------
(* Fairness weights *)

LEMMA BoundedMonotone ==
  ASSUME NEW tuned \in TuningRecords, NEW a \in Nat, NEW b \in Nat, a <= b
  PROVE  /\ Bounded(tuned, a) \in Nat /\ Bounded(tuned, b) \in Nat
         /\ Bounded(tuned, a) <= Bounded(tuned, b)
         /\ Bounded(tuned, b) <= Larger(tuned.fairMin, tuned.fairMax)
         /\ tuned.fairMax <= b => Bounded(tuned, b) = Larger(tuned.fairMin, tuned.fairMax)
<1>1. tuned.fairMin \in Nat /\ tuned.fairMax \in Nat
  BY DEF TuningRecords
<1> QED BY <1>1 DEF Bounded, Smaller, Larger

\* Of two classes that asked for something, the one that got the smaller part of what
\* it asked for has the larger weight, unless it was served next to nothing and asked
\* for next to nothing.
LEMMA WorseServedOutweighs ==
  ASSUME NEW tuned \in TuningRecords, NEW asked \in Counts, NEW got \in Counts,
         NEW c \in Classes, NEW d \in Classes,
         asked[c] > 0, asked[d] > 0, got[c] * asked[d] <= got[d] * asked[c],
         NextToNothing(got, c) => 100 * Million * asked[c] >= tuned.fairMax * SumFunction(asked)
  PROVE  /\ Weight(tuned, asked, got, c) \in Nat /\ Weight(tuned, asked, got, d) \in Nat
         /\ Weight(tuned, asked, got, d) <= Weight(tuned, asked, got, c)
         /\ got[c] = 0 => Weight(tuned, asked, got, c) = Larger(tuned.fairMin, tuned.fairMax)
<1> DEFINE A == SumFunction(asked)
           G == SumFunction(got)
           Ratio(x) == ShareRatio(asked, got, x)
<1>1. /\ asked[c] \in Nat \ {0} /\ asked[d] \in Nat \ {0}
      /\ got[c] \in Nat /\ got[d] \in Nat /\ tuned.fairMax \in Nat
  BY DEF Counts, TuningRecords
<1>2. A \in Nat \ {0} /\ G \in Nat
  <2>1. DOMAIN asked = Classes /\ DOMAIN got = Classes
        /\ (\A x \in Classes : asked[x] \in Nat) /\ (\A x \in Classes : got[x] \in Nat)
    BY DEF Counts
  <2>2. SumFunctionOnSet(asked, Classes) \in Nat /\ SumFunctionOnSet(got, Classes) \in Nat
    BY <2>1, SumNat, PlannerAssumption
  <2>3. asked[c] <= SumFunctionOnSet(asked, Classes)
    BY <2>1, SumAtLeastTerm, PlannerAssumption
  <2>4. A = SumFunctionOnSet(asked, Classes) /\ G = SumFunctionOnSet(got, Classes)
    BY <2>1, Zenon DEF SumFunction
  <2> HIDE DEF A, G
  <2> QED BY <1>1, <2>2, <2>3, <2>4
<1>3. \A x \in {c, d} : Ratio(x) = IF Million * got[x] <= G
                                   THEN (100 * Million * asked[x]) \div A
                                   ELSE (100 * asked[x] * G) \div (A * got[x])
  BY DEF ShareRatio, NextToNothing
<1>4. /\ Million \in Nat /\ 100 * Million * asked[c] \in Nat /\ 100 * Million * asked[d] \in Nat
      /\ Million * got[c] <= G => tuned.fairMax * A <= 100 * Million * asked[c]
  <2>1. Million \in Nat /\ 100 * Million \in Nat
    BY DEF Million
  <2>2. 100 * Million * asked[c] \in Nat /\ 100 * Million * asked[d] \in Nat
    BY <1>1, <2>1, TimesNat
  <2>3. tuned.fairMax * A \in Nat
    BY <1>1, <1>2, TimesNat
  <2> QED BY <2>1, <2>2, <2>3 DEF NextToNothing
<1>5. \A x \in {c, d} : Weight(tuned, asked, got, x) = Bounded(tuned, Ratio(x))
  BY DEF Weight
<1> HIDE DEF A, G, Ratio
<1>6. ASSUME NEW x \in {c, d}, got[x] # 0
      PROVE  100 * asked[x] * G \in Nat /\ A * got[x] \in Nat \ {0}
  <2>1. 100 * asked[x] \in Nat /\ got[x] \in Nat \ {0}
    BY <1>1, <1>6
  <2>2. 100 * asked[x] * G \in Nat
    BY <1>2, <2>1, TimesNat
  <2>3. A * 1 <= A * got[x] /\ A * got[x] \in Nat
    <3>1. 1 <= got[x] /\ 1 \in Nat
      BY <2>1
    <3> QED BY <1>2, <2>1, <3>1, TimesMonotone
  <2> QED BY <1>2, <2>2, <2>3
<1>7. ASSUME NEW x \in {c, d} PROVE Ratio(x) \in Nat
  <2>1. asked[x] \in Nat /\ got[x] \in Nat
    BY <1>1
  <2>2. CASE Million * got[x] <= G
    <3>1. 100 * Million * asked[x] \in Nat
      BY <1>4
    <3> QED BY <1>2, <1>3, <2>2, <3>1, Quotient
  <2>3. CASE ~(Million * got[x] <= G)
    <3>1. got[x] # 0
      BY <1>2, <1>4, <2>3
    <3> QED BY <1>3, <1>6, <2>3, <3>1, Quotient
  <2> QED BY <2>2, <2>3
<1>8. SUFFICES ASSUME ~(Million * got[c] <= G) PROVE got[c] # 0 /\ Ratio(d) <= Ratio(c)
  <2>1. Ratio(c) \in Nat /\ Ratio(d) \in Nat
    BY <1>7
  <2>2. ASSUME Million * got[c] <= G PROVE tuned.fairMax <= Ratio(c)
    <3>1. Ratio(c) = (100 * Million * asked[c]) \div A
      BY <1>3, <2>2
    <3>2. tuned.fairMax * A <= 100 * Million * asked[c] /\ 100 * Million * asked[c] \in Nat
      BY <1>1, <1>4, <2>2
    <3> QED BY <1>1, <1>2, <3>1, <3>2, QuotientGreatest
  <2>3. CASE Million * got[c] <= G
    <3>1. Ratio(c) <= Ratio(c) /\ Ratio(d) <= Ratio(d)
      BY <2>1
    <3>2. /\ Bounded(tuned, Ratio(c)) \in Nat /\ Bounded(tuned, Ratio(d)) \in Nat
          /\ Bounded(tuned, Ratio(d)) <= Larger(tuned.fairMin, tuned.fairMax)
          /\ Bounded(tuned, Ratio(c)) = Larger(tuned.fairMin, tuned.fairMax)
      BY <2>1, <2>2, <2>3, <3>1, BoundedMonotone
    <3> QED BY <1>5, <3>2
  <2>4. CASE ~(Million * got[c] <= G)
    <3>1. got[c] # 0 /\ Ratio(d) <= Ratio(c)
      BY <1>8, <2>4
    <3> QED BY <1>5, <2>1, <3>1, BoundedMonotone
  <2> QED BY <2>3, <2>4
<1>9. got[c] # 0 /\ got[d] # 0
  <2>1. got[c] # 0
    BY <1>2, <1>4, <1>8
  <2>2. SUFFICES ASSUME got[d] = 0 PROVE FALSE
    BY <2>1
  <2>3. got[d] * asked[c] = 0
    BY <1>1, <2>2
  <2>4. asked[d] * 1 <= asked[d] * got[c]
    <3>1. 1 \in Nat /\ 1 <= got[c]
      BY <1>1, <2>1
    <3> QED BY <1>1, <3>1, TimesMonotone
  <2>5. asked[d] * got[c] = got[c] * asked[d] /\ asked[d] * 1 = asked[d]
    BY <1>1
  <2>6. got[c] * asked[d] \in Nat
    BY <1>1, TimesNat
  <2> QED BY <1>1, <2>3, <2>4, <2>5, <2>6
<1> DEFINE u == 100 * asked[d] * G
           v == A * got[d]
           x == 100 * asked[c] * G
           y == A * got[c]
           k == 100 * G * A
<1>10. u \in Nat /\ v \in Nat \ {0} /\ x \in Nat /\ y \in Nat \ {0}
  BY <1>6, <1>9
<1>11. u \div v <= x \div y
  <2>1. k * (got[c] * asked[d]) <= k * (got[d] * asked[c])
    <3>1. k \in Nat
      <4>1. 100 * G \in Nat
        BY <1>2
      <4> QED BY <1>2, <4>1, TimesNat
    <3>2. got[c] * asked[d] \in Nat /\ got[d] * asked[c] \in Nat
      BY <1>1, TimesNat
    <3> HIDE DEF k
    <3> QED BY <3>1, <3>2, TimesMonotone
  <2>2. u * y = k * (got[c] * asked[d]) /\ x * v = k * (got[d] * asked[c])
    <3>1. ASSUME NEW a \in Nat, NEW b \in Nat, NEW g \in Nat, NEW t \in Nat
          PROVE  (100 * a * g) * (t * b) = (100 * g * t) * (b * a)
      BY <3>1
    <3> QED BY <1>1, <1>2, <3>1
  <2>3. u * y <= x * v
    BY <2>1, <2>2, Zenon
  <2> HIDE DEF u, v, x, y
  <2> QED BY <1>10, <2>3, QuotientMonotone
<1>12. Ratio(c) = x \div y
  BY <1>3, <1>8
<1>13. CASE ~(Million * got[d] <= G)
  <2>1. Ratio(d) = u \div v
    BY <1>3, <1>13
  <2> QED BY <1>9, <1>11, <1>12, <2>1, Zenon
<1>14. CASE Million * got[d] <= G
  <2> DEFINE p == 100 * Million * asked[d]
  <2>1. Ratio(d) = p \div A /\ p \in Nat
    BY <1>3, <1>4, <1>14
  <2>2. p * v <= u * A
    <3> DEFINE f == 100 * asked[d] * A
    <3>1. f \in Nat /\ Million * got[d] \in Nat
      <4>1. 100 * asked[d] \in Nat
        BY <1>1
      <4> QED BY <1>1, <1>2, <1>4, <4>1, TimesNat
    <3>2. f * (Million * got[d]) <= f * G
      <4> HIDE DEF f
      <4> QED BY <1>2, <1>14, <3>1, TimesMonotone
    <3>3. p * v = f * (Million * got[d]) /\ u * A = f * G
      <4>1. ASSUME NEW a \in Nat, NEW b \in Nat, NEW g \in Nat, NEW t \in Nat,
                   NEW m \in Nat
            PROVE  /\ (100 * m * a) * (t * b) = (100 * a * t) * (m * b)
                   /\ (100 * a * g) * t = (100 * a * t) * g
        BY <4>1
      <4> QED BY <1>1, <1>2, <1>4, <4>1
    <3> QED BY <3>2, <3>3, Zenon
  <2>3. p \div A <= u \div v
    <3> HIDE DEF p, u, v
    <3> QED BY <1>2, <1>10, <2>1, <2>2, QuotientMonotone
  <2>4. p \div A \in Nat /\ u \div v \in Nat /\ x \div y \in Nat
    <3> HIDE DEF p, u, v, x, y
    <3> QED BY <1>2, <1>10, <2>1, Quotient
  <2> HIDE DEF p, u, v, x, y
  <2> QED BY <1>9, <1>11, <1>12, <2>1, <2>3, <2>4
<1> QED BY <1>13, <1>14

LEMMA BasesAreNumbers ==
  ASSUME NEW c \in Classes
  PROVE  \A b \in Bases(c) : b \in Nat
<1> SUFFICES ASSUME NEW urgency \in Urgencies, NEW waited \in Waits
             PROVE  Base(c, urgency, waited) \in Nat
  BY DEF Bases
<1>1. /\ urgency \in Nat /\ waited \in Nat /\ Priority[c] \in Nat /\ Patience[c] \in Nat
      /\ PriorityWeight \in Nat /\ UrgencyWeight \in Nat /\ WaitingWeight \in Nat
  BY PlannerAssumption, FeedbackAssumption
<1>2. Waiting(c, waited) \in Nat
  <2>1. Larger(1, Patience[c]) \in Nat \ {0} /\ 100 * waited \in Nat
    BY <1>1 DEF Larger
  <2>2. (100 * waited) \div Larger(1, Patience[c]) \in Nat
    BY <2>1, Quotient
  <2> QED BY <2>2 DEF Waiting, Smaller
<1> DEFINE parts == (100 * PriorityWeight * Priority[c]) \div MaxPriority
                      + UrgencyWeight * urgency + WaitingWeight * Waiting(c, waited)
<1>3. parts \in Nat
  <2>1. 100 * PriorityWeight * Priority[c] \in Nat
    <3>1. 100 * PriorityWeight \in Nat
      BY <1>1
    <3> QED BY <1>1, <3>1, TimesNat
  <2>2. (100 * PriorityWeight * Priority[c]) \div MaxPriority \in Nat
    BY <2>1, Quotient DEF MaxPriority
  <2>3. UrgencyWeight * urgency \in Nat /\ WaitingWeight * Waiting(c, waited) \in Nat
    BY <1>1, <1>2, TimesNat
  <2> QED BY <2>2, <2>3
<1>4. Base(c, urgency, waited) = parts \div 100
  BY DEF Base
<1> HIDE DEF parts
<1> QED BY <1>3, <1>4, Quotient

LEMMA CountsOfHistory ==
  ASSUME NEW history \in Seq(Observations)
  PROVE  Asked(history) \in Counts /\ Got(history) \in Counts
<1> DEFINE n == Len(history)
<1>1. n \in Nat /\ DOMAIN history = 1..n /\ \A i \in 1..n : history[i] \in Observations
  BY LenProperties, ElementOfSeq
<1>2. IsFiniteSet(1..n)
  BY <1>1, FS_Interval
<1> HIDE DEF n
<1>3. ASSUME NEW c \in Classes PROVE Asked(history)[c] \in Nat /\ Got(history)[c] \in Nat
  <2> DEFINE a == [i \in DOMAIN history |-> history[i].demand[c]]
             g == [i \in DOMAIN history |-> history[i].served[c]]
  <2>1. (\A i \in 1..n : a[i] \in Nat) /\ (\A i \in 1..n : g[i] \in Nat)
    BY <1>1 DEF Observations, Counts
  <2>2. Asked(history)[c] = SumFunctionOnSet(a, 1..n) /\ Got(history)[c] = SumFunctionOnSet(g, 1..n)
    BY <1>1 DEF Asked, Got, SumFunction
  <2> HIDE DEF a, g
  <2> QED BY <1>2, <2>1, <2>2, SumNat
<1> QED BY <1>3 DEF Asked, Got, Counts

\* Fairness weights never work against the class that was served worse.
THEOREM FairnessWorks == Spec => []FairnessRestores
<1>1. ASSUME FeedbackInv PROVE FairnessRestores
  <2> DEFINE asked == Asked(recent)
             got == Got(recent)
             demanded == {x \in Classes : asked[x] > 0}
  <2>1. SUFFICES
          ASSUME phase = "run", plan.at = step, NEW c \in demanded, NEW d \in demanded,
                 got[c] * asked[d] <= got[d] * asked[c],
                 NextToNothing(got, c) =>
                   100 * Million * asked[c] >= tuning.fairMax * SumFunction(asked)
          PROVE  /\ \A b \in Bases(c), e \in Bases(d) :
                      b >= e => Score(plan, c, b) >= Score(plan, d, e)
                 /\ got[c] = 0 => plan.weights[c] = Larger(tuning.fairMin, tuning.fairMax)
    BY DEF FairnessRestores
  <2>0. tuning \in TuningRecords
    BY <1>1, FeedbackAssumption DEF FeedbackInv, Types
  <2>2. plan = PlanOf(tuning, recent, step) /\ recent \in Seq(Observations)
    BY <1>1, <2>1, FreshlyPlanned
  <2>3. plan.weights = [x \in demanded |-> Weight(tuning, asked, got, x)]
    BY <2>2 DEF PlanOf, WeightsOf
  <2>4. asked \in Counts /\ got \in Counts
    BY <2>2, CountsOfHistory
  <2>5. c \in Classes /\ d \in Classes /\ asked[c] > 0 /\ asked[d] > 0
    OBVIOUS
  <2> HIDE DEF asked, got, demanded
  <2> DEFINE w == Weight(tuning, asked, got, c)
             z == Weight(tuning, asked, got, d)
  <2>6. w \in Nat /\ z \in Nat /\ z <= w /\ (got[c] = 0 => w = Larger(tuning.fairMin, tuning.fairMax))
    BY <2>0, <2>1, <2>4, <2>5, WorseServedOutweighs
  <2>7. plan.weights[c] = w /\ FairnessOf(plan, c) = w /\ FairnessOf(plan, d) = z
    BY <2>3 DEF FairnessOf
  <2> HIDE DEF w, z
  <2>8. ASSUME NEW b \in Bases(c), NEW e \in Bases(d), b >= e
        PROVE  Score(plan, c, b) >= Score(plan, d, e)
    <3>1. b \in Nat /\ e \in Nat /\ e <= b
      BY <2>5, <2>8, BasesAreNumbers
    <3>2. e * z <= b * w /\ e * z \in Nat /\ b * w \in Nat
      BY <2>6, <3>1, ProductMonotone, TimesNat
    <3>3. (e * z) \div 100 <= (b * w) \div 100
      <4> DEFINE u == e * z
                 x == b * w
      <4>1. u \in Nat /\ x \in Nat /\ u <= x
        BY <3>2
      <4> HIDE DEF u, x
      <4>2. u \div 100 <= x \div 100
        BY <4>1
      <4> QED BY <4>2 DEF u, x
    <3>4. (e * z) \div 100 \in Nat /\ (b * w) \div 100 \in Nat
      BY <3>2, Quotient
    <3>5. Score(plan, c, b) = Smaller(100, (b * w) \div 100) /\ Score(plan, d, e) = Smaller(100, (e * z) \div 100)
      BY <2>7 DEF Score
    <3> QED BY <3>3, <3>4, <3>5 DEF Smaller
  <2> QED BY <2>6, <2>7, <2>8
<1> QED BY <1>1, FeedbackInvariant, PTL
=============================================================================
