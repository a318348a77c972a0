-------------------------- MODULE HeuristicPlanner --------------------------
(***************************************************************************)
(* What HeuristicOptimizer (optimizer.py) makes of the histories it is     *)
(* given, and what scoring.py and the admission controller make of its     *)
(* plan.  Rates, weights and scores are in percent, rounded down, so that  *)
(* 100 stands for exactly 1.  Probabilities are parts of One, so many that *)
(* none but 0 rounds to 0.  A tuning is what the planner is configured     *)
(* with: utilization_clamp, which may be infinite, and fairness_weight_min *)
(* and _max, of which either may be the larger.                            *)
(*                                                                         *)
(* An observation is what _observe keeps of a step: the step it is about   *)
(* (at), the airtime each class asked for (demand), the utilization and    *)
(* the drop rate its CongestionState carried (util, drop), and the         *)
(* requests of each class it served.  The plan's airtime budgets and fleet *)
(* hints are left out: nothing reads them.                                 *)
(***************************************************************************)
EXTENDS Integers, Sequences, FiniteSets, SequencesExt

CONSTANTS Classes,           \* traffic classes
          One,               \* probability 1
          Priority,          \* value of each class
          Patience,          \* deadline_slack_steps of each class
          PriorityWeight, UrgencyWeight, WaitingWeight   \* of ScoringConfig

ASSUME PlannerAssumption ==
  /\ IsFiniteSet(Classes)
  /\ One \in Nat /\ One >= 10000
  /\ Priority \in [Classes -> 0..6] /\ Patience \in [Classes -> Nat]
  /\ PriorityWeight \in Nat /\ UrgencyWeight \in Nat /\ WaitingWeight \in Nat

Smaller(a, b) == IF a <= b THEN a ELSE b
Larger(a, b) == IF a >= b THEN a ELSE b

Infinite == -1
TuningRecords == [clamp : Nat \cup {Infinite}, fairMin : Nat, fairMax : Nat]

\* _mean_utilization and _mean_drop_rate.  Without any observation there is no
\* demand either, and both are 0.
Mean(ns) == IF ns = <<>> THEN 0 ELSE SumFunction(ns) \div Len(ns)
Clamped(clamp, util) ==
  IF util = Infinite THEN clamp ELSE IF clamp = Infinite THEN util ELSE Smaller(clamp, util)
MeanUtilization(clamp, history) ==
  LET utils == [i \in DOMAIN history |-> Clamped(clamp, history[i].util)]
  IN  IF \E i \in DOMAIN history : utils[i] = Infinite THEN Infinite ELSE Mean(utils)
MeanDropRate(history) == Mean([i \in DOMAIN history |-> history[i].drop])

\* _admission_curve: the probability at score 0; at score 1 it is 1.
FloorOf(util, drop) ==
  IF util = Infinite THEN 0 ELSE (One * (100 - drop)) \div Larger(100, util)

\* What a class asked for and was served over the history.
Asked(history) ==
  [c \in Classes |-> SumFunction([i \in DOMAIN history |-> history[i].demand[c]])]
Got(history) ==
  [c \in Classes |-> SumFunction([i \in DOMAIN history |-> history[i].served[c]])]

\* _fairness_weights: demand share over served share, for the classes with demand.
\* A served share below 1e-6 counts as 1e-6.  A minimum above the maximum wins.
Million == 1000 * 1000
NextToNothing(got, c) == Million * got[c] <= SumFunction(got)
ShareRatio(asked, got, c) ==
  IF NextToNothing(got, c)
  THEN (100 * Million * asked[c]) \div SumFunction(asked)
  ELSE (100 * asked[c] * SumFunction(got)) \div (SumFunction(asked) * got[c])
BoundedByMaxLast(tuning, w) == Smaller(tuning.fairMax, Larger(tuning.fairMin, w))
Bounded(tuning, w) == Larger(tuning.fairMin, Smaller(tuning.fairMax, w))
WeightUnservedNeutral(tuning, asked, got, c) ==
  IF got[c] = 0 THEN 100 ELSE Bounded(tuning, ShareRatio(asked, got, c))
Weight(tuning, asked, got, c) == Bounded(tuning, ShareRatio(asked, got, c))
WeightsOf(tuning, history) ==
  LET asked == Asked(history)
      got == Got(history)
  IN  [c \in {d \in Classes : asked[d] > 0} |-> Weight(tuning, asked, got, c)]

\* HeuristicOptimizer.plan, and ResourcePlan.passthrough.
PlanOf(tuning, history, step) ==
  [at |-> step,
   floor |-> FloorOf(MeanUtilization(tuning.clamp, history), MeanDropRate(history)),
   weights |-> WeightsOf(tuning, history)]
Passthrough == [at |-> -1, floor |-> One, weights |-> <<>>]

\* RequestScorer.evaluate: priority, urgency and the part of its time a request has
\* waited, weighted, and then boosted or damped by the fairness weight of its class.
MaxPriority == 6
Waiting(c, waited) == Smaller(100, (100 * waited) \div Larger(1, Patience[c]))
Base(c, urgency, waited) ==
  ((100 * PriorityWeight * Priority[c]) \div MaxPriority
     + UrgencyWeight * urgency + WaitingWeight * Waiting(c, waited)) \div 100
FairnessOf(plan, c) == IF c \in DOMAIN plan.weights THEN plan.weights[c] ELSE 100
Score(plan, c, base) == Smaller(100, (base * FairnessOf(plan, c)) \div 100)

\* admit_probability of the plan's curve, damped by the overage of this step.
AdmitProbability(plan, score, overage) ==
  LET onCurve == plan.floor + ((One - plan.floor) * score) \div 100
  IN  (onCurve * (10000 - overage * (100 - score))) \div 10000
=============================================================================
