------------------------------- MODULE Tier3 -------------------------------
(***************************************************************************)
(* The planner of a run, as build_optimizer (optimizer.py) picks it from   *)
(* the configuration, called round after round.  The adaptive planner      *)
(* takes all but the curve from the heuristic one, so that here it only    *)
(* learns; the heuristic planner is the solver's fallback and nothing else.*)
(***************************************************************************)
CONSTANTS Buckets, One, FloorMin, Signals   \* of LearnedCurve
CONSTANTS                                   \* of SolverPlanner
  Regions, Classes, Fleets, Priority, Capacity, Licences, Demands, Servings,
  ServedWeight, BonusWeight, AssignWeight, SwitchWeight, CongestionWeight,
  Soft, FairMin, FairMax

VARIABLES
  backend,                                                    \* config.optimizer.backend
  p, signal,                                                  \* of LearnedCurve
  licence, window, by, hints, budgets, weights, prevHints     \* of SolverPlanner

curveVars == <<p, signal>>
planVars == <<licence, window, by, hints, budgets, weights, prevHints>>
vars == <<backend, curveVars, planVars>>

Adaptive == INSTANCE LearnedCurve
Solver == INSTANCE SolverPlanner

ASSUME Tier3Assumption == Adaptive!CurveAssumption /\ Solver!SolverAssumption

Init == backend \in {"heuristic", "solver", "adaptive"} /\ Adaptive!Init /\ Solver!Init

Chosen(b) == backend = b /\ UNCHANGED backend
PlanByFormula ==
  Chosen("heuristic") /\ UNCHANGED curveVars /\ \E w \in Solver!Windows : Solver!FallBack(w)
PlanBySolver == Chosen("solver") /\ UNCHANGED curveVars /\ Solver!Next
PlanByLearning == Chosen("adaptive") /\ UNCHANGED planVars /\ Adaptive!Learn
Next == PlanByFormula \/ PlanBySolver \/ PlanByLearning

\* The loop plans again every cadence_steps.
Spec == Init /\ [][Next]_vars /\ WF_vars(PlanByLearning)

-----------------------------------------------------------------------------
\* A request with a higher score is never less likely to be admitted than one with a
\* lower score, whatever the planner has learned.
HigherScoreNoLessLikely == Adaptive!HigherScoreNoLessLikely

\* A curve no window tightens any more returns to admitting everything, as long as
\* windows keep coming that shed a unit's worth while beams are idle.
ShedWhileIdleRecovers == Adaptive!ShedWhileIdleRecovers

\* The balance cap never makes the program infeasible.
SolverCanAnswer == Solver!SolverCanAnswer

\* A solution can be carried out, and its weights favour the class it leaves short.
PlanCoherent == Solver!PlanCoherent

\* An optimal plan leaves no airtime idle that a class of positive priority lacks, and
\* gives a lower priority precedence only for fairness.
BudgetsWellSpent == Solver!BudgetsWellSpent

\* A region changes its fleet only for a gain of at least the switching penalty.
MovesPayOff == Solver!MovesPayOff

\* From an unchanging window the solver's hints settle, if moving a region costs anything.
HintsSettle == Solver!HintsSettle
=============================================================================
