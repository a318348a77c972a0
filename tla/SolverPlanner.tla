--------------------------- MODULE SolverPlanner ---------------------------
(***************************************************************************)
(* SolverOptimizer.plan (optimizer.py): each planning round assigns every  *)
(* covered region one of its fleets and splits that fleet's airtime among  *)
(* the classes, by a mixed-integer program; HeuristicOptimizer answers     *)
(* when the solver does not.  A program stopped by its time limit may give *)
(* any solution it has found so far, an exhausted one an optimal one.      *)
(*                                                                         *)
(* Airtime is in whole units and every weight, share and utilization in    *)
(* percent, so the objective counts in 1/10000.  Soft * capacity is a      *)
(* whole number of units, so that some optimal split is one too.           *)
(***************************************************************************)
EXTENDS Integers, FiniteSets, FiniteSetsExt, Functions

CONSTANTS
  Regions, Classes,
  Fleets,        \* fleets, numbered in the order of their ids
  Priority,      \* value of each traffic class
  Capacity,      \* airtime a fleet has in a region it covers
  Licences,      \* the coverage a configuration may give: a set of fleets per region
  Demands,       \* airtime asked for, per region and class, over the history
  Servings,      \* requests served, per class, over the history
  ServedWeight, BonusWeight, AssignWeight, SwitchWeight, CongestionWeight,
  Soft,          \* soft_utilization
  FairMin, FairMax   \* fairness_weight_min and _max

SolverAssumption ==
  /\ IsFiniteSet(Regions) /\ IsFiniteSet(Classes)
  /\ Fleets \subseteq Nat /\ IsFiniteSet(Fleets) /\ Priority \in [Classes -> 0..6]
  /\ ServedWeight \in Nat /\ BonusWeight \in Nat /\ AssignWeight \in Nat
  /\ SwitchWeight \in Nat /\ CongestionWeight \in Nat
  /\ FairMin \in Nat /\ FairMax \in Nat
  /\ Capacity \in [Regions -> [Fleets -> Nat]] /\ Soft \in 1..100
  /\ \A r \in Regions, f \in Fleets : (Soft * Capacity[r][f]) % 100 = 0
  /\ Licences \subseteq [Regions -> SUBSET Fleets]
  /\ Demands \subseteq [Regions -> [Classes -> Nat]] /\ Servings \subseteq [Classes -> Nat]

VARIABLES
  licence,    \* fleets that may serve each region
  window,     \* what the last round planned from: cover, demand and got
  by,         \* who answered: "optimal", "feasible" or "heuristic"; "nobody" yet
  hints,      \* fleet_hints of the plan
  budgets,    \* its region_class_budgets
  weights,    \* its fairness_weights, where the solver answered
  prevHints   \* _prev_hints: the assignment the solver last made

vars == <<licence, window, by, hints, budgets, weights, prevHints>>

MaxPriority == 6
NoHints == [r \in {} |-> 0]
Init ==
  /\ licence \in Licences
  /\ window = [cover |-> NoHints, demand |-> NoHints, got |-> NoHints]
  /\ by = "nobody" /\ hints = NoHints /\ budgets = NoHints /\ weights = NoHints
  /\ prevHints = NoHints

\* _capacity_by_region_fleet: the regions the fleets in the snapshot cover.
CoverOf(up) == [r \in {s \in Regions : licence[s] \cap up # {}} |-> licence[r] \cap up]
Windows == [cover : {CoverOf(up) : up \in SUBSET Fleets}, demand : Demands, got : Servings]
Covered(w) == DOMAIN w.cover
SeenFleets(w) == UNION {w.cover[r] : r \in Covered(w)}
AllAirtime(w, r) == SumFunctionOnSet(Capacity[r], w.cover[r])
TotalCapacity(w) == SumFunction([r \in Covered(w) |-> AllAirtime(w, r)])

-----------------------------------------------------------------------------
(* The constraints. *)

\* The balance cap: how many regions may get the same fleet.
EvenShare(w) ==
  (Cardinality(Covered(w)) + Cardinality(SeenFleets(w)) - 1) \div Cardinality(SeenFleets(w))
MaxPerFleetEven(w) == EvenShare(w)
MaxPerFleet(w) == EvenShare(w) + 1
Balanced(w, x) ==
  \A f \in SeenFleets(w) : Cardinality({r \in Covered(w) : x[r] = f}) <= MaxPerFleet(w)
Assignments(w) ==
  {x \in [Covered(w) -> SeenFleets(w)] :
     (\A r \in Covered(w) : x[r] \in w.cover[r]) /\ Balanced(w, x)}

\* The airtime of region r the plan may split if it is assigned fleet f, and the
\* splits: no class gets more than it asked for.
AssignedAllAirtime(w, r, f) == AllAirtime(w, r)
Assigned(w, r, f) == Capacity[r][f]
Splits(w, r, f) ==
  {y \in [Classes -> 0..Assigned(w, r, f)] :
     SumFunction(y) <= Assigned(w, r, f) /\ \A c \in Classes : y[c] <= w.demand[r][c]}

-----------------------------------------------------------------------------
(* The objective. *)

Share(part, whole) == IF whole = 0 THEN 0 ELSE (100 * part) \div whole
Asked(w, c) == SumFunction([r \in Regions |-> w.demand[r][c]])
AskedTotal(w) == SumFunction([c \in Classes |-> Asked(w, c)])

\* _fairness_bonus: how far the served share of a class trails its demand share.
Bonus(w, c) == Max({0, Share(Asked(w, c), AskedTotal(w)) - Share(w.got[c], SumFunction(w.got))})
ValueByBonusOnly(w, c) == BonusWeight * Bonus(w, c)
Value(w, c) == (100 * ServedWeight * Priority[c]) \div MaxPriority + BonusWeight * Bonus(w, c)

\* _region_pressure_share, over the covered regions.
RegionDemand(w, r) == SumFunction(w.demand[r])
Pressure(w, r) == Share(RegionDemand(w, r), SumFunction([s \in Covered(w) |-> RegionDemand(w, s)]))

\* What a split is worth: the values served less the congestion above the threshold.
SplitWorths(w, r, f) ==
  LET value == [c \in Classes |-> Value(w, c)]
  IN  [y \in Splits(w, r, f) |->
         SumFunction([c \in Classes |-> value[c] * y[c]])
           - CongestionWeight * Max({0, 100 * SumFunction(y) - Soft * Capacity[r][f]})]
BestSplits(w, r, f) ==
  LET worth == SplitWorths(w, r, f)
      best == Max(Range(worth))
  IN  {y \in DOMAIN worth : worth[y] = best}

\* What assigning r to f adds, and what leaving the remembered fleet costs.
Worth(w, r, f) ==
  Max(Range(SplitWorths(w, r, f))) + AssignWeight * Capacity[r][f] * Pressure(w, r)
SwitchCostOff(r, f) == 0
SwitchCost(r, f) == IF r \in DOMAIN prevHints /\ prevHints[r] # f THEN 100 * SwitchWeight ELSE 0

Optimal(w) ==
  LET worth == [r \in Covered(w) |-> [f \in w.cover[r] |-> Worth(w, r, f) - SwitchCost(r, f)]]
      total == [x \in Assignments(w) |-> SumFunction([r \in Covered(w) |-> worth[r][x[r]]])]
      best == Max(Range(total))
  IN  {x \in DOMAIN total : total[x] = best}

-----------------------------------------------------------------------------
(* plan(): the solver's answer, or the heuristic's. *)

\* The fuller the solver's budgets make a class, the lower its weight.
Given(bs, c) == SumFunction([r \in DOMAIN bs |-> bs[r][c]])
WeightsOf(w, bs) ==
  [c \in {d \in Classes : \E r \in Covered(w) : w.demand[r][d] > 0} |->
     Max({FairMin, FairMax - Share(Given(bs, c), Asked(w, c)) \div 2})]

Answer(w, x, bs, ws, who) ==
  /\ window' = w /\ by' = who /\ hints' = x /\ budgets' = bs /\ weights' = ws
  /\ UNCHANGED licence

\* Read the solution out: a split out of splits[r] of each region that asked for airtime.
Asking(w) == {r \in Covered(w) : RegionDemand(w, r) > 0}
ReadOut(w, x, splits, who) ==
  \E bs \in [Asking(w) -> UNION Range(splits)] :
    /\ \A r \in Asking(w) : bs[r] \in splits[r]
    /\ Answer(w, x, bs, WeightsOf(w, bs), who)

\* _prev_hints is what the solver assigned last, whether or not to optimality.
RememberNothing(x) == prevHints' = NoHints
Remember(x) == prevHints' = x

SolveToOptimality(w) ==
  /\ TotalCapacity(w) > 0
  /\ \E x \in Optimal(w) :
       ReadOut(w, x, [r \in Asking(w) |-> BestSplits(w, r, x[r])], "optimal") /\ Remember(x)

StopAtTimeLimit(w) ==
  /\ TotalCapacity(w) > 0
  /\ \E x \in Assignments(w) :
       ReadOut(w, x, [r \in Asking(w) |-> Splits(w, r, x[r])], "feasible") /\ Remember(x)

\* HeuristicOptimizer's fleet_hints: the most airtime, a tie to the greater id.
HeuristicHint(w, r) ==
  CHOOSE f \in w.cover[r] : \A g \in w.cover[r] :
    Capacity[r][g] < Capacity[r][f] \/ (Capacity[r][g] = Capacity[r][f] /\ g <= f)

\* No solver, an exception, no solution in time, or nothing to plan: the heuristic
\* planner answers, and the solver remembers the assignment it last made itself.
FallBack(w) ==
  /\ Answer(w, [r \in Covered(w) |-> HeuristicHint(w, r)], NoHints, NoHints, "heuristic")
  /\ UNCHANGED prevHints

Next == \E w \in Windows : SolveToOptimality(w) \/ StopAtTimeLimit(w) \/ FallBack(w)
Spec == Init /\ [][Next]_vars

-----------------------------------------------------------------------------
\* However the licences skew the coverage and whichever fleets are out, the balance
\* cap leaves an assignment: a working solver never falls back because of it.
SolverCanAnswer ==
  by # "nobody" /\ TotalCapacity(window) > 0 => Assignments(window) # {}

\* A solution, optimal or not, can be carried out: what the classes of a region get is
\* airtime of the one fleet hinted there; and of two classes the scorer favours the one
\* it leaves short.
PlanCoherent ==
  by \in {"optimal", "feasible"} =>
    /\ \A r \in DOMAIN budgets : SumFunction(budgets[r]) <= Capacity[r][hints[r]]
    /\ \A c, d \in DOMAIN weights :
         Given(budgets, c) = Asked(window, c) /\ Given(budgets, d) < Asked(window, d)
           => weights[c] <= weights[d]

\* An optimal plan wastes nothing on the way: while a class of positive priority is
\* short, airtime up to the soft threshold is used up, and a class of lower priority
\* gets some only if it trails its fair share further.
BudgetsWellSpent ==
  by = "optimal" =>
    \A r \in DOMAIN budgets : \A c \in Classes :
      budgets[r][c] < window.demand[r][c] /\ Priority[c] > 0 =>
        /\ 100 * SumFunction(budgets[r]) >= Soft * Capacity[r][hints[r]]
        /\ \A d \in Classes :
             Priority[d] < Priority[c] /\ budgets[r][d] > 0 => Bonus(window, d) > Bonus(window, c)

\* A region is taken from a fleet that could have kept it only for a gain of at least
\* the switching penalty, also when the solver has been out of service in between.
MovesPayOff ==
  [][by' = "optimal" =>
       \A r \in DOMAIN hints' \cap DOMAIN prevHints :
         LET stay == prevHints[r]
         IN  /\ stay # hints'[r] /\ stay \in window'.cover[r]
             /\ Balanced(window', [hints' EXCEPT ![r] = stay])
             => Worth(window', r, hints'[r]) >= Worth(window', r, stay) + 100 * SwitchWeight]_vars

\* Hints do not flap: once every round plans optimally from the same window, the
\* assignment changes no more after some round, though several are equally good.  It
\* takes a positive penalty for moving: with a weight of 0 nothing holds a region.
HintsSettle ==
  SwitchWeight > 0 /\ <>[][by' = "optimal" /\ window' = window]_vars
    => <>[][hints' = hints]_vars
=============================================================================
