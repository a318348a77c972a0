---------------------------- MODULE PlanFeedback ----------------------------
(***************************************************************************)
(* The feedback loop of Tier 3 in the control loop (runtime/loop.py):      *)
(* every cadence_steps the optimizer sees bounded histories of what the    *)
(* last steps did and broadcasts a plan that governs the next ones.  The   *)
(* plan is the heuristic planner's; an AdaptiveOptimizer learns from the   *)
(* same histories (what it learns is in LearnedCurve).                     *)
(***************************************************************************)
EXTENDS HeuristicPlanner

CONSTANTS Tunings,        \* of the planner, that it may be configured with
          Cadences,       \* optimizer.cadence_steps it may be configured with
          Capacities,     \* overload.history_capacity it may be configured with
          DurationSteps,  \* config.duration_steps
          Urgent,         \* URGENT_CLASSES
          Units,          \* estimated_cost_units of a request of each class
          Urgencies,      \* urgency a request may have
          Waits,          \* steps it may have waited
          Rooms,          \* airtime the lane may leave
          Pressures       \* queue_pressure there may be

\* One part of One is less than the least probability but 0 a plan can come to, at the
\* highest finite utilization.
ASSUME FeedbackAssumption ==
  /\ Tunings \subseteq TuningRecords
  /\ Cadences \subseteq Nat \ {0} /\ Capacities \subseteq Nat \ {0}
  /\ DurationSteps \in Nat \ {0}
  /\ Urgent \subseteq Classes /\ Units \in [Classes -> Nat \ {0}]
  /\ Urgencies \subseteq 0..100 /\ Waits \subseteq Nat
  /\ Rooms \subseteq Nat /\ Pressures \subseteq 0..100
  /\ One >= 10000 * SumFunction(Units)
  /\ \A t \in Tunings : t.clamp # Infinite => One >= 100 * t.clamp

Never == -1
Steps == 0..(DurationSteps - 1)

VARIABLES
  tuning, cadence, capacity,  \* the configuration
  phase,              \* "plan" or "run"
  step,
  plan,               \* the plan in force
  recent,             \* _recent_demand, _recent_congestion and _recent_counters:
                      \* deques of one maxlen that _observe appends to together
  lastDropRate,       \* _last_drop_rate
  governedBy,         \* history: when the plan each step ran under was made
  learned,            \* history: how often AdaptiveOptimizer learned from a step
  window,             \* history: the steps of the last feedback window
  over, starved, lossy  \* history: of the last capacity + 1 steps, those with more load
                        \* than room, those with load but no room, and those with drops

past == <<governedBy, learned, window, over, starved, lossy>>
config == <<tuning, cadence, capacity>>
vars == <<config, phase, step, plan, recent, lastDropRate, past>>

Init ==
  /\ tuning \in Tunings /\ cadence \in Cadences /\ capacity \in Capacities
  /\ phase = "plan" /\ step = 0 /\ plan = Passthrough
  /\ recent = <<>> /\ lastDropRate = 0
  /\ governedBy = [s \in Steps |-> Never]
  /\ learned = [s \in Steps |-> 0] /\ window = {}
  /\ over = {} /\ starved = {} /\ lossy = {}

\* The last n elements of a history; and a deque with maxlen = capacity.
LastOf(seq, n) == IF Len(seq) <= n THEN seq ELSE SubSeq(seq, Len(seq) - n + 1, Len(seq))
Remember(seq, x) == LastOf(Append(seq, x), capacity)

\* recent_counters[-valid_for_steps:] of _learn.
StepsOf(seq) == {seq[i].at : i \in DOMAIN seq}
FeedbackAll == StepsOf(recent)
Feedback == StepsOf(LastOf(recent, cadence))

Due == step % cadence = 0

\* _maybe_replan when the cadence is up: learn, and broadcast a new plan.
Replan ==
  /\ phase = "plan" /\ Due
  /\ plan' = PlanOf(tuning, recent, step)
  /\ window' = Feedback
  /\ learned' = [s \in Steps |-> learned[s] + IF s \in Feedback THEN 1 ELSE 0]
  /\ phase' = "run"
  /\ UNCHANGED <<config, step, recent, lastDropRate, governedBy, over, starved, lossy>>

KeepPlan ==
  /\ phase = "plan" /\ ~Due
  /\ phase' = "run"
  /\ UNCHANGED <<config, step, plan, recent, lastDropRate, past>>

\* The fate of one request of each class: not there, served or dropped in the lane,
\* or best effort.  (A request no rule allows anywhere is left out.)
InLane == {"absent", "laneServed", "laneDropped"}
BestEffortFates == {"served", "dropped", "deferred", "shed"}
BestEffort(fate) == {c \in Classes : fate[c] \in BestEffortFates}
Load(fate) == SumFunction([c \in Classes |-> IF c \in BestEffort(fate) THEN Units[c] ELSE 0])

\* CongestionState.utilization, infinite where load meets no room.
Utilization(load, room) ==
  IF load = 0 THEN 0 ELSE IF room = 0 THEN Infinite ELSE (100 * load) \div room
\* overage of the admission controller; without room it is as large as it gets.
Overage(load, room, pressure) ==
  IF load > 0 /\ room = 0 THEN 100
  ELSE Smaller(100, Larger(0, Utilization(load, room) - 100) + pressure)

\* Base scores a request of class c may have.
Bases(c) == {Base(c, urgency, waited) : urgency \in Urgencies, waited \in Waits}

\* Admission and the scheduler may give a request of class c the fate f.
Possible(c, f, room, overage) ==
  \/ f = "absent"
  \/ f \in {"laneServed", "laneDropped"} /\ c \in Urgent
  \/ \E base \in Bases(c) :
       LET p == AdmitProbability(plan, Score(plan, c, base), overage)
       IN  \/ f = "shed" /\ p < One
           \/ f \in {"dropped", "deferred"} /\ p > 0
           \/ f = "served" /\ p > 0 /\ room > 0

Fates(room, pressure) ==
  {fate \in [Classes -> InLane \cup BestEffortFates] :
     \A c \in Classes : Possible(c, fate[c], room, Overage(Load(fate), room, pressure))}

\* _observe: the share of what was handled (not deferred) in this step that was dropped.
Count(fate, fs) == Cardinality({c \in Classes : fate[c] \in fs})
Dropped == {"laneDropped", "dropped"}
Settled == {"laneServed", "served", "laneDropped", "dropped", "shed"}
DropRateWithShed(fate) ==
  IF Count(fate, Settled) = 0 THEN 0
  ELSE (100 * Count(fate, Dropped \cup {"shed"})) \div Count(fate, Settled)
DropRate(fate) ==
  IF Count(fate, Settled) = 0 THEN 0 ELSE (100 * Count(fate, Dropped)) \div Count(fate, Settled)

\* _observe of this step, whose CongestionState carries the drop rate of the last one.
Observation(fate, room) ==
  [at |-> step,
   demand |-> [c \in Classes |-> IF fate[c] = "absent" THEN 0 ELSE Units[c]],
   util |-> Utilization(Load(fate), room),
   drop |-> lastDropRate,
   served |-> [c \in Classes |-> IF fate[c] \in {"laneServed", "served"} THEN 1 ELSE 0]]

Latest(steps) == {s \in steps : s >= step - capacity}

\* The rest of step(): scoring, admission and scheduling under the plan in force.
RunStep ==
  /\ phase = "run"
  /\ \E room \in Rooms, pressure \in Pressures : \E fate \in Fates(room, pressure) :
       /\ recent' = Remember(recent, Observation(fate, room))
       /\ lastDropRate' = DropRate(fate)
       /\ over' = Latest(over \cup {s \in {step} : Load(fate) > room})
       /\ starved' = Latest(starved \cup {s \in {step} : Load(fate) > 0 /\ room = 0})
       /\ lossy' = Latest(lossy \cup {s \in {step} : Count(fate, Dropped) > 0})
  /\ governedBy' = [governedBy EXCEPT ![step] = plan.at]
  /\ step' = step + 1
  /\ phase' = IF step + 1 < DurationSteps THEN "plan" ELSE "done"
  /\ UNCHANGED <<config, plan, learned, window>>

Next == Replan \/ KeepPlan \/ RunStep
Spec == Init /\ [][Next]_vars

-----------------------------------------------------------------------------
\* The optimizer judges a curve only by what happened under it, and never twice: the
\* steps it learned from last all ran under one plan; no outcome is learned from again;
\* and as long as the histories hold a cadence, each step that ran under a replaced
\* plan was learned from.
LearnedOnce ==
  /\ \A s, t \in window : governedBy[s] = governedBy[t]
  /\ \A s \in Steps :
       /\ learned[s] <= 1
       /\ capacity >= cadence /\ s < plan.at => learned[s] = 1

\* Shedding never feeds on itself: a curve sheds anything only if one of the steps it
\* was drawn from was over-subscribed or dropped a request (what admission rejected
\* is no such cause), and all of the lowest scores only if every one of them dropped
\* requests, or utilization is averaged unclamped and one of them had load but no room.
\* A drop is seen one step late.
DrawnFrom == {s \in Steps : plan.at - capacity <= s /\ s < plan.at}
SeenLossy == {s \in DrawnFrom : s - 1 \in lossy}
SheddingForCause ==
  phase = "run" /\ plan.at = step =>
    /\ plan.floor < One => DrawnFrom \cap over # {} \/ SeenLossy # {}
    /\ plan.floor = 0 =>
         SeenLossy = DrawnFrom \/ (tuning.clamp = Infinite /\ DrawnFrom \cap starved # {})

\* Fairness never works against the class that was served worse: under a new plan no
\* request outscores one of a class that got less of what it asked for, unless its
\* base score is higher; and a class that got nothing is boosted as far as it goes.
\* Served next to nothing, a class counts as served a millionth, which boosts it that
\* far if it asked for at least FairMax millionths of the demand; below that, no claim.
FairnessRestores ==
  LET asked == Asked(recent)
      got == Got(recent)
      demanded == {c \in Classes : asked[c] > 0}
      Noticed(c) == 100 * Million * asked[c] >= tuning.fairMax * SumFunction(asked)
  IN  phase = "run" /\ plan.at = step =>
        \A c, d \in demanded :
          /\ got[c] * asked[d] <= got[d] * asked[c]
          /\ NextToNothing(got, c) => Noticed(c)
          => /\ \A b \in Bases(c), e \in Bases(d) :
                  b >= e => Score(plan, c, b) >= Score(plan, d, e)
             /\ got[c] = 0 => plan.weights[c] = Larger(tuning.fairMin, tuning.fairMax)
=============================================================================
