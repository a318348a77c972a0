-------------------------- MODULE GreedyScheduler --------------------------
(***************************************************************************)
(* Tier 1's fluid schedulers (adapters/scheduling/scheduler.py): greedy,    *)
(* highest score first, with a per-request airtime cap (PriorityFair) or   *)
(* none (Heuristic: a cap no cost reaches).  The score order is any order. *)
(***************************************************************************)
EXTENDS Airtime

CONSTANTS
  UnitCap,          \* per_request_cap
  DegradePercent    \* degrade_min_fraction, in percent

ASSUME SchedulerAssumption ==
  UnitCap \in Nat \ {0} /\ DegradePercent \in 1..100

VARIABLES
  queue,      \* candidates schedule() has still to visit
  free,       \* remaining of each beam
  deferred

schedVars == <<queue, free, deferred>>

SchedInit == queue = {} /\ free = [b \in Beams |-> 0] /\ deferred = {}

\* min(remaining, regulatory cap, per-request cap).
AllocatableNoRegCap(r, b) == Smaller(free[b], UnitCap)
Allocatable(r, b) == Smaller(Smaller(free[b], RegCap(r)), UnitCap)

\* Beams that carry the full cost, and those of them with most headroom.
FullFit(r) == {b \in Beams : Eligible(r, b) /\ Allocatable(r, b) + Slack >= cost[r]}
FullBest(r) == {b \in FullFit(r) : \A c \in FullFit(r) : free[b] >= free[c]}

\* Beams with some airtime left for r, and those of them with most of it.
PartFit(r) == {b \in Beams : Eligible(r, b) /\ Allocatable(r, b) > 0}
PartBest(r) == {b \in PartFit(r) : \A c \in PartFit(r) : Allocatable(r, b) >= Allocatable(r, c)}

\* units are at least the fraction of the capped cost worth serving.
Worthwhile(r, units) == 100 * (units + Slack) >= DegradePercent * Smaller(cost[r], UnitCap)

\* The beams on which r may be served degraded.
DegradedFitOfWholeNeed(r) ==
  {b \in PartBest(r) :
     r \in Degradable /\ 100 * (Allocatable(r, b) + Slack) >= DegradePercent * cost[r]}
DegradedFit(r) == {b \in PartBest(r) : r \in Degradable /\ Worthwhile(r, Allocatable(r, b))}

SchedFull(r) ==
  /\ phase = "schedule" /\ r \in queue \ Expired
  /\ \E b \in FullBest(r) :
       /\ Grant(r, b, cost[r], FALSE)
       /\ free' = [free EXCEPT ![b] = @ - cost[r]]
  /\ queue' = queue \ {r}
  /\ UNCHANGED <<phase, cost, dropped, deferred>>

SchedDegraded(r) ==
  /\ phase = "schedule" /\ r \in queue \ Expired
  /\ FullFit(r) = {}
  /\ \E b \in DegradedFit(r) :
       LET amount == Smaller(Allocatable(r, b), cost[r])
       IN /\ Grant(r, b, amount, TRUE)
          /\ free' = [free EXCEPT ![b] = @ - amount]
  /\ queue' = queue \ {r}
  /\ UNCHANGED <<phase, cost, dropped, deferred>>

SchedDefer(r) ==
  /\ phase = "schedule" /\ r \in queue \ Expired
  /\ FullFit(r) = {} /\ DegradedFit(r) = {}
  /\ deferred' = deferred \cup {r}
  /\ queue' = queue \ {r}
  /\ UNCHANGED <<phase, cost, granted, allocations, served, dropped, free>>

SchedExpired(r) ==
  /\ phase = "schedule" /\ r \in queue \cap Expired
  /\ dropped' = dropped \cup {r}
  /\ queue' = queue \ {r}
  /\ UNCHANGED <<phase, cost, granted, allocations, served, free, deferred>>
=============================================================================
