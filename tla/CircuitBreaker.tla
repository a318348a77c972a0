-------------------------- MODULE CircuitBreaker --------------------------
(***************************************************************************)
(* The circuit breakers (resilience.py) as ControlLoop._gather_constellation *)
(* drives them: one per fleet, asked once per step, told how the call went. *)
(* A fleet may answer or raise ConstellationError at any step.             *)
(***************************************************************************)
EXTENDS Integers, FiniteSets

CONSTANTS Fleets,         \* fleet_id() of the constellation clients
          Threshold,      \* failure_threshold
          Cooldown,       \* cooldown_steps
          DurationSteps   \* config.duration_steps, the bound on `step'

ASSUME BreakerAssumption ==
  Threshold \in Nat \ {0} /\ Cooldown \in Nat \ {0} /\ DurationSteps \in Nat

NotOpen == -1   \* the None of _open_until

VARIABLES
  step,       \* the step of run()
  todo,       \* clients the loop of _gather_constellation has still to visit
  visible,    \* fleets whose snapshots it has collected
  failures,   \* _failures
  openUntil,  \* _open_until
  trips,      \* trips reported, per fleet, since the run began
  streak,     \* history: failed calls since the last successful one
  lastFail,   \* history: step of the last failed call
  recoveries  \* history: successful calls that ended an outage, Threshold failures or more

vars == <<step, todo, visible, failures, openUntil, trips, streak, lastFail, recoveries>>

Init ==
  /\ step = 0 /\ todo = Fleets /\ visible = {}
  /\ failures = [f \in Fleets |-> 0]
  /\ openUntil = [f \in Fleets |-> NotOpen]
  /\ trips = [f \in Fleets |-> 0]
  /\ streak = [f \in Fleets |-> 0]
  /\ lastFail = [f \in Fleets |-> 0]
  /\ recoveries = [f \in Fleets |-> 0]

\* CircuitBreaker.allow.
AllowStrict(f) == openUntil[f] = NotOpen \/ step > openUntil[f]
AllowEarly(f) == openUntil[f] = NotOpen \/ step + 1 >= openUntil[f]
Allow(f) == openUntil[f] = NotOpen \/ step >= openUntil[f]

\* The breaker is open: fail over to the other fleet without attempting.
Skip(f) ==
  /\ f \in todo /\ ~Allow(f)
  /\ todo' = todo \ {f}
  /\ UNCHANGED <<step, visible, failures, openUntil, trips, streak, lastFail, recoveries>>

\* record_success forgets the failures that led to it.
FailuresKept(f) == failures
FailuresReset(f) == [failures EXCEPT ![f] = 0]

\* visible_resources answers; record_success closes the breaker.
Answer(f) ==
  /\ f \in todo /\ Allow(f)
  /\ todo' = todo \ {f}
  /\ visible' = visible \cup {f}
  /\ failures' = FailuresReset(f)
  /\ openUntil' = [openUntil EXCEPT ![f] = NotOpen]
  /\ streak' = [streak EXCEPT ![f] = 0]
  /\ recoveries' = [recoveries EXCEPT ![f] = @ + IF streak[f] >= Threshold THEN 1 ELSE 0]
  /\ UNCHANGED <<step, trips, lastFail>>

\* record_failure opens the breaker: it already was, or this is the last strike.
OpensPastThreshold(f) == openUntil[f] # NotOpen \/ failures[f] + 1 > Threshold
Opens(f) == openUntil[f] # NotOpen \/ failures[f] + 1 >= Threshold

\* record_failure returns True: only a closed breaker trips.
NewlyTrippedAlways(f) == Opens(f)
NewlyTrippedPast(f) == openUntil[f] = NotOpen /\ failures[f] + 1 > Threshold
NewlyTripped(f) == openUntil[f] = NotOpen /\ Opens(f)

\* visible_resources raises ConstellationError; record_failure counts it.
Fail(f) ==
  /\ f \in todo /\ Allow(f)
  /\ todo' = todo \ {f}
  /\ failures' = [failures EXCEPT ![f] = @ + 1]
  /\ openUntil' = IF Opens(f) THEN [openUntil EXCEPT ![f] = step + Cooldown]
                              ELSE openUntil
  /\ trips' = [trips EXCEPT ![f] = @ + IF NewlyTripped(f) THEN 1 ELSE 0]
  /\ streak' = [streak EXCEPT ![f] = @ + 1]
  /\ lastFail' = [lastFail EXCEPT ![f] = step]
  /\ UNCHANGED <<step, visible, recoveries>>

\* Every client visited: the rest of step() and the next iteration of run().
NextStepForgetsClients ==
  /\ todo = {} /\ step < DurationSteps
  /\ step' = step + 1 /\ todo' = visible /\ visible' = {}
  /\ UNCHANGED <<failures, openUntil, trips, streak, lastFail, recoveries>>
NextStep ==
  /\ todo = {} /\ step < DurationSteps
  /\ step' = step + 1 /\ todo' = Fleets /\ visible' = {}
  /\ UNCHANGED <<failures, openUntil, trips, streak, lastFail, recoveries>>

Next == \/ \E f \in Fleets : Skip(f) \/ Answer(f) \/ Fail(f)
        \/ NextStep

Spec == Init /\ [][Next]_vars

-----------------------------------------------------------------------------
(* Properties *)

\* Type invariant: a fleet's breaker holds a count of failures and either no
\* cooldown or the step at which one ends; counts only ever grow from zero.
TypeOK ==
  /\ step \in Nat /\ todo \subseteq Fleets /\ visible \subseteq Fleets
  /\ failures \in [Fleets -> Nat]
  /\ openUntil \in [Fleets -> Nat \cup {NotOpen}]
  /\ trips \in [Fleets -> Nat]
  /\ streak \in [Fleets -> Nat] /\ lastFail \in [Fleets -> Nat]
  /\ recoveries \in [Fleets -> Nat]

\* The breaker of a fleet is open exactly when its last Threshold calls or more
\* all failed, and then until Cooldown steps after the last of them: a failed
\* trial extends the cooldown, a success forgets everything.
OpenIffStreak ==
  \A f \in Fleets :
    openUntil[f] = IF streak[f] >= Threshold THEN lastFail[f] + Cooldown ELSE NotOpen

\* A fleet whose last Threshold calls failed is left alone for a full cooldown:
\* no call reaches it before, in this or any later step.
NoCallDuringCooldown ==
  [][\A f \in Fleets :
       streak[f] >= Threshold /\ (streak'[f] # streak[f] \/ f \in visible' \ visible)
         => step >= lastFail[f] + Cooldown]_vars

\* The loop reports exactly one trip per outage: as many as the fleet has recovered
\* from, and the one it is in, however often its trials failed.
TripsCountOutages ==
  \A f \in Fleets : trips[f] = recoveries[f] + (IF streak[f] >= Threshold THEN 1 ELSE 0)

\* Failover is per fleet: once every client was visited, a fleet is missing from
\* the snapshot only if it failed in this very step or is within its cooldown,
\* whatever the other fleets did.
MissingForCause ==
  todo = {} =>
    \A f \in Fleets \ visible :
      \/ streak[f] > 0 /\ lastFail[f] = step
      \/ streak[f] >= Threshold /\ step < lastFail[f] + Cooldown

\* The breakers implement the clockless three-state breaker.
Status(f) == IF openUntil[f] = NotOpen THEN "closed"
             ELSE IF openUntil[f] > step THEN "open" ELSE "halfopen"
Failover == INSTANCE FleetFailover
  WITH state <- [f \in Fleets |-> Status(f)],
       strikes <- [f \in Fleets |-> IF Status(f) = "closed" THEN failures[f] ELSE 0],
       wait <- [f \in Fleets |-> IF Status(f) = "open" THEN openUntil[f] - step ELSE 0]
RefinesFailover == Failover!Spec
=============================================================================
