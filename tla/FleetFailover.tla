--------------------------- MODULE FleetFailover ---------------------------
(***************************************************************************)
(* The three-state breaker the docstring of resilience.py describes, one   *)
(* per fleet, without clocks: CLOSED until Threshold failures in a row,    *)
(* then OPEN for Cooldown steps, then HALF-OPEN for a single trial.  Time  *)
(* is only the number of steps still to wait, so the state space is finite *)
(* and what must eventually happen can be checked.                         *)
(***************************************************************************)
EXTENDS Naturals

CONSTANTS Fleets,     \* one breaker each
          Threshold,  \* config.overload.breaker_failure_threshold
          Cooldown    \* config.overload.breaker_cooldown_steps

ASSUME FailoverAssumption == Threshold \in Nat \ {0} /\ Cooldown \in Nat \ {0}

VARIABLES state,   \* "closed", "open" or "halfopen"
          strikes, \* failures in a row, while closed
          wait,    \* steps until the trial, while open
          todo,    \* fleets not yet considered in this step
          visible  \* fleets that answered in this step

Init == /\ state = [f \in Fleets |-> "closed"]
        /\ strikes = [f \in Fleets |-> 0]
        /\ wait = [f \in Fleets |-> 0]
        /\ todo = Fleets
        /\ visible = {}

\* Fleet f is open: the loop fails over to the others without calling it.
SkipCountsAsFailure(f) ==
           /\ f \in todo /\ state[f] = "open"
           /\ todo' = todo \ {f}
           /\ wait' = [wait EXCEPT ![f] = Cooldown]
           /\ UNCHANGED <<state, strikes, visible>>
Skip(f) == /\ f \in todo /\ state[f] = "open"
           /\ todo' = todo \ {f}
           /\ UNCHANGED <<state, strikes, wait, visible>>

\* Fleet f answers: its breaker closes, whatever it was.
Answer(f) == /\ f \in todo /\ state[f] # "open"
             /\ todo' = todo \ {f}
             /\ visible' = visible \cup {f}
             /\ state' = [state EXCEPT ![f] = "closed"]
             /\ strikes' = [strikes EXCEPT ![f] = 0]
             /\ UNCHANGED wait

\* Fleet f is closed and fails, short of the threshold.
Strike(f) == /\ f \in todo /\ state[f] = "closed" /\ strikes[f] + 1 < Threshold
             /\ todo' = todo \ {f}
             /\ strikes' = [strikes EXCEPT ![f] = @ + 1]
             /\ UNCHANGED <<state, wait, visible>>

\* Fleet f fails for the last time it may, or fails its trial: it opens.
Trip(f) == /\ f \in todo
           /\ \/ state[f] = "closed" /\ strikes[f] + 1 = Threshold
              \/ state[f] = "halfopen"
           /\ todo' = todo \ {f}
           /\ state' = [state EXCEPT ![f] = "open"]
           /\ strikes' = [strikes EXCEPT ![f] = 0]
           /\ wait' = [wait EXCEPT ![f] = Cooldown]
           /\ UNCHANGED visible

\* Time passes: an open breaker comes one step closer to its trial.
Tick == LET elapsed(f) == state[f] = "open" /\ wait[f] = 1
        IN /\ todo = {}
           /\ todo' = Fleets
           /\ visible' = {}
           /\ wait' = [f \in Fleets |-> IF wait[f] = 0 THEN 0 ELSE wait[f] - 1]
           /\ state' = [f \in Fleets |-> IF elapsed(f) THEN "halfopen" ELSE state[f]]
           /\ UNCHANGED strikes

Fail(f) == Strike(f) \/ Trip(f)

Next == \/ \E f \in Fleets : Skip(f) \/ Answer(f) \/ Fail(f)
        \/ Tick

vars == <<state, strikes, wait, todo, visible>>
Spec == Init /\ [][Next]_vars

\* step() is called again and again and never waits for a fleet.
FairSpec == Spec /\ WF_vars(Next)

-----------------------------------------------------------------------------
\* A fleet that stops failing is in the snapshot of every later step but finitely
\* many: no breaker stays open on a healthy fleet, whatever the other fleets do.
HealthyFleetReturns ==
  \A f \in Fleets :
    <>[][~Fail(f)]_vars => <>[](todo = {} => f \in visible)

\* An open breaker always gets its trial: the fleet is called again.
OpenGetsTrial == \A f \in Fleets : state[f] = "open" ~> state[f] = "halfopen"
=============================================================================
