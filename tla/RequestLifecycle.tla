------------------------- MODULE RequestLifecycle -------------------------
(***************************************************************************)
(* What the control loop promises each single request, whatever the other  *)
(* requests do: it is published at most once, waits on the bus, is decided *)
(* in a step, may be deferred and held a bounded number of times, and ends *)
(* in exactly one outcome that never changes again.                        *)
(***************************************************************************)
EXTENDS Naturals

CONSTANTS Requests,     \* the requests the demand generator can produce
          RetryBudget   \* deferrals each request may take before it is dropped

VARIABLES life,   \* where each request is in its life
          tries   \* how many times it has been deferred

Open == {"unborn", "queued", "deciding", "held"}
Closed == {"served", "dropped", "rejected"}

Init == /\ life = [r \in Requests |-> "unborn"]
        /\ tries = [r \in Requests |-> 0]

\* Request r stays as it is.
Unmoved(r) == life'[r] = life[r] /\ tries'[r] = tries[r]

\* Request r moves from one stage to another, no deferral being counted.
Moves(r, from, to) == life[r] = from /\ life'[r] = to /\ tries'[r] = tries[r]

\* Request r, being decided, is deferred: one more try, within its budget.
Deferred(r) == /\ life[r] = "deciding" /\ life'[r] = "held"
               /\ tries[r] < RetryBudget[r] /\ tries'[r] = tries[r] + 1

Advance(r) == \/ Moves(r, "unborn", "queued")
              \/ Moves(r, "queued", "deciding")
              \/ Moves(r, "held", "deciding")
              \/ \E outcome \in Closed : Moves(r, "deciding", outcome)
              \/ Deferred(r)

Next == /\ life' \in [Requests -> Open \cup Closed]
        /\ tries' \in [Requests -> Nat]
        /\ \A r \in Requests : Unmoved(r) \/ Advance(r)

Spec == Init /\ [][Next]_<<life, tries>>
=============================================================================
