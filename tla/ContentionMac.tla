--------------------------- MODULE ContentionMac ---------------------------
(***************************************************************************)
(* ContentionMacScheduler (adapters/mac/mac.py): slotted random access.    *)
(* In the first pass every viable UE transmits on random RBs of a random   *)
(* eligible beam; in the second, a UE succeeds if none of its RBs carries  *)
(* more than Capture transmissions, and shares the airtime of each.        *)
(***************************************************************************)
EXTENDS MacGrid

CONSTANT Captures   \* config.capture_capacity it may be configured with

\* An RB's airtime divides evenly among any UEs that share it.
ASSUME ContentionAssumption ==
  /\ Captures \subseteq Nat \ {0}
  /\ \A b \in Beams, n \in 1..Cardinality(Requests) : RbUnits[b] % n = 0

VARIABLES
  capture,    \* capture_capacity of this run
  pass,       \* the pass of schedule() that runs, with a queue of its own
  attempts,   \* transmissions: request, beam, rbs and degraded
  occupancy,  \* UEs transmitting on each RB of each beam
  units       \* airtime allocated to each served request

contentionVars == <<capture, pass, attempts, occupancy, units>>
Rbs == 1..RbsPerBeam

ContentionInit ==
  /\ capture \in Captures /\ pass = "transmit" /\ attempts = {}
  /\ occupancy = [b \in Beams |-> [rb \in Rbs |-> 0]]
  /\ units = [r \in Requests |-> 0]

\* _rbs_for: the RBs r transmits on in beam b, none if it would get too few.
AttemptsPastRegulation(r, b) == Smaller(Smaller(Needed(r), RequestCap(r)), RbsPerBeam)
Attempts(r, b) ==
  Smaller(Smaller(Needed(r), RequestCap(r)), Smaller(RegulatoryCap(r, b, RbsPerBeam), RbsPerBeam))
EnoughInFull(r, k) == k >= Needed(r)
Enough(r, k) == k >= Needed(r) \/ (r \in Degradable /\ k >= DegradeFloor(r))

\* One iteration of a pass.
VisitIn(p, r) == pass = p /\ Visit(r) /\ UNCHANGED <<capture, pass>>

\* _attempt and its effect on the occupancy of the grid.
Transmit(r) ==
  /\ VisitIn("transmit", r) /\ r \notin Late
  /\ \E b \in EligibleBeams[r] :
       /\ Enough(r, Attempts(r, b))
       /\ \E rbs \in kSubset(Attempts(r, b), Rbs) :
            /\ attempts' = attempts \cup
                 {[request |-> r, beam |-> b, rbs |-> rbs,
                   degraded |-> Attempts(r, b) < Needed(r)]}
            /\ occupancy' = [occupancy EXCEPT ![b] =
                 [rb \in Rbs |-> @[rb] + IF rb \in rbs THEN 1 ELSE 0]]
  /\ UNCHANGED <<units, served, deferred, dropped>>

\* The beam r picked, if any is eligible, would give it too few RBs.
HoldBack(r) ==
  /\ VisitIn("transmit", r) /\ r \notin Late
  /\ \/ EligibleBeams[r] = {}
     \/ \E b \in EligibleBeams[r] : ~Enough(r, Attempts(r, b))
  /\ deferred' = deferred \cup {r}
  /\ UNCHANGED <<attempts, occupancy, units, served, dropped>>

DropLate(r) ==
  /\ VisitIn("transmit", r) /\ r \in Late
  /\ dropped' = dropped \cup {r}
  /\ UNCHANGED <<attempts, occupancy, units, served, deferred>>

\* Every UE has transmitted before any is received.
AllTransmitted == pass = "transmit" /\ queue = {}
ReceiveAll ==
  /\ AllTransmitted
  /\ pass' = "receive" /\ queue' = {a.request : a \in attempts}
  /\ UNCHANGED <<size, quality, capture, attempts, occupancy, units, served, deferred, dropped>>

\* An RB of attempt a is over-subscribed beyond the capture capacity.
CollidesOnEveryRb(a) == \A rb \in a.rbs : occupancy[a.beam][rb] > capture
Collides(a) == \E rb \in a.rbs : occupancy[a.beam][rb] > capture

\* The airtime of attempt a: its share of each RB it transmits on.
WholeRbs(a) == RbUnits[a.beam] * Cardinality(a.rbs)
Share(a) == SumFunction([rb \in a.rbs |-> RbUnits[a.beam] \div occupancy[a.beam][rb]])

Receive(a) ==
  /\ VisitIn("receive", a.request) /\ ~Collides(a)
  /\ units' = [units EXCEPT ![a.request] = Share(a)]
  /\ served' = served \cup {a.request}
  /\ UNCHANGED <<attempts, occupancy, deferred, dropped>>

Lose(a) ==
  /\ VisitIn("receive", a.request) /\ Collides(a)
  /\ deferred' = deferred \cup {a.request}
  /\ UNCHANGED <<attempts, occupancy, units, served, dropped>>

ContentionNext ==
  \/ \E r \in Requests : Transmit(r) \/ HoldBack(r) \/ DropLate(r)
  \/ ReceiveAll
  \/ \E a \in attempts : Receive(a) \/ Lose(a)

-----------------------------------------------------------------------------
Winners == {a \in attempts : a.request \in served}
Over == pass = "receive" /\ queue = {}

\* The airtime the winners share never exceeds a beam's capacity, whatever the
\* random choices, however many UEs an RB can separate.
AirtimeShared ==
  \A b \in Beams :
    SumFunction([a \in {w \in Winners : w.beam = b} |-> units[a.request]])
      <= RbsPerBeam * RbUnits[b]

\* A collision decides, and nothing else: a winner met at most capture transmissions,
\* its own included, on every RB it used, whether or not those were received; and
\* once the step is over, whoever transmitted and was deferred met more on one.
Crowd(a, rb) == Cardinality({t \in attempts : t.beam = a.beam /\ rb \in t.rbs})
CollisionsDecide ==
  /\ \A w \in Winners : \A rb \in w.rbs : Crowd(w, rb) <= capture
  /\ Over => \A l \in attempts \ Winners : \E rb \in l.rbs : Crowd(l, rb) > capture

\* A beam r would have all to itself could neither carry all of it nor, if its class
\* degrades, as much as the class accepts.
TooSmall(r, b) ==
  LET room == Smaller(RbsPerBeam, RegulatoryCap(r, b, RbsPerBeam))
  IN /\ Needed(r) <= RequestCap(r) => room < Needed(r)
     /\ r \in Degradable => room < DegradeFloor(r)

\* A request deferred though it never transmitted had no beam to transmit on, or one it
\* may have picked is too small for it even when nobody else is there.
HeldBackForCause ==
  \A r \in deferred \ {a.request : a \in attempts} :
    EligibleBeams[r] = {} \/ \E b \in EligibleBeams[r] : TooSmall(r, b)

\* Alone or sharing, no winner gets more airtime than its region allows, or more
\* RBs than the per-request cap; fewer than it needs only if its class degrades.
WinnersWithinCaps ==
  \A w \in Winners :
    LET r == w.request
    IN /\ RegUnits[r] # NoCap => units[r] <= RegUnits[r]
       /\ Cardinality(w.rbs) <= RequestCap(r)
       /\ Cardinality(w.rbs) < Needed(r) <=> w.degraded
       /\ w.degraded => r \in Degradable
=============================================================================
