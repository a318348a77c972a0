------------------------------ MODULE Airtime ------------------------------
(***************************************************************************)
(* What the tiers that hand out airtime in one step share: the requests of *)
(* the step, the beams of the merged snapshot, the regulatory table        *)
(* (adapters/network/regulatory.py) and the ledger of what was allocated.  *)
(*                                                                         *)
(* Airtime is counted in integer units.  Slack is the 1e-9 by which every  *)
(* comparison in the code tolerates rounding, in the same units: a fit may *)
(* be short by Slack.  A limit of None is a number no cost reaches.        *)
(***************************************************************************)
EXTENDS Integers, FiniteSets

CONSTANTS
  Requests,      \* everything _ingest returned in this step
  Urgent,        \* those in URGENT_CLASSES
  Degradable,    \* those whose class profile is degradable
  Expired,       \* those past their deadline
  Worn,          \* those with retry_count > config.emergency.max_retries
  RegionOf,      \* region of each request
  Costs,         \* estimated_cost_units a request may have
  Beams,
  BeamRegion, BeamFleet, BeamBand,
  Capacity,      \* capacity_units of each beam
  Rules,         \* the region rules: fleets, bands and max_airtime_units
  Slack          \* 1e-9

ASSUME RequestAssumption ==
  /\ IsFiniteSet(Requests) /\ IsFiniteSet(Beams)
  /\ Urgent \subseteq Requests /\ Degradable \subseteq Requests
  /\ Expired \subseteq Requests /\ Worn \subseteq Requests

\* Any real cost exceeds the tolerance: a request has at least one byte.
ASSUME AirtimeAssumption ==
  /\ Slack \in Nat
  /\ Costs \subseteq {c \in Nat : c > Slack}
  /\ Capacity \in [Beams -> Nat]

ASSUME RuleAssumption ==
  \A region \in DOMAIN Rules : Rules[region].cap \in Nat

VARIABLES
  phase,        \* the stage of step() that runs
  cost,         \* estimate_cost_units of each request, the same in both tiers
  granted,      \* units allocated on each beam so far
  allocations,  \* the Allocation records
  served, dropped

Smaller(a, b) == IF a <= b THEN a ELSE b
Larger(a, b) == IF a >= b THEN a ELSE b

\* TableRegulatoryPolicy.evaluate(r.region, b.fleet, b.band).allowed.
Legal(r, b) ==
  /\ RegionOf[r] \in DOMAIN Rules
  /\ BeamFleet[b] \in Rules[RegionOf[r]].fleets
  /\ BeamBand[b] \in Rules[RegionOf[r]].bands

\* max_airtime_units of the region's constraints, which both tiers apply.
RegCap(r) == Rules[RegionOf[r]].cap

\* A beam both tiers consider for r: in its region, on a legal (fleet, band).
Eligible(r, b) == BeamRegion[b] = RegionOf[r] /\ Legal(r, b)

\* TableRegulatoryPolicy.allowed_options is empty.
NoOptions(r) == \/ RegionOf[r] \notin DOMAIN Rules
                \/ Rules[RegionOf[r]].fleets = {}
                \/ Rules[RegionOf[r]].bands = {}

\* Allocate units on beam b to r: the Allocation record and its effect.
Grant(r, b, units, degraded) ==
  /\ granted' = [granted EXCEPT ![b] = @ + units]
  /\ allocations' = allocations \cup
       {[request |-> r, beam |-> b, units |-> units, degraded |-> degraded]}
  /\ served' = served \cup {r}

LedgerInit ==
  /\ cost \in [Requests -> Costs]
  /\ granted = [b \in Beams |-> 0]
  /\ allocations = {} /\ served = {} /\ dropped = {}

Ledger == <<granted, allocations, served>>
=============================================================================
