--------------------------- MODULE StepAllocation ---------------------------
(***************************************************************************)
(* One step's airtime, as ControlLoop.step hands it out: the emergency     *)
(* lane reserves on the whole snapshot, subtract_reservations takes what   *)
(* was used (not what was reserved) out of it, admission and the           *)
(* regulatory table thin the best-effort list, and the scheduler allocates *)
(* what is left.                                                           *)
(***************************************************************************)
EXTENDS EmergencyLane, GreedyScheduler

VARIABLE rejected

vars == <<phase, cost, granted, allocations, served, dropped, laneVars, schedVars, rejected>>

Init ==
  /\ phase = "lane" /\ LedgerInit /\ LaneInit /\ SchedInit /\ rejected = {}

\* Non-urgent requests and the lane's spillover.
BestEffortUrgentToo == Requests \ (Unranked \cup rejected)
BestEffortNoSpillover == Requests \ Urgent
BestEffort == (Requests \ Urgent) \cup spillover

\* subtract_reservations: what the lane used is gone, its unused reserve is not.
RemainingWholeReserve(b) == Capacity[b] - Reserve[b]
RemainingAll(b) == Capacity[b]
Remaining(b) == Larger(0, Capacity[b] - granted[b])

\* The lane is through: its early drops are final, admission sheds any subset of
\* the best-effort list, and what has no legal option is rejected as well.
HandOver ==
  /\ phase = "lane" /\ ranked = {}
  /\ dropped' = dropped \cup Unranked
  /\ free' = [b \in Beams |-> Remaining(b)]
  /\ \E shed \in SUBSET BestEffort :
       /\ rejected' = shed \cup {r \in BestEffort : NoOptions(r)}
       /\ queue' = BestEffort \ rejected'
  /\ phase' = "schedule"
  /\ UNCHANGED <<cost, Ledger, laneVars, deferred>>

LaneNext == \E r \in Requests : LaneReserve(r) \/ LaneShed(r)
SchedNext == \E r \in Requests :
  SchedFull(r) \/ SchedDegraded(r) \/ SchedDefer(r) \/ SchedExpired(r)

Next == \/ LaneNext /\ UNCHANGED <<schedVars, rejected>>
        \/ HandOver
        \/ SchedNext /\ UNCHANGED <<laneVars, rejected>>

Spec == Init /\ [][Next]_vars

-----------------------------------------------------------------------------
(* Properties *)

\* TYPE INVARIANT.
TypeOK ==
  /\ phase \in {"lane", "schedule"}
  /\ cost \in [Requests -> Costs]
  /\ granted \in [Beams -> Nat]
  /\ \A a \in allocations :
       /\ a.request \in Requests /\ a.beam \in Beams
       /\ a.units \in Nat \ {0} /\ a.degraded \in BOOLEAN
  /\ served \subseteq Requests /\ dropped \subseteq Requests
  /\ ranked \subseteq Ranked /\ spillover \subseteq Ranked
  /\ laneFree \in [Beams -> Int] /\ regionUsed \in [Regions -> Nat]
  /\ queue \subseteq Requests /\ deferred \subseteq Requests
  /\ free \in [Beams -> Int] /\ rejected \subseteq Requests

\* No beam gives away more than its capacity and one rounding tolerance, the lane no
\* more than the reserved slice: the tiers share each beam one after the other, and
\* their tolerances never add up.
BeamWithinCapacity == \A b \in Beams : granted[b] <= Capacity[b] + Slack
LaneWithinReserve == phase = "lane" => \A b \in Beams : granted[b] <= Reserve[b] + Slack
BeamNotOversubscribed == BeamWithinCapacity /\ LaneWithinReserve

\* Whichever path made it (lane, full fit, degraded), an allocation is on a beam
\* of the request's region, legal there, and within the regulatory cap.
AllocationsLegal ==
  \A a \in allocations :
    /\ BeamRegion[a.beam] = RegionOf[a.request]
    /\ RegionOf[a.request] \in DOMAIN Rules
    /\ BeamFleet[a.beam] \in Rules[RegionOf[a.request]].fleets
    /\ BeamBand[a.beam] \in Rules[RegionOf[a.request]].bands
    /\ a.units <= Rules[RegionOf[a.request]].cap + Slack

\* Work conservation: a request that was deferred still does not fit once the step
\* is over, on any beam, counting all the airtime nobody was given, the unused
\* part of the emergency reserve included.
DeferredDoesNotFit ==
  \A r \in deferred, b \in Beams :
    Eligible(r, b) =>
      Smaller(Smaller(Capacity[b] - granted[b], RegCap(r)), UnitCap) + Slack < cost[r]

\* The lane, too: an urgent request spills over only if the reserve left could not
\* have taken it.
SpilloverDoesNotFit ==
  \A r \in spillover :
    \/ cost[r] > LaneMaxUnits + Slack
    \/ OverRegionShare(r)
    \/ \A b \in Pool : Eligible(r, b) =>
         Smaller(laneFree[b], RegCap(r)) + Slack < cost[r]

\* Nor does a request that may be degraded, cut down to the least worth serving.
DeferredDegradesNowhere ==
  \A r \in deferred \cap Degradable, b \in Beams :
    LET left == Smaller(Smaller(Capacity[b] - granted[b], RegCap(r)), UnitCap)
    IN  Eligible(r, b) /\ left > 0 => ~Worthwhile(r, left)

\* No tier turns away what fits, whole or degraded: neither does the lane, within the slice of the beams
\* that is its own, nor the scheduler, with all that the lane left.
RefusedDoesNotFit == DeferredDoesNotFit /\ DeferredDegradesNowhere /\ SpilloverDoesNotFit

\* The contract ControlLoop relies on: when the tiers are through, each request of
\* the step is served, dropped, rejected or deferred, and only one of them.
Answers == <<served, dropped, rejected, deferred>>
EveryRequestAnswered ==
  /\ \A i, j \in DOMAIN Answers : i # j => Answers[i] \cap Answers[j] = {}
  /\ phase = "schedule" /\ queue = {} =>
       served \cup dropped \cup rejected \cup deferred = Requests

\* The step implements the airtime ledger.
AirtimeLimit == [b \in Beams |-> Capacity[b] + Slack]
EligiblePairs == {p \in Requests \X Beams : Eligible(p[1], p[2])}
AirtimePromise == INSTANCE AirtimeLedger
  WITH Limit <- AirtimeLimit, MayUse <- EligiblePairs, holders <- served
RefinesLedger == AirtimePromise!Spec
=============================================================================
