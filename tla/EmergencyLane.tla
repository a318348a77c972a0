--------------------------- MODULE EmergencyLane ---------------------------
(***************************************************************************)
(* Tier 2 (adapters/admission/emergency.py): reserve() places the urgent   *)
(* requests of a step on the reserved slice of each beam, most urgent      *)
(* first.  The ranking is any order: every order is that of some scores.   *)
(***************************************************************************)
EXTENDS Airtime, Functions

CONSTANTS
  Reserve,        \* reserved_fraction of each beam's capacity
  LaneMaxUnits,   \* config.emergency.max_units_per_request
  GeoPercent      \* config.emergency.geo_fairness_weight, in percent

\* reserved_fraction is at most 1 (config.py).
ASSUME LaneAssumption ==
  /\ Reserve \in [Beams -> Nat] /\ \A b \in Beams : Reserve[b] <= Capacity[b]
  /\ LaneMaxUnits \in Nat /\ GeoPercent \in Nat

VARIABLES
  ranked,      \* urgent requests reserve() has still to place
  laneFree,    \* remaining of each beam of the pool
  regionUsed,  \* region_used
  spillover    \* shed with EMERGENCY_LANE_FULL

laneVars == <<ranked, laneFree, regionUsed, spillover>>

Pool == {b \in Beams : Reserve[b] > 0}
Regions == {RegionOf[r] : r \in Requests}

\* _rank drops what is late or tried too often, and ranks the rest.
Unranked == Urgent \cap (Expired \cup Worn)
Ranked == Urgent \ Unranked

LaneInit ==
  /\ ranked = Ranked
  /\ laneFree = Reserve
  /\ regionUsed = [g \in Regions |-> 0]
  /\ spillover = {}

\* _per_region_cap is min(total, total / regions * weight); need more units in the
\* region of r would exceed it.
TotalReserved == SumFunctionOnSet(Reserve, Pool)
RegionsRanked == Cardinality({RegionOf[r] : r \in Ranked})
OverRegionShare(r) ==
  LET wanted == regionUsed[RegionOf[r]] + cost[r] - Slack
  IN \/ wanted > TotalReserved
     \/ 100 * RegionsRanked * wanted > TotalReserved * GeoPercent

\* _place: the beams of the pool on which r fits, and those with most headroom.
LaneFitWholeBeam(r) == {b \in Pool : Eligible(r, b) /\ Smaller(Capacity[b], RegCap(r)) + Slack >= cost[r]}
LaneFit(r) ==
  {b \in Pool : Eligible(r, b) /\ Smaller(laneFree[b], RegCap(r)) + Slack >= cost[r]}
LaneBest(r) == {b \in LaneFit(r) : \A c \in LaneFit(r) : laneFree[b] >= laneFree[c]}

\* reserve() sheds r: over the per-request cap, over its region's share, or no fit.
LaneSheds(r) == \/ cost[r] > LaneMaxUnits + Slack
                \/ OverRegionShare(r)
                \/ LaneFit(r) = {}

LaneReserve(r) ==
  /\ phase = "lane" /\ r \in ranked
  /\ ~LaneSheds(r)
  /\ \E b \in LaneBest(r) :
       /\ Grant(r, b, cost[r], FALSE)
       /\ laneFree' = [laneFree EXCEPT ![b] = @ - cost[r]]
  /\ regionUsed' = [regionUsed EXCEPT ![RegionOf[r]] = @ + cost[r]]
  /\ ranked' = ranked \ {r}
  /\ UNCHANGED <<phase, cost, dropped, spillover>>

\* The fate of a request the lane sheds: it stays a candidate for best effort.
LaneShed(r) ==
  /\ phase = "lane" /\ r \in ranked
  /\ LaneSheds(r)
  /\ spillover' = spillover \cup {r}
  /\ ranked' = ranked \ {r}
  /\ UNCHANGED <<phase, cost, granted, allocations, served, dropped, laneFree, regionUsed>>
=============================================================================
