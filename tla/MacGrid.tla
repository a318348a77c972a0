------------------------------ MODULE MacGrid ------------------------------
(***************************************************************************)
(* What the two MAC schedulers of adapters/mac/mac.py share: the grid of   *)
(* resource blocks (RBs) each beam is expanded into, link adaptation and   *)
(* the RB caps.  Link quality is in percent, airtime in units fine enough  *)
(* that the airtime of an RB is a whole number.                            *)
(***************************************************************************)
EXTENDS Integers, Sequences, FiniteSetsExt

CONSTANTS
  Requests,         \* the scheduler's candidates
  Degradable, Late, \* those of a degradable class, and those past their deadline
  EligibleBeams,    \* per request, the beams of its region on a legal option
  Beams,
  RbsPerBeam,       \* slots_per_step * subchannels
  RbUnits,          \* airtime of one RB of each beam: capacity / RbsPerBeam
  RegUnits,         \* max_airtime_units of the request's region, None if NoCap
  MaxRbs,           \* config.max_rbs_per_request, None if NoCap
  FloorPercent,     \* config.degrade_min_fraction, in percent
  SymbolsPerRb,     \* config.symbols_per_rb
  McsTable,         \* config.mcs_table, in configuration order: min and bits of a level
  Sizes, Qualities  \* size_bytes and link_quality a request may have

NoCap == -1

ASSUME GridAssumption ==
  /\ IsFiniteSet(Requests) /\ Degradable \subseteq Requests /\ Late \subseteq Requests
  /\ EligibleBeams \in [Requests -> SUBSET Beams]
  /\ RbsPerBeam \in Nat \ {0}
  /\ RbUnits \in [Beams -> Nat]
  /\ RegUnits \in [Requests -> Nat \cup {NoCap}]
  /\ MaxRbs \in (Nat \ {0}) \cup {NoCap} /\ FloorPercent \in 1..100

ASSUME LinkAssumption ==
  /\ SymbolsPerRb \in Nat \ {0}
  /\ Sizes \subseteq Nat \ {0} /\ Qualities \subseteq 0..100
  /\ McsTable \in Seq([min : 0..100, bits : Nat \ {0}]) /\ McsTable # <<>>

VARIABLES
  size, quality,             \* of each request
  queue,                     \* candidates schedule() has still to visit
  served, deferred, dropped

Smaller(a, b) == IF a <= b THEN a ELSE b
CeilDivDown(a, b) == a \div b
CeilDiv(a, b) == (a + b - 1) \div b

\* The table sorted by threshold, stably, as the schedulers keep it.
Levels == DOMAIN McsTable
Before(i, j) ==
  McsTable[i].min < McsTable[j].min \/ (McsTable[i].min = McsTable[j].min /\ i <= j)
LadderUnsorted == McsTable
Ladder ==
  [k \in Levels |-> McsTable[CHOOSE i \in Levels : Cardinality({j \in Levels : Before(j, i)}) = k]]

\* _spectral_efficiency: the last level of the ladder the link supports, else the first.
Supported(q) == {i \in DOMAIN Ladder : Ladder[i].min <= q}
SpectralEfficiency(q) ==
  IF Supported(q) = {} THEN Ladder[1].bits ELSE Ladder[Max(Supported(q))].bits

BitsPerRb(r) == SymbolsPerRb * SpectralEfficiency(quality[r])

\* _rbs_needed: at least one RB, whatever the payload.
Needed(r) == CeilDiv(8 * size[r], BitsPerRb(r))

\* max_rbs_per_request or needed.
RequestCap(r) == IF MaxRbs = NoCap THEN Needed(r) ELSE MaxRbs

\* _regulatory_cap_rbs: a beam without capacity carries nothing.
RegulatoryCapRoundedUp(r, b, unlimited) ==
  IF RbUnits[b] = 0 THEN 0
  ELSE IF RegUnits[r] = NoCap THEN unlimited
  ELSE CeilDiv(RegUnits[r], RbUnits[b])
RegulatoryCap(r, b, unlimited) ==
  IF RbUnits[b] = 0 THEN 0
  ELSE IF RegUnits[r] = NoCap THEN unlimited
  ELSE RegUnits[r] \div RbUnits[b]

\* The fewest RBs a degradable request accepts.
DegradeFloor(r) == CeilDiv(FloorPercent * Smaller(Needed(r), RequestCap(r)), 100)

GridInit ==
  /\ size \in [Requests -> Sizes] /\ quality \in [Requests -> Qualities]
  /\ queue = Requests /\ served = {} /\ deferred = {} /\ dropped = {}

\* One iteration over the candidates.
Visit(r) == r \in queue /\ queue' = queue \ {r} /\ UNCHANGED <<size, quality>>
=============================================================================
