------------------------------ MODULE SlotMac ------------------------------
(***************************************************************************)
(* SlotMacScheduler (adapters/mac/mac.py): granted access.  schedule()     *)
(* visits the candidates highest score first and gives each whole RBs of   *)
(* one beam.  The score order is any order.                                *)
(***************************************************************************)
EXTENDS MacGrid

VARIABLES
  freeRbs,   \* free_rbs of each beam's grid
  grants     \* the Allocation records, in RBs

slotVars == <<freeRbs, grants>>

SlotInit == freeRbs = [b \in Beams |-> RbsPerBeam] /\ grants = {}

\* RBs of beam b that r may be assigned, and the beams offering the most.
AssignableIgnoringFree(r, b) ==
  Smaller(Smaller(RbsPerBeam, RequestCap(r)), RegulatoryCap(r, b, RbsPerBeam))
Assignable(r, b) ==
  Smaller(Smaller(freeRbs[b], RequestCap(r)), RegulatoryCap(r, b, freeRbs[b]))
BestBeams(r) ==
  {b \in EligibleBeams[r] :
     /\ Assignable(r, b) > 0
     /\ \A c \in EligibleBeams[r] : Assignable(r, c) <= Assignable(r, b)}

\* r needs no more than its cap, and the beam has room for all of it.
FitsWithRoomToSpare(r, b) == Needed(r) <= RequestCap(r) /\ Assignable(r, b) > Needed(r)
FitsFully(r, b) == Needed(r) <= RequestCap(r) /\ Assignable(r, b) >= Needed(r)

\* A degradable request accepts fewer RBs, down to its floor.
FitsDegraded(r, b) ==
  ~FitsFully(r, b) /\ r \in Degradable /\ Assignable(r, b) >= DegradeFloor(r)

Grant(r, b, rbs, degraded) ==
  /\ freeRbs' = [freeRbs EXCEPT ![b] = @ - rbs]
  /\ grants' = grants \cup {[request |-> r, beam |-> b, rbs |-> rbs, degraded |-> degraded]}
  /\ served' = served \cup {r}
  /\ UNCHANGED <<deferred, dropped>>

AssignFull(r) ==
  /\ Visit(r) /\ r \notin Late
  /\ \E b \in BestBeams(r) : FitsFully(r, b) /\ Grant(r, b, Needed(r), FALSE)

AssignDegraded(r) ==
  /\ Visit(r) /\ r \notin Late
  /\ \E b \in BestBeams(r) : FitsDegraded(r, b) /\ Grant(r, b, Assignable(r, b), TRUE)

Defer(r) ==
  /\ Visit(r) /\ r \notin Late
  /\ \A b \in BestBeams(r) : ~FitsFully(r, b) /\ ~FitsDegraded(r, b)
  /\ deferred' = deferred \cup {r}
  /\ UNCHANGED <<freeRbs, grants, served, dropped>>

DropExpired(r) ==
  /\ Visit(r) /\ r \in Late
  /\ dropped' = dropped \cup {r}
  /\ UNCHANGED <<freeRbs, grants, served, deferred>>

SlotNext == \E r \in Requests : AssignFull(r) \/ AssignDegraded(r) \/ Defer(r) \/ DropExpired(r)

-----------------------------------------------------------------------------
RbsOn(b) == SumFunction([g \in {h \in grants : h.beam = b} |-> g.rbs])

\* Granted access is collision-free: the RBs given away on a beam and those still
\* free are the grid, so no RB is given to two requests.
GridConserved == \A b \in Beams : freeRbs[b] >= 0 /\ RbsOn(b) + freeRbs[b] = RbsPerBeam

\* The level a link is used at is the most demanding one it supports, or the most
\* robust one; of equally demanding levels it is the last.  One RB carries its bits.
Usable(r) == {i \in Levels : McsTable[i].min <= quality[r] \/ \A j \in Levels : Before(i, j)}
LinkBits(r) == {SymbolsPerRb * McsTable[i].bits :
                  i \in {k \in Usable(r) : \A j \in Usable(r) : Before(j, k)}}

\* A full grant carries the whole payload at the rate of the link and wastes no RB; a
\* degraded one carries less than the payload, and only for a class that accepts it
\* and above the floor.
PayloadCarried ==
  \A g \in grants : \E rate \in LinkBits(g.request) :
    LET r == g.request
        bits == 8 * size[r]
    IN IF g.degraded
       THEN /\ r \in Degradable /\ g.rbs * rate < bits
            /\ 100 * g.rbs >= FloorPercent * Smaller(Needed(r), RequestCap(r))
       ELSE g.rbs * rate >= bits /\ (g.rbs - 1) * rate < bits

\* Mapped back to airtime units no grant exceeds the regulatory airtime cap: the
\* cap is converted to whole RBs without rounding it up.
AirtimeWithinRegulation ==
  \A g \in grants :
    /\ g.beam \in EligibleBeams[g.request]
    /\ RegUnits[g.request] # NoCap => g.rbs * RbUnits[g.beam] <= RegUnits[g.request]

\* Work conservation: what was deferred could still not be placed when every other
\* request has been, in full or, if its class accepts it, degraded.
DeferredDoesNotFit ==
  \A r \in deferred : \A b \in EligibleBeams[r] :
    LET room == Smaller(freeRbs[b], RegulatoryCap(r, b, freeRbs[b]))
    IN /\ Needed(r) <= RequestCap(r) => room < Needed(r)
       /\ r \in Degradable => room < DegradeFloor(r)
=============================================================================
