-------------------------- MODULE MCStepAllocation --------------------------
(* Two beams over one region, of different fleets and bands, and one over a
   second region with a stricter rule, all of which is reserved.  What is left of
   a beam may be just the tolerance short of a cost, or short of a degraded one.
   Three urgent requests, one of them on its last retry, one best-effort request
   that degrades, one that does not, and one that is late. *)
EXTENDS StepAllocation, TLC

CONSTANTS sos1, sos2, worn, map, photo, late, \* requests
          east, west,                          \* regions
          b1, b2, b3,                          \* beams
          leo, nextgen, L, S                   \* fleets and bands

MCRequests == {sos1, sos2, worn, map, photo, late}
MCUrgent == {sos1, sos2, worn}
MCDegradable == {photo}
MCExpired == {late}
MCWorn == {worn}
MCRegionOf == [r \in MCRequests |-> IF r = sos2 THEN west ELSE east]
MCBeams == {b1, b2, b3}
MCBeamRegion == [b \in MCBeams |-> IF b = b3 THEN west ELSE east]
MCBeamFleet == [b \in MCBeams |-> IF b = b2 THEN nextgen ELSE leo]
MCBeamBand == [b \in MCBeams |-> IF b = b2 THEN S ELSE L]
MCCapacity == (b1 :> 5) @@ (b2 :> 2) @@ (b3 :> 2)
MCReserve == [b \in MCBeams |-> IF b = b3 THEN 2 ELSE 1]
MCRules == (east :> [fleets |-> {leo, nextgen}, bands |-> {L, S}, cap |-> 3])
           @@ (west :> [fleets |-> {leo}, bands |-> {L}, cap |-> 2])
=============================================================================
