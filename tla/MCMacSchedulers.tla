-------------------------- MODULE MCMacSchedulers --------------------------
(* Four requests, one of them late, on a beam all share, one that is open to a *)
(* single request and twice as fine, and one that the lane has emptied.        *)
EXTENDS MacSchedulers

CONSTANTS sos, map, photo, late,  \* requests
          b1, b2, dry             \* beams

MCRequests == {sos, map, photo, late}
MCDegradable == {photo, map}
MCLate == {late}
MCBeams == {b1, b2, dry}
MCEligibleBeams ==
  [r \in MCRequests |->
     IF r = map THEN MCBeams ELSE IF r = late THEN {} ELSE {b1}]
MCRbUnits == [b \in MCBeams |-> IF b = b1 THEN 24 ELSE IF b = b2 THEN 12 ELSE 0]
MCRegUnits == [r \in MCRequests |-> IF r = sos THEN NoCap ELSE 56]
MCMcsTable == <<[min |-> 60, bits |-> 4], [min |-> 20, bits |-> 2]>>
=============================================================================
