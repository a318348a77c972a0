------------------------------ MODULE MCTier3 ------------------------------
(* A curve of three buckets that feedback tightens strongly or weakly, and loosens; *)
(* five regions of which two ask for airtime and two may be served by either fleet. *)
EXTENDS Tier3, Integers, TLC

CONSTANTS na, eu, apac, latam, other, photo, api

MCSignals == {-3, -1, 0, 1, 2}
MCRegions == {na, eu, apac, latam, other}
MCFleets == {1, 2}
MCClasses == {photo, api}
MCPriority == (photo :> 1 @@ api :> 0)
MCCapacity == [r \in MCRegions |-> IF r = na THEN <<2, 4>> ELSE <<2, 2>>]
MCLicences ==
  {[r \in MCRegions |-> IF r = na THEN n ELSE IF r = eu THEN e ELSE {1}] :
     n \in {{2}, {1, 2}}, e \in {{1}, {1, 2}}}
MCDemandOf(naUnits, euPhoto) ==
  [r \in MCRegions |-> [c \in MCClasses |->
     IF r = na THEN naUnits ELSE IF r = eu /\ c = photo THEN euPhoto ELSE 0]]
MCDemands == {MCDemandOf(0, 0), MCDemandOf(3, 1), MCDemandOf(0, 2)}
MCServings == {[c \in MCClasses |-> IF c = photo THEN 2 ELSE n] : n \in {0, 1}}
=============================================================================
