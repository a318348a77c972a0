-------------------------- MODULE MCFleetFailover --------------------------
(* The clockless breakers, for liveness. *)
EXTENDS FleetFailover

CONSTANTS leo, nextgen
MCFleets == {leo, nextgen}
=============================================================================
