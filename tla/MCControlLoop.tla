--------------------------- MODULE MCControlLoop ---------------------------
(* Small instances of ControlLoop for TLC. *)
EXTENDS ControlLoop

CONSTANTS sos, chat, photo,  \* an urgent request and two best-effort ones
          map,               \* a request from a region in which nothing is legal
          leo, nextgen       \* the two fleets

MCRequests == {sos, chat, photo, map}
MCFleets == {leo, nextgen}
MCUrgent == {sos}
MCRetryBudget == [r \in MCRequests |-> IF r = photo THEN 1 ELSE 2]
MCDeadlineSlack == [r \in MCRequests |-> IF r = photo THEN 0 ELSE 2]
MCLicensed ==
  [r \in MCRequests |-> IF r = map THEN {} ELSE IF r = photo THEN {leo} ELSE MCFleets]
=============================================================================
